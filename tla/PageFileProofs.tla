--------------------------- MODULE PageFileProofs ---------------------------
(***************************************************************************)
(* The pages of heap.ndb as bytes, for every page size, every rows, and    *)
(* any number of pages, writes and power losses.                           *)
(*                                                                         *)
(* First what Page::insert and the setters of the header do to a page: the *)
(* layout of SlottedPage is kept, every slot reads back the tuple that was *)
(* put into it, and no header field overlaps another or a tuple.  Then     *)
(* what codec.rs makes of a row: what it decodes is what it encoded.       *)
(* Then the invariant of PageFile that gives, in every reachable state,    *)
(* what PageFile states of its pages and of Engine::verify.                *)
(***************************************************************************)
EXTENDS PageFile, Induction

-----------------------------------------------------------------------------
(* page.rs: numbers and fields. *)

LEMMA PageSizeFacts == PAGE_SIZE \in Nat /\ 64 <= PAGE_SIZE /\ PAGE_SIZE < 65536
BY PageSizeAssumption

LEMMA OffsetsAre == \A i : i \in Offsets <=> i \in Nat /\ i < PAGE_SIZE
BY PageSizeFacts DEF Offsets

LEMMA HeaderOffsets ==
    /\ 18 \in Offsets /\ 19 \in Offsets /\ 20 \in Offsets /\ 21 \in Offsets
    /\ 22 \in Offsets /\ 23 \in Offsets
<1>1. /\ 18 < PAGE_SIZE /\ 19 < PAGE_SIZE /\ 20 < PAGE_SIZE /\ 21 < PAGE_SIZE
      /\ 22 < PAGE_SIZE /\ 23 < PAGE_SIZE
    BY PageSizeFacts
<1>2. 18 \in Nat /\ 19 \in Nat /\ 20 \in Nat /\ 21 \in Nat /\ 22 \in Nat /\ 23 \in Nat
    OBVIOUS
<1> QED BY <1>1, <1>2, OffsetsAre

-----------------------------------------------------------------------------
(* Numbers of 16 bits. *)

LEMMA Low16 == \A n \in Nat : n < 65536 => (n \div 256) % 256 = n \div 256
OBVIOUS

LEMMA Halves16 == \A n \in Nat : (n % 256) + (256 * (n \div 256)) = n
OBVIOUS

\* A number below 2^16 survives being split into two bytes.
LEMMA LE16Value ==
    ASSUME NEW n \in Nat, n < 65536
    PROVE  /\ LE16(n)[1] + (256 * LE16(n)[2]) = n
           /\ LE16(n)[1] \in Byte /\ LE16(n)[2] \in Byte
<1>1. (n \div 256) % 256 = n \div 256 BY Low16
<1>2. (n % 256) + (256 * (n \div 256)) = n BY Halves16
<1>3. LE16(n)[1] = n % 256 /\ LE16(n)[2] = (n \div 256) % 256 BY DEF LE16
<1>4. n % 256 \in Byte /\ (n \div 256) % 256 \in Byte BY DEF Byte
<1> QED BY <1>1, <1>2, <1>3, <1>4

-----------------------------------------------------------------------------
(* Writing a field. *)

\* The bytes of the field, and those around it
LEMMA WriteFieldBytes ==
    ASSUME NEW buf, NEW off \in Nat, NEW width \in Nat, NEW s
    PROVE  /\ DOMAIN WriteField(buf, off, width, s) = DOMAIN buf
           /\ \A i \in DOMAIN buf :
                 WriteField(buf, off, width, s)[i] =
                    IF i \in off .. off + width - 1 THEN s[i - off + 1] ELSE buf[i]
BY DEF WriteField

\* A number that is written is read back.
LEMMA U16Written ==
    ASSUME NEW buf, NEW off \in Nat, NEW n \in Nat, n < 65536,
           {off, off + 1} \subseteq DOMAIN buf
    PROVE  U16(WriteU16(buf, off, n), off) = n
<1> DEFINE w == WriteField(buf, off, 2, LE16(n))
<1>1. w[off] = LE16(n)[1]
    BY WriteFieldBytes, off \in off .. off + 2 - 1, off - off + 1 = 1
<1>2. w[off + 1] = LE16(n)[2]
    BY WriteFieldBytes, off + 1 \in off .. off + 2 - 1, off + 1 - off + 1 = 2
<1> QED BY <1>1, <1>2, LE16Value DEF U16, WriteU16

\* A field that lies elsewhere is not changed.
LEMMA U16Kept ==
    ASSUME NEW buf, NEW off \in Nat, NEW width \in Nat, NEW s, NEW at \in Nat,
           {at, at + 1} \subseteq DOMAIN buf,
           at + 1 < off \/ off + width <= at
    PROVE  U16(WriteField(buf, off, width, s), at) = U16(buf, at)
<1>1. at \notin off .. off + width - 1 /\ at + 1 \notin off .. off + width - 1 OBVIOUS
<1> QED BY <1>1, WriteFieldBytes DEF U16

\* Bytes of a page stay bytes.
LEMMA WriteFieldTyped ==
    ASSUME NEW buf \in [Offsets -> Byte], NEW off \in Nat, NEW width \in Nat,
           NEW s \in Seq(Byte), width <= Len(s)
    PROVE  WriteField(buf, off, width, s) \in [Offsets -> Byte]
<1>1. \A i \in off .. off + width - 1 : s[i - off + 1] \in Byte OBVIOUS
<1> QED BY <1>1 DEF WriteField

LEMMA LE16Typed == \A n \in Nat : LE16(n) \in Seq(Byte) /\ Len(LE16(n)) = 2
BY DEF LE16, Byte

-----------------------------------------------------------------------------
(* insert. *)

LEMMA WriteU16Bytes ==
    ASSUME NEW buf, DOMAIN buf = Offsets, NEW off \in Nat, NEW n,
           off \in Offsets, off + 1 \in Offsets,
           NEW new, new = WriteU16(buf, off, n)
    PROVE  /\ DOMAIN new = Offsets
           /\ \A i \in Offsets : i # off /\ i # off + 1 => new[i] = buf[i]
           /\ new[off] = LE16(n)[1]
           /\ new[off + 1] = LE16(n)[2]
<1>1. off .. off + 2 - 1 = {off, off + 1} OBVIOUS
<1>2. off - off + 1 = 1 /\ off + 1 - off + 1 = 2 OBVIOUS
<1>3. /\ DOMAIN new = DOMAIN buf
      /\ \A i \in DOMAIN buf :
            new[i] = IF i \in off .. off + 2 - 1 THEN LE16(n)[i - off + 1] ELSE buf[i]
    BY WriteFieldBytes, 2 \in Nat DEF WriteU16
<1>4. \A i \in Offsets :
            new[i] = IF i \in {off, off + 1} THEN LE16(n)[i - off + 1] ELSE buf[i]
    BY <1>1, <1>3
<1>5. new[off] = LE16(n)[1] BY <1>2, <1>4
<1>6. new[off + 1] = LE16(n)[2] BY <1>2, <1>4
<1> QED BY <1>3, <1>4, <1>5, <1>6

\* A page `new' that differs from `buf' by the number n in the bytes at and after
IsField(new, buf, at, after, n) ==
    /\ DOMAIN new = Offsets
    /\ new[at] = LE16(n)[1] /\ new[after] = LE16(n)[2]
    /\ \A i \in Offsets : i # at /\ i # after => new[i] = buf[i]

LEMMA FieldWritten ==
    ASSUME NEW buf, DOMAIN buf = Offsets, NEW at \in Offsets, NEW after \in Offsets,
           at + 1 = after, NEW n, NEW new, new = WriteU16(buf, at, n)
    PROVE  IsField(new, buf, at, after, n)
<1>1. at \in Nat BY OffsetsAre
<1>2. at + 1 \in Offsets OBVIOUS
<1>3. /\ DOMAIN new = Offsets
      /\ \A i \in Offsets : i # at /\ i # at + 1 => new[i] = buf[i]
      /\ new[at] = LE16(n)[1]
      /\ new[at + 1] = LE16(n)[2]
    BY <1>1, <1>2, WriteU16Bytes
<1> QED BY <1>3 DEF IsField

\* An insert, by where it writes what
Written(buf, t, off, dir, n, low) ==
    WriteU16(WriteU16(WriteU16(WriteU16(WriteU16(
        WriteField(buf, off, Len(t), t), dir, off), dir + 2, Len(t)), 20, low), 22, dir), 18, n)

\* What it leaves in the page
IsWritten(new, buf, t, off, dir, n, low) ==
    /\ DOMAIN new = Offsets
    /\ new[18] = LE16(n)[1] /\ new[19] = LE16(n)[2]
    /\ new[20] = LE16(low)[1] /\ new[21] = LE16(low)[2]
    /\ new[22] = LE16(dir)[1] /\ new[23] = LE16(dir)[2]
    /\ new[dir] = LE16(off)[1] /\ new[dir + 1] = LE16(off)[2]
    /\ new[dir + 2] = LE16(Len(t))[1] /\ new[dir + 3] = LE16(Len(t))[2]
    /\ \A i \in off .. off + Len(t) - 1 : new[i] = t[i - off + 1]
    /\ \A i \in Offsets : (i < 18 \/ i \in 24 .. off - 1 \/ i >= dir + 4) => new[i] = buf[i]

\* The steps of an insert, one after the other
LEMMA InsertSteps ==
    ASSUME NEW buf, DOMAIN buf = Offsets, NEW t \in Seq(Byte),
           NEW off \in Nat, NEW dir \in Nat, NEW n \in Nat, NEW low \in Nat,
           64 <= off, off + Len(t) <= dir, dir + 4 <= PAGE_SIZE
    PROVE  IsWritten(Written(buf, t, off, dir, n, low), buf, t, off, dir, n, low)
<1> PICK new : new = Written(buf, t, off, dir, n, low) OBVIOUS
<1> SUFFICES IsWritten(new, buf, t, off, dir, n, low) OBVIOUS
<1>0. PICK stored, first, listed, raised, moved :
        /\ stored = WriteField(buf, off, Len(t), t)
        /\ first  = WriteU16(stored, dir, off)
        /\ listed = WriteU16(first, dir + 2, Len(t))
        /\ raised = WriteU16(listed, 20, low)
        /\ moved  = WriteU16(raised, 22, dir)
        /\ new    = WriteU16(moved, 18, n)
    BY DEF Written
<1>1. /\ dir \in Offsets /\ dir + 1 \in Offsets /\ dir + 2 \in Offsets /\ dir + 3 \in Offsets
      /\ 18 \in Offsets /\ 19 \in Offsets /\ 20 \in Offsets /\ 21 \in Offsets
      /\ 22 \in Offsets /\ 23 \in Offsets
    <2>1. dir \in Nat /\ dir + 1 \in Nat /\ dir + 2 \in Nat /\ dir + 3 \in Nat OBVIOUS
    <2>2. /\ dir < PAGE_SIZE /\ dir + 1 < PAGE_SIZE /\ dir + 2 < PAGE_SIZE
          /\ dir + 3 < PAGE_SIZE
        BY PageSizeFacts
    <2> QED BY <2>1, <2>2, OffsetsAre, HeaderOffsets
<1>a. Len(t) \in Nat /\ dir + 2 \in Nat /\ dir + 2 + 1 = dir + 3
    OBVIOUS
<1>b. 18 + 1 = 19 /\ 20 + 1 = 21 /\ 22 + 1 = 23 /\ 18 \in Nat /\ 20 \in Nat /\ 22 \in Nat
    OBVIOUS
<1>c. \A i \in Offsets : i \in Nat BY OffsetsAre
<1>2. /\ DOMAIN stored = Offsets
      /\ \A i \in off .. off + Len(t) - 1 : stored[i] = t[i - off + 1]
      /\ \A i \in Offsets : i < off \/ i >= off + Len(t) => stored[i] = buf[i]
    <2>1. \A i \in off .. off + Len(t) - 1 : i \in Nat /\ i < PAGE_SIZE
        BY <1>a, PageSizeFacts
    <2>2. \A i \in Offsets : stored[i] = IF i \in off .. off + Len(t) - 1
                                         THEN t[i - off + 1] ELSE buf[i]
        BY <1>0, <1>a, WriteFieldBytes
    <2>3. \A i \in Offsets : i < off \/ i >= off + Len(t) => i \notin off .. off + Len(t) - 1
        BY <1>a, <1>c
    <2>4. DOMAIN stored = Offsets BY <1>0, <1>a, WriteFieldBytes
    <2> QED BY <2>1, <2>2, <2>3, <2>4, OffsetsAre
<1>f. IsField(first, stored, dir, dir + 1, off)
    BY <1>0, <1>1, <1>2, FieldWritten
<1>3. /\ DOMAIN first = Offsets /\ first[dir] = LE16(off)[1] /\ first[dir + 1] = LE16(off)[2]
      /\ \A i \in Offsets : i # dir /\ i # dir + 1 => first[i] = stored[i]
    BY <1>f DEF IsField
<1>g. IsField(listed, first, dir + 2, dir + 3, Len(t))
    BY <1>0, <1>1, <1>a, <1>3, FieldWritten
<1>4. /\ DOMAIN listed = Offsets
      /\ listed[dir + 2] = LE16(Len(t))[1] /\ listed[dir + 3] = LE16(Len(t))[2]
      /\ \A i \in Offsets : i # dir + 2 /\ i # dir + 3 => listed[i] = first[i]
    BY <1>g DEF IsField
<1>h. IsField(raised, listed, 20, 21, low)
    BY <1>0, <1>1, <1>b, <1>4, FieldWritten
<1>5. /\ DOMAIN raised = Offsets /\ raised[20] = LE16(low)[1] /\ raised[21] = LE16(low)[2]
      /\ \A i \in Offsets : i # 20 /\ i # 21 => raised[i] = listed[i]
    BY <1>h DEF IsField
<1>i. IsField(moved, raised, 22, 23, dir)
    BY <1>0, <1>1, <1>b, <1>5, FieldWritten
<1>6. /\ DOMAIN moved = Offsets /\ moved[22] = LE16(dir)[1] /\ moved[23] = LE16(dir)[2]
      /\ \A i \in Offsets : i # 22 /\ i # 23 => moved[i] = raised[i]
    BY <1>i DEF IsField
<1>j. IsField(new, moved, 18, 19, n)
    BY <1>0, <1>1, <1>b, <1>6, FieldWritten
<1>7. /\ DOMAIN new = Offsets /\ new[18] = LE16(n)[1] /\ new[19] = LE16(n)[2]
      /\ \A i \in Offsets : i # 18 /\ i # 19 => new[i] = moved[i]
    BY <1>j DEF IsField
<1>8. \A i \in Offsets : i >= 24 => new[i] = listed[i]
    <2> SUFFICES ASSUME NEW i \in Offsets, i >= 24 PROVE new[i] = listed[i] OBVIOUS
    <2>1. i # 18 /\ i # 19 /\ i # 20 /\ i # 21 /\ i # 22 /\ i # 23 BY <1>c
    <2> QED BY <2>1, <1>5, <1>6, <1>7
<1>9. new[dir] = LE16(off)[1] /\ new[dir + 1] = LE16(off)[2]
    <2>1. /\ dir >= 24 /\ dir + 1 >= 24 /\ dir # dir + 2 /\ dir # dir + 3
          /\ dir + 1 # dir + 2 /\ dir + 1 # dir + 3
        BY <1>a
    <2>2. new[dir] = listed[dir] /\ new[dir + 1] = listed[dir + 1] BY <1>1, <1>8, <2>1
    <2>3. listed[dir] = first[dir] /\ listed[dir + 1] = first[dir + 1] BY <1>1, <1>4, <2>1
    <2> QED BY <2>2, <2>3, <1>3
<1>10. new[dir + 2] = LE16(Len(t))[1] /\ new[dir + 3] = LE16(Len(t))[2]
    <2>1. dir + 2 >= 24 /\ dir + 3 >= 24 BY <1>a
    <2> QED BY <1>1, <2>1, <1>4, <1>8
<1>11. \A i \in off .. off + Len(t) - 1 : new[i] = t[i - off + 1]
    <2> SUFFICES ASSUME NEW i \in off .. off + Len(t) - 1 PROVE new[i] = t[i - off + 1] OBVIOUS
    <2>0. i \in Nat /\ i < PAGE_SIZE BY <1>a, PageSizeFacts
    <2>1. i \in Offsets BY <2>0, OffsetsAre
    <2>2. i >= 24 /\ i # dir /\ i # dir + 1 /\ i # dir + 2 /\ i # dir + 3 BY <1>a
    <2>3. listed[i] = stored[i] BY <2>1, <2>2, <1>3, <1>4
    <2> QED BY <2>1, <2>2, <2>3, <1>2, <1>8
<1>12. \A i \in Offsets : (i < 18 \/ i \in 24 .. off - 1 \/ i >= dir + 4) => new[i] = buf[i]
    <2> SUFFICES ASSUME NEW i \in Offsets, i < 18 \/ i \in 24 .. off - 1 \/ i >= dir + 4
                 PROVE  new[i] = buf[i]
        OBVIOUS
    <2>0. i \in Nat BY <1>c
    <2>1. i < off \/ i >= off + Len(t) BY <2>0, <1>a
    <2>2. i # dir /\ i # dir + 1 /\ i # dir + 2 /\ i # dir + 3 BY <2>0, <1>a
    <2>3. i # 18 /\ i # 19 /\ i # 20 /\ i # 21 /\ i # 22 /\ i # 23 BY <2>0, <1>a
    <2>4. stored[i] = buf[i] BY <1>2, <2>1
    <2>5. listed[i] = stored[i] BY <1>3, <1>4, <2>2
    <2>6. new[i] = listed[i] BY <1>5, <1>6, <1>7, <2>3
    <2> QED BY <2>4, <2>5, <2>6
<1>13. /\ new[20] = LE16(low)[1] /\ new[21] = LE16(low)[2]
       /\ new[22] = LE16(dir)[1] /\ new[23] = LE16(dir)[2]
    BY <1>1, <1>5, <1>6, <1>7
<1> QED BY <1>7, <1>9, <1>10, <1>11, <1>12, <1>13 DEF IsWritten

\* Where an insert writes, and what it leaves alone
IsInserted(new, buf, t) ==
    /\ DOMAIN new = Offsets
    /\ NSlots(new) = NSlots(buf) + 1
    /\ Lower(new) = Lower(buf) + Len(t)
    /\ Upper(new) = Upper(buf) - 4
    /\ U16(new, Upper(buf) - 4) = Lower(buf)
    /\ U16(new, Upper(buf) - 4 + 2) = Len(t)
    /\ \A i \in Lower(buf) .. Lower(buf) + Len(t) - 1 : new[i] = t[i - Lower(buf) + 1]
    /\ \A i \in Offsets :
          (i < 18 \/ i \in 24 .. Lower(buf) - 1 \/ i >= Upper(buf)) => new[i] = buf[i]

LEMMA InsertBytes ==
    ASSUME NEW buf, DOMAIN buf = Offsets, NEW t \in Seq(Byte),
           NSlots(buf) \in Nat, NSlots(buf) + 1 < 65536,
           Lower(buf) \in Nat, Upper(buf) \in Nat,
           PAGE_HEADER_SIZE <= Lower(buf), Upper(buf) <= PAGE_SIZE, Fits(buf, t)
    PROVE  IsInserted(Insert(buf, t), buf, t)
<1> PICK new : new = Insert(buf, t) OBVIOUS
<1>1. PICK off \in Nat, top \in Nat, slots \in Nat, len \in Nat :
        off = Lower(buf) /\ top = Upper(buf) /\ slots = NSlots(buf) /\ len = Len(t)
    OBVIOUS
<1>2. PICK dir \in Int : dir = top - 4 OBVIOUS
<1>3. off + len <= dir /\ top <= PAGE_SIZE /\ off >= 64
    <2>1. top - off - 4 >= len BY <1>1 DEF Fits, FreeSpace
    <2>2. top <= PAGE_SIZE /\ off >= 64 BY <1>1 DEF PAGE_HEADER_SIZE
    <2> QED BY <2>1, <2>2, <1>2
<1>4. /\ dir \in Nat /\ dir + 4 <= PAGE_SIZE /\ dir + 4 = top
      /\ off + len \in Nat /\ slots + 1 \in Nat
    BY <1>2, <1>3
<1>5. /\ off < 65536 /\ dir < 65536 /\ len < 65536 /\ off + len < 65536
      /\ slots + 1 < 65536
    <2>1. off <= PAGE_SIZE /\ len <= PAGE_SIZE /\ dir <= PAGE_SIZE /\ off + len <= PAGE_SIZE
        BY <1>3, <1>4, PageSizeFacts
    <2>2. \A k \in Nat : k <= PAGE_SIZE => k < 65536 BY PageSizeFacts
    <2>3. slots + 1 < 65536 BY <1>1
    <2> QED BY <2>1, <2>2, <2>3, <1>4
<1>6. new = Written(buf, t, off, dir, slots + 1, off + len)
    BY <1>1, <1>2 DEF Insert, Written
<1>7. /\ DOMAIN new = Offsets
      /\ new[18] = LE16(slots + 1)[1] /\ new[19] = LE16(slots + 1)[2]
      /\ new[20] = LE16(off + len)[1] /\ new[21] = LE16(off + len)[2]
      /\ new[22] = LE16(dir)[1] /\ new[23] = LE16(dir)[2]
      /\ new[dir] = LE16(off)[1] /\ new[dir + 1] = LE16(off)[2]
      /\ new[dir + 2] = LE16(len)[1] /\ new[dir + 3] = LE16(len)[2]
      /\ \A i \in off .. off + len - 1 : new[i] = t[i - off + 1]
      /\ \A i \in Offsets : (i < 18 \/ i \in 24 .. off - 1 \/ i >= dir + 4) => new[i] = buf[i]
    <2>1. off + Len(t) <= dir /\ 64 <= off BY <1>1, <1>3
    <2>2. PICK n \in Nat, low \in Nat : n = slots + 1 /\ low = off + len BY <1>4
    <2>3. new = Written(buf, t, off, dir, n, low) BY <1>6, <2>2
    <2>4. IsWritten(Written(buf, t, off, dir, n, low), buf, t, off, dir, n, low)
        BY <1>4, <2>1, InsertSteps
    <2>5. IsWritten(new, buf, t, off, dir, slots + 1, off + len) BY <2>2, <2>3, <2>4
    <2> QED BY <1>1, <2>5 DEF IsWritten
<1>8. NSlots(new) = slots + 1
    <2>1. NSlots(new) = new[18] + (256 * new[19]) BY 18 + 1 = 19 DEF NSlots, U16
    <2>2. LE16(slots + 1)[1] + (256 * LE16(slots + 1)[2]) = slots + 1 BY <1>4, <1>5, LE16Value
    <2> QED BY <2>1, <2>2, <1>7
<1>9. Lower(new) = off + len
    <2>1. Lower(new) = new[20] + (256 * new[21]) BY 20 + 1 = 21 DEF Lower, U16
    <2>2. LE16(off + len)[1] + (256 * LE16(off + len)[2]) = off + len BY <1>4, <1>5, LE16Value
    <2> QED BY <2>1, <2>2, <1>7
<1>10. Upper(new) = dir
    <2>1. Upper(new) = new[22] + (256 * new[23]) BY 22 + 1 = 23 DEF Upper, U16
    <2>2. LE16(dir)[1] + (256 * LE16(dir)[2]) = dir BY <1>4, <1>5, LE16Value
    <2> QED BY <2>1, <2>2, <1>7
<1>11. U16(new, dir) = off
    <2>1. U16(new, dir) = new[dir] + (256 * new[dir + 1]) BY DEF U16
    <2>2. LE16(off)[1] + (256 * LE16(off)[2]) = off BY <1>5, LE16Value
    <2> QED BY <2>1, <2>2, <1>7
<1>12. U16(new, dir + 2) = len
    <2>1. PICK at \in Nat : at = dir + 2 BY <1>4
    <2>2. at + 1 = dir + 3 BY <1>4, <2>1
    <2>3. new[at] = LE16(len)[1] /\ new[at + 1] = LE16(len)[2] BY <1>7, <2>1, <2>2
    <2>4. U16(new, at) = new[at] + (256 * new[at + 1]) BY DEF U16
    <2>5. LE16(len)[1] + (256 * LE16(len)[2]) = len BY <1>5, LE16Value
    <2> QED BY <2>1, <2>3, <2>4, <2>5
<1>13. \A i \in Offsets : (i < 18 \/ i \in 24 .. off - 1 \/ i >= top) => new[i] = buf[i]
    BY <1>4, <1>7, SMTT(30)
<1> QED BY <1>1, <1>2, <1>7, <1>8, <1>9, <1>10, <1>11, <1>12, <1>13 DEF IsInserted

-----------------------------------------------------------------------------
(* The layout. *)

\* The bytes between the header and `low' and those from `top' on are the same.
SameAround(new, buf, low, top) ==
    \A i \in Offsets : (i \in 64 .. low - 1 \/ i >= top) => new[i] = buf[i]

\* What lies in bytes that do not change does not change.
LEMMA SlotKept ==
    ASSUME NEW buf, NEW new, NEW low \in Nat, NEW top \in Nat, NEW slot \in Nat,
           low >= 64, top >= 64,
           SameAround(new, buf, low, top), Dir(slot) >= top
    PROVE  /\ SlotOff(new, slot) = SlotOff(buf, slot)
           /\ SlotLen(new, slot) = SlotLen(buf, slot)
           /\ SlotOff(buf, slot) \in 64 .. low /\ SlotLen(buf, slot) \in Nat
              /\ SlotOff(buf, slot) + SlotLen(buf, slot) <= low /\ low <= PAGE_SIZE
              => GetTuple(new, slot) = GetTuple(buf, slot)
<1>1. PICK dir \in Int : dir = Dir(slot) BY PageSizeFacts DEF Dir
<1>2. /\ dir >= top /\ dir \in Nat /\ dir + 1 \in Nat /\ dir + 2 \in Nat /\ dir + 3 \in Nat
      /\ dir + 2 + 1 = dir + 3
    BY <1>1
<1>3. dir + 4 <= PAGE_SIZE BY <1>1, PageSizeFacts DEF Dir
<1>4. dir \in Offsets /\ dir + 1 \in Offsets /\ dir + 2 \in Offsets /\ dir + 3 \in Offsets
    <2>1. dir < PAGE_SIZE /\ dir + 1 < PAGE_SIZE /\ dir + 2 < PAGE_SIZE /\ dir + 3 < PAGE_SIZE
        BY <1>2, <1>3, PageSizeFacts
    <2> QED BY <1>2, <2>1, OffsetsAre
<1>5. /\ new[dir] = buf[dir] /\ new[dir + 1] = buf[dir + 1]
      /\ new[dir + 2] = buf[dir + 2] /\ new[dir + 3] = buf[dir + 3]
    <2>1. dir + 1 >= top /\ dir + 2 >= top /\ dir + 3 >= top BY <1>2
    <2> QED BY <1>2, <1>4, <2>1 DEF SameAround
<1>6. SlotOff(new, slot) = SlotOff(buf, slot)
    BY <1>1, <1>5 DEF SlotOff, U16
<1>7. SlotLen(new, slot) = SlotLen(buf, slot)
    <2>1. SlotLen(new, slot) = new[dir + 2] + (256 * new[dir + 3])
        BY <1>1, <1>2 DEF SlotLen, U16
    <2>2. SlotLen(buf, slot) = buf[dir + 2] + (256 * buf[dir + 3])
        BY <1>1, <1>2 DEF SlotLen, U16
    <2> QED BY <2>1, <2>2, <1>5
<1>8. ASSUME SlotOff(buf, slot) \in 64 .. low, SlotLen(buf, slot) \in Nat,
             SlotOff(buf, slot) + SlotLen(buf, slot) <= low, low <= PAGE_SIZE
      PROVE  GetTuple(new, slot) = GetTuple(buf, slot)
    <2>1. PICK off \in Nat, len \in Nat :
            off = SlotOff(buf, slot) /\ len = SlotLen(buf, slot)
        BY <1>8
    <2>2. \A k \in 1 .. len : new[off + k - 1] = buf[off + k - 1]
        <3> TAKE k \in 1 .. len
        <3>1. off >= 64 /\ off + len <= low BY <1>8, <2>1
        <3>2. off + k - 1 \in 64 .. low - 1 /\ off + k - 1 \in Nat BY <3>1
        <3>3. off + k - 1 \in Offsets BY <3>2, <1>8, OffsetsAre, PageSizeFacts
        <3> QED BY <3>2, <3>3 DEF SameAround
    <2>3. ReadField(new, off, len) = ReadField(buf, off, len) BY <2>2 DEF ReadField
    <2> QED BY <2>1, <2>3, <1>6, <1>7 DEF GetTuple
<1> QED BY <1>6, <1>7, <1>8

\* The first slots of a directory lie behind `upper'.
LEMMA DirInside ==
    ASSUME NEW n \in Nat, NEW k \in 1 .. n
    PROVE  Dir(k - 1) >= PAGE_SIZE - (4 * n) /\ k - 1 \in Nat
BY PageSizeFacts DEF Dir

LEMMA LayoutBounds ==
    ASSUME NEW buf, NEW tuples \in Seq(Seq(Byte)), Layout(buf, tuples)
    PROVE  /\ Lower(buf) \in Nat /\ Upper(buf) \in Nat /\ NSlots(buf) \in Nat
           /\ 64 <= Lower(buf) /\ Lower(buf) <= Upper(buf) /\ Lower(buf) <= PAGE_SIZE
           /\ NSlots(buf) = Len(tuples) /\ Upper(buf) = PAGE_SIZE - (4 * Len(tuples))
           /\ 4 * Len(tuples) <= PAGE_SIZE /\ Upper(buf) <= PAGE_SIZE
<1>1. PICK n \in Nat : n = Len(tuples) OBVIOUS
<1>2. PICK top \in Int : top = Upper(buf) /\ top = PAGE_SIZE - (4 * n)
    BY <1>1, PageSizeFacts DEF Layout
<1>3. PICK low \in 64 .. top : low = Lower(buf) BY <1>2 DEF Layout, PAGE_HEADER_SIZE
<1>4. NSlots(buf) = n BY <1>1 DEF Layout
<1>5. low <= top /\ top <= PAGE_SIZE /\ 64 <= low /\ low \in Nat /\ top \in Nat
    BY <1>2, <1>3, PageSizeFacts
<1> QED BY <1>1, <1>2, <1>3, <1>4, <1>5, PageSizeFacts

\* A page keeps its layout when neither the six bytes of its directory's size nor
\* anything behind the header change: setters of the header cannot damage a tuple.
LEMMA LayoutKept ==
    ASSUME NEW buf, NEW tuples \in Seq(Seq(Byte)), Layout(buf, tuples),
           NEW new, DOMAIN new = Offsets,
           \A i \in Offsets : (i \in 18 .. 23 \/ i >= 64) => new[i] = buf[i]
    PROVE  Layout(new, tuples)
<1>1. PICK n \in Nat : n = Len(tuples) OBVIOUS
<1>2. NSlots(new) = NSlots(buf) /\ Lower(new) = Lower(buf) /\ Upper(new) = Upper(buf)
    <2>2. /\ new[18] = buf[18] /\ new[19] = buf[19] /\ new[20] = buf[20]
          /\ new[21] = buf[21] /\ new[22] = buf[22] /\ new[23] = buf[23]
        BY HeaderOffsets
    <2>3. 18 + 1 = 19 /\ 20 + 1 = 21 /\ 22 + 1 = 23 OBVIOUS
    <2> QED BY <2>2, <2>3 DEF NSlots, Lower, Upper, U16
<1>3. PICK low \in Nat, top \in Nat :
        low = Lower(buf) /\ top = Upper(buf) /\ 64 <= low /\ low <= top
        /\ top = PAGE_SIZE - (4 * n) /\ low <= PAGE_SIZE
    BY <1>1, LayoutBounds
<1>4. ASSUME NEW k \in 1 .. n
      PROVE  /\ SlotOff(new, k - 1) = SlotOff(buf, k - 1)
             /\ SlotLen(new, k - 1) = SlotLen(buf, k - 1)
             /\ HoldsTuple(new, k - 1, tuples[k])
    <2>1. HoldsTuple(buf, k - 1, tuples[k]) /\ tuples[k] \in Seq(Byte) BY <1>1 DEF Layout
    <2>2. Dir(k - 1) >= top /\ k - 1 \in Nat BY <1>3, DirInside
    <2>3. SameAround(new, buf, low, top) BY <1>3, OffsetsAre DEF SameAround
    <2>4. top >= 64 BY <1>3
    <2>5. /\ SlotOff(buf, k - 1) \in 64 .. low /\ SlotLen(buf, k - 1) \in Nat
          /\ SlotOff(buf, k - 1) + SlotLen(buf, k - 1) <= low
        BY <1>3, <2>1 DEF HoldsTuple, PAGE_HEADER_SIZE
    <2>6. /\ SlotOff(new, k - 1) = SlotOff(buf, k - 1)
          /\ SlotLen(new, k - 1) = SlotLen(buf, k - 1)
          /\ GetTuple(new, k - 1) = GetTuple(buf, k - 1)
        BY <1>3, <2>2, <2>3, <2>4, <2>5, SlotKept
    <2> QED BY <1>2, <2>1, <2>6 DEF HoldsTuple
<1>5. \A k \in 0 .. n : End(new, k) = End(buf, k)
    <2> TAKE k \in 0 .. n
    <2>1. CASE k = 0 BY <2>1 DEF End
    <2>2. CASE k # 0
        <3>1. k \in 1 .. n BY <2>2
        <3> QED BY <2>2, <3>1, <1>4 DEF End
    <2> QED BY <2>1, <2>2
<1>6. \A k \in 1 .. n : SlotOff(new, k - 1) = End(new, k - 1)
    <2> TAKE k \in 1 .. n
    <2>1. k - 1 \in 0 .. n OBVIOUS
    <2> QED BY <1>1, <1>4, <1>5, <2>1 DEF Layout
<1>7. Lower(new) = End(new, n) BY <1>1, <1>2, <1>5, n \in 0 .. n DEF Layout
<1> QED BY <1>1, <1>2, <1>4, <1>6, <1>7 DEF Layout

\* The page that alloc starts from holds no tuples.
THEOREM EmptyHasLayout == Layout(Empty, <<>>)
<1> DEFINE blank  == [i \in Offsets |-> 0]
<1>1. PICK magic : magic = WriteField(blank, 0, 4, PAGE_MAGIC) OBVIOUS
<1>2. PICK low : low = WriteU16(magic, 20, 64) OBVIOUS
<1>3. Empty = WriteU16(low, 22, PAGE_SIZE) BY <1>1, <1>2 DEF Empty, PAGE_HEADER_SIZE
<1>4. DOMAIN magic = Offsets /\ \A i \in Offsets : i >= 4 => magic[i] = 0
    <2>1. \A i \in Offsets : i >= 4 => i \notin 0 .. 0 + 4 - 1 BY OffsetsAre
    <2> QED BY <1>1, <2>1, WriteFieldBytes
<1>5. /\ DOMAIN low = Offsets /\ low[20] = LE16(64)[1] /\ low[21] = LE16(64)[2]
      /\ \A i \in Offsets : i # 20 /\ i # 21 => low[i] = magic[i]
    BY <1>2, <1>4, HeaderOffsets, WriteU16Bytes, 20 + 1 = 21, 20 \in Nat
<1>6. /\ DOMAIN Empty = Offsets
      /\ Empty[22] = LE16(PAGE_SIZE)[1] /\ Empty[23] = LE16(PAGE_SIZE)[2]
      /\ \A i \in Offsets : i # 22 /\ i # 23 => Empty[i] = low[i]
    BY <1>3, <1>5, HeaderOffsets, WriteU16Bytes, 22 + 1 = 23, 22 \in Nat
<1>7. NSlots(Empty) = 0
    <2>1. Empty[18] = 0 /\ Empty[19] = 0 BY <1>4, <1>5, <1>6, HeaderOffsets
    <2> QED BY <2>1, 18 + 1 = 19 DEF NSlots, U16
<1>8. Lower(Empty) = 64
    <2>1. Empty[20] = LE16(64)[1] /\ Empty[21] = LE16(64)[2] BY <1>5, <1>6, HeaderOffsets
    <2>2. LE16(64)[1] + (256 * LE16(64)[2]) = 64 BY LE16Value
    <2> QED BY <2>1, <2>2, 20 + 1 = 21 DEF Lower, U16
<1>9. Upper(Empty) = PAGE_SIZE
    <2>1. LE16(PAGE_SIZE)[1] + (256 * LE16(PAGE_SIZE)[2]) = PAGE_SIZE
        BY LE16Value, PageSizeFacts
    <2> QED BY <1>6, <2>1, 22 + 1 = 23 DEF Upper, U16
<1>10. Len(<<>>) = 0 /\ PAGE_SIZE - (4 * 0) = PAGE_SIZE /\ 64 \in 64 .. PAGE_SIZE
    BY PageSizeFacts
<1> QED BY <1>6, <1>7, <1>8, <1>9, <1>10 DEF Layout, PAGE_HEADER_SIZE, End

\* insert appends a tuple: every earlier slot still reads what it did, the new one
\* reads the tuple, and the two regions of the page do not meet.
THEOREM InsertKeepsLayout ==
    ASSUME NEW buf, NEW tuples \in Seq(Seq(Byte)), Layout(buf, tuples),
           NEW t \in Seq(Byte), Fits(buf, t)
    PROVE  Layout(Insert(buf, t), Append(tuples, t))
<1>a. PICK new : new = Insert(buf, t) OBVIOUS
<1>b. PICK all : all = Append(tuples, t) OBVIOUS
<1>c. PICK n \in Nat, len \in Nat : n = Len(tuples) /\ len = Len(t) OBVIOUS
<1>1. new = Insert(buf, t) /\ all = Append(tuples, t) /\ n = Len(tuples) /\ len = Len(t)
    BY <1>a, <1>b, <1>c
<1>2. PICK low \in Nat, top \in Nat : low = Lower(buf) /\ top = Upper(buf) BY LayoutBounds
<1>3. /\ 64 <= low /\ low <= top /\ low <= PAGE_SIZE /\ top <= PAGE_SIZE
      /\ top = PAGE_SIZE - (4 * n) /\ NSlots(buf) = n /\ 4 * n <= PAGE_SIZE
    BY <1>1, <1>2, LayoutBounds
<1>4. low + len <= top - 4
    <2>1. top - low - 4 >= len BY <1>1, <1>2 DEF Fits, FreeSpace
    <2> QED BY <2>1
<1>5. n + 1 < 65536 BY <1>3, PageSizeFacts
<1>6. /\ DOMAIN new = Offsets
      /\ NSlots(new) = n + 1 /\ Lower(new) = low + len /\ Upper(new) = top - 4
      /\ U16(new, top - 4) = low /\ U16(new, top - 4 + 2) = len
      /\ \A i \in low .. low + len - 1 : new[i] = t[i - low + 1]
      /\ \A i \in Offsets : (i < 18 \/ i \in 24 .. low - 1 \/ i >= top) => new[i] = buf[i]
    <2>1. DOMAIN buf = Offsets BY DEF Layout
    <2>2. IsInserted(Insert(buf, t), buf, t)
        <3>1. PAGE_HEADER_SIZE <= Lower(buf) BY <1>2, <1>3 DEF PAGE_HEADER_SIZE
        <3>2. NSlots(buf) \in Nat /\ NSlots(buf) + 1 < 65536 BY <1>3, <1>5
        <3>3. Lower(buf) \in Nat /\ Upper(buf) \in Nat /\ Upper(buf) <= PAGE_SIZE BY <1>2, <1>3
        <3> QED BY <2>1, <3>1, <3>2, <3>3, InsertBytes
    <2> QED BY <2>2, <1>1, <1>2, <1>3 DEF IsInserted
<1>7. /\ Len(all) = n + 1 /\ all[n + 1] = t
      /\ \A k \in 1 .. n : all[k] = tuples[k] /\ tuples[k] \in Seq(Byte)
    BY <1>1
<1>8. ASSUME NEW k \in 1 .. n
      PROVE  /\ SlotOff(new, k - 1) = SlotOff(buf, k - 1)
             /\ SlotLen(new, k - 1) = SlotLen(buf, k - 1)
             /\ HoldsTuple(new, k - 1, all[k])
    <2>1. HoldsTuple(buf, k - 1, tuples[k]) BY <1>1 DEF Layout
    <2>2. Dir(k - 1) >= top /\ k - 1 \in Nat BY <1>3, DirInside
    <2>3. SameAround(new, buf, low, top) BY <1>6, OffsetsAre DEF SameAround
    <2>4. top >= 64 BY <1>3
    <2>5. /\ SlotOff(buf, k - 1) \in 64 .. low /\ SlotLen(buf, k - 1) \in Nat
          /\ SlotOff(buf, k - 1) + SlotLen(buf, k - 1) <= low
        BY <1>2, <1>7, <2>1, SMTT(30) DEF HoldsTuple, PAGE_HEADER_SIZE
    <2>6. /\ SlotOff(new, k - 1) = SlotOff(buf, k - 1)
          /\ SlotLen(new, k - 1) = SlotLen(buf, k - 1)
          /\ GetTuple(new, k - 1) = GetTuple(buf, k - 1)
        BY <1>3, <2>2, <2>3, <2>4, <2>5, SlotKept
    <2>7. /\ SlotOff(new, k - 1) \in 64 .. low + len
          /\ SlotOff(new, k - 1) + SlotLen(new, k - 1) <= low + len
        BY <2>5, <2>6
    <2> QED BY <1>6, <1>7, <2>1, <2>6, <2>7 DEF HoldsTuple, PAGE_HEADER_SIZE
<1>9. SlotOff(new, n) = low /\ SlotLen(new, n) = len
    <2>1. Dir(n) = top - 4 /\ Dir(n) + 2 = top - 4 + 2 BY <1>3, PageSizeFacts DEF Dir
    <2> QED BY <2>1, <1>6 DEF SlotOff, SlotLen
<1>10. HoldsTuple(new, n, t)
    <2>1. \A k \in 1 .. len : new[low + k - 1] = t[k]
        <3> TAKE k \in 1 .. len
        <3>1. PICK i \in low .. low + len - 1 : i = low + k - 1 OBVIOUS
        <3>2. i - low + 1 = k BY <3>1
        <3>3. new[i] = t[i - low + 1] BY <1>6
        <3> QED BY <3>1, <3>2, <3>3
    <2>2. ReadField(new, low, len) = t
        <3>1. t = [k \in 1 .. len |-> t[k]] BY <1>1
        <3> QED BY <2>1, <3>1 DEF ReadField
    <2>3. low \in 64 .. low + len BY <1>3
    <2> QED BY <1>1, <1>6, <1>9, <2>2, <2>3 DEF HoldsTuple, GetTuple, PAGE_HEADER_SIZE
<1>11. \A k \in 0 .. n : End(new, k) = End(buf, k)
    <2> TAKE k \in 0 .. n
    <2>1. CASE k = 0 BY <2>1 DEF End
    <2>2. CASE k # 0
        <3>1. k \in 1 .. n BY <2>2
        <3> QED BY <2>2, <3>1, <1>8 DEF End
    <2> QED BY <2>1, <2>2
<1>12. End(buf, n) = low BY <1>1, <1>2 DEF Layout
<1>13. ASSUME NEW k \in 1 .. n + 1
       PROVE  SlotOff(new, k - 1) = End(new, k - 1) /\ HoldsTuple(new, k - 1, all[k])
    <2>1. CASE k \in 1 .. n
        <3>1. k - 1 \in 0 .. n BY <2>1
        <3>2. SlotOff(buf, k - 1) = End(buf, k - 1) BY <1>1, <2>1 DEF Layout
        <3> QED BY <2>1, <3>1, <3>2, <1>8, <1>11
    <2>2. CASE k = n + 1
        <3>1. k - 1 = n /\ n \in 0 .. n BY <2>2
        <3> QED BY <2>2, <3>1, <1>7, <1>9, <1>10, <1>11, <1>12
    <2> QED BY <2>1, <2>2
<1>14. Lower(new) = End(new, n + 1)
    <2>1. n + 1 # 0 /\ n + 1 - 1 = n OBVIOUS
    <2> QED BY <2>1, <1>6, <1>9 DEF End
<1>15. /\ Upper(new) = PAGE_SIZE - (4 * (n + 1))
       /\ Lower(new) \in 64 .. Upper(new)
    BY <1>3, <1>4, <1>6, PageSizeFacts
<1> QED BY <1>1, <1>6, <1>7, <1>13, <1>14, <1>15 DEF Layout, PAGE_HEADER_SIZE

\* Every slot of a page with the layout is a tuple that get_tuple returns.
THEOREM SlotsReadBack ==
    ASSUME NEW buf, NEW tuples \in Seq(Seq(Byte)), Layout(buf, tuples),
           NEW k \in 1 .. Len(tuples)
    PROVE  HasTuple(buf, k - 1) /\ GetTuple(buf, k - 1) = tuples[k]
<1>1. HoldsTuple(buf, k - 1, tuples[k]) BY DEF Layout
<1>2. NSlots(buf) = Len(tuples) /\ Lower(buf) \in Nat BY LayoutBounds
<1>3. k - 1 < NSlots(buf) BY <1>2
<1>4. SlotOff(buf, k - 1) >= 64 BY <1>1, <1>2 DEF HoldsTuple, PAGE_HEADER_SIZE
<1> QED BY <1>1, <1>3, <1>4 DEF HoldsTuple, HasTuple, PAGE_HEADER_SIZE

LEMMA FrontGrows ==
    ASSUME NEW T, NEW s \in Seq(T), NEW n \in 1 .. Len(s)
    PROVE  SubSeq(s, 1, n) = Append(SubSeq(s, 1, n - 1), s[n])
<1>1. PICK len \in Nat : len = Len(s) OBVIOUS
<1>2. n \in Nat /\ n <= len /\ 1 <= n /\ n - 1 \in Nat /\ (n - 1) + 1 = n BY <1>1
<1> DEFINE a == SubSeq(s, 1, n)
           b == SubSeq(s, 1, n - 1)
           c == Append(b, s[n])
<1>3. a \in Seq(T) /\ Len(a) = n /\ \A k \in 1 .. n : a[k] = s[k] BY <1>1, <1>2
<1>4. b \in Seq(T) /\ Len(b) = n - 1 /\ \A k \in 1 .. n - 1 : b[k] = s[k] BY <1>1, <1>2
<1>5. s[n] \in T BY <1>1, <1>2
<1> HIDE DEF a, b
<1>6. c \in Seq(T) /\ Len(c) = n /\ c[n] = s[n] /\ \A k \in 1 .. n - 1 : c[k] = b[k]
    BY <1>2, <1>4, <1>5
<1> HIDE DEF c
<1>7. \A k \in 1 .. n : a[k] = c[k]
    <2> TAKE k \in 1 .. n
    <2>1. k = n \/ k \in 1 .. n - 1 BY <1>2
    <2> QED BY <2>1, <1>3, <1>4, <1>6
<1>8. a = [k \in 1 .. n |-> a[k]] /\ c = [k \in 1 .. n |-> c[k]] BY ONLY <1>3, <1>6
<1>9. a = c BY ONLY <1>7, <1>8
<1> QED BY <1>9 DEF a, b, c

\* all_tuples returns the tuples of a page, in order.
THEOREM AllTuplesBack ==
    ASSUME NEW buf, NEW tuples \in Seq(Seq(Byte)), Layout(buf, tuples)
    PROVE  AllTuples(buf) = tuples
<1> DEFINE n == NSlots(buf)
           Step(f, i) == IF i = 0 THEN <<>>
                         ELSE IF HasTuple(buf, i - 1) THEN Append(f[i - 1], GetTuple(buf, i - 1))
                         ELSE f[i - 1]
           front == [i \in 0 .. n |-> SubSeq(tuples, 1, i)]
           upto == CHOOSE f : f = [i \in 0 .. n |-> Step(f, i)]
<1>1. n \in Nat /\ n = Len(tuples) BY LayoutBounds
<1>2. AllTuples(buf) = upto[n] BY DEF AllTuples
<1>3. \A i \in 1 .. n : HasTuple(buf, i - 1) /\ GetTuple(buf, i - 1) = tuples[i]
    BY <1>1, SlotsReadBack
<1>4. \A i \in 1 .. n : SubSeq(tuples, 1, i) = Append(SubSeq(tuples, 1, i - 1), tuples[i])
    BY <1>1, FrontGrows
<1>5. SubSeq(tuples, 1, 0) = <<>> OBVIOUS
<1> HIDE DEF n
<1>6. \A i \in 0 .. n : front[i] = Step(front, i)
    <2> TAKE i \in 0 .. n
    <2>1. CASE i = 0 BY <2>1, <1>1, <1>5
    <2>2. CASE i # 0
        <3>1. i \in 1 .. n /\ i - 1 \in 0 .. n BY <2>2, <1>1
        <3>2. front[i] = SubSeq(tuples, 1, i) /\ front[i - 1] = SubSeq(tuples, 1, i - 1) BY <3>1
        <3> HIDE DEF front
        <3> QED BY <2>2, <3>1, <3>2, <1>3, <1>4
    <2> QED BY <2>1, <2>2
<1>7. upto = [i \in 0 .. n |-> Step(upto, i)]
    <2>1. front = [i \in 0 .. n |-> front[i]] OBVIOUS
    <2> HIDE DEF front, Step
    <2>2. front = [i \in 0 .. n |-> Step(front, i)] BY <1>6, <2>1
    <2> QED BY <2>2, Zenon
<1> HIDE DEF upto
<1>8. upto[0] = <<>> /\ \A i \in 1 .. n : upto[i] = Append(upto[i - 1], tuples[i])
    <2>1. \A i \in 0 .. n : upto[i] = Step(upto, i)
        <3> HIDE DEF Step
        <3> QED BY ONLY <1>7
    <2>2. 0 \in 0 .. n BY ONLY <1>1
    <2>3. ASSUME NEW i \in 1 .. n PROVE upto[i] = Append(upto[i - 1], tuples[i])
        <3>1. i \in 0 .. n /\ i # 0 BY ONLY <1>1, i \in 1 .. n
        <3>2. upto[i] = IF HasTuple(buf, i - 1) THEN Append(upto[i - 1], GetTuple(buf, i - 1))
                        ELSE upto[i - 1]
            BY ONLY <2>1, <3>1
        <3> QED BY ONLY <1>3, <3>2, i \in 1 .. n
    <2> QED BY ONLY <2>1, <2>2, <2>3
<1> DEFINE Same == {i \in Nat : i <= n => upto[i] = SubSeq(tuples, 1, i)}
<1>9. 0 \in Same BY ONLY <1>5, <1>8
<1>10. \A i \in Nat : i \in Same => i + 1 \in Same
    <2> SUFFICES ASSUME NEW i \in Nat, i \in Same, i + 1 <= n
                 PROVE  upto[i + 1] = SubSeq(tuples, 1, i + 1)
        OBVIOUS
    <2>1. i + 1 \in 1 .. n /\ i + 1 \in 0 .. n /\ (i + 1) - 1 = i /\ i <= n BY <1>1
    <2>2. upto[i] = SubSeq(tuples, 1, i) BY <2>1
    <2>3. upto[i + 1] = Append(upto[i], tuples[i + 1]) BY ONLY <1>8, <2>1
    <2>4. SubSeq(tuples, 1, i + 1) = Append(SubSeq(tuples, 1, i), tuples[i + 1])
        BY ONLY <1>4, <2>1
    <2> QED BY ONLY <2>2, <2>3, <2>4
<1>11. n \in Same
    <2> HIDE DEF Same
    <2> QED BY <1>1, <1>9, <1>10, NatSetInduction
<1>12. SubSeq(tuples, 1, n) = tuples
    <2> DEFINE a == SubSeq(tuples, 1, n)
    <2>1. Len(a) = n /\ a \in Seq(Seq(Byte)) /\ \A k \in 1 .. n : a[k] = tuples[k] BY <1>1
    <2> HIDE DEF a
    <2>2. a = [k \in 1 .. n |-> a[k]] /\ tuples = [k \in 1 .. n |-> tuples[k]] BY <1>1, <2>1
    <2>3. a = tuples BY ONLY <2>1, <2>2
    <2> QED BY <2>3 DEF a
<1>13. upto[n] = SubSeq(tuples, 1, n) BY ONLY <1>1, <1>11
<1> QED BY ONLY <1>2, <1>12, <1>13

-----------------------------------------------------------------------------
(* codec.rs: strings of bytes one behind the other. *)

LEMMA Quotients ==
    ASSUME NEW n \in Nat
    PROVE  /\ n % 256 \in Byte /\ (n \div 256) % 256 \in Byte
           /\ n % 65536 \in Nat /\ n % 65536 < 65536 /\ n \div 65536 \in Nat
           /\ n = (n % 65536) + (65536 * (n \div 65536))
<1>1. n % 256 \in Byte BY DEF Byte
<1>2. (n \div 256) % 256 \in Byte BY DEF Byte
<1>3. n % 65536 \in Nat /\ n % 65536 < 65536 OBVIOUS
<1>4. n \div 65536 \in Nat OBVIOUS
<1>5. n = (n % 65536) + (65536 * (n \div 65536)) OBVIOUS
<1> QED BY ONLY <1>1, <1>2, <1>3, <1>4, <1>5

LEMMA LE16Facts ==
    ASSUME NEW n \in Nat
    PROVE  /\ LE16(n) \in Seq(Byte) /\ Len(LE16(n)) = 2
           /\ LE16(n)[1] = n % 256 /\ LE16(n)[2] = (n \div 256) % 256
<1>1. PICK low \in Byte, high \in Byte : low = n % 256 /\ high = (n \div 256) % 256
    BY Quotients
<1>2. LE16(n) = <<low, high>> BY ONLY <1>1 DEF LE16
<1>3. <<low, high>> \in Seq(Byte) BY ONLY <1>1
<1> QED BY ONLY <1>1, <1>2, <1>3

LEMMA Concat ==
    ASSUME NEW a \in Seq(Byte), NEW b \in Seq(Byte)
    PROVE  /\ a \o b \in Seq(Byte) /\ Len(a \o b) = Len(a) + Len(b)
           /\ \A k \in 1 .. Len(a) : (a \o b)[k] = a[k]
           /\ \A k \in 1 .. Len(b) : (a \o b)[Len(a) + k] = b[k]
<1>1. a \o b \in Seq(Byte) OBVIOUS
<1>2. Len(a \o b) = Len(a) + Len(b) OBVIOUS
<1>3. \A k \in 1 .. Len(a) : (a \o b)[k] = a[k] OBVIOUS
<1>4. \A k \in 1 .. Len(b) : (a \o b)[Len(a) + k] = b[k] OBVIOUS
<1> QED BY ONLY <1>1, <1>2, <1>3, <1>4

LEMMA TwoNumbers ==
    ASSUME NEW low \in Nat, NEW high \in Nat
    PROVE  /\ LE16(low) \o LE16(high) \in Seq(Byte) /\ Len(LE16(low) \o LE16(high)) = 4
           /\ (LE16(low) \o LE16(high))[1] = LE16(low)[1]
           /\ (LE16(low) \o LE16(high))[2] = LE16(low)[2]
           /\ (LE16(low) \o LE16(high))[3] = LE16(high)[1]
           /\ (LE16(low) \o LE16(high))[4] = LE16(high)[2]
<1>1. PICK s, t : s = LE16(low) /\ t = LE16(high) OBVIOUS
<1>2. s \in Seq(Byte) /\ t \in Seq(Byte) /\ Len(s) = 2 /\ Len(t) = 2
    BY ONLY <1>1, LE16Facts
<1>e. PICK e : e = s \o t OBVIOUS
<1>3. /\ e \in Seq(Byte) /\ Len(e) = Len(s) + Len(t)
      /\ \A k \in 1 .. Len(s) : e[k] = s[k]
      /\ \A k \in 1 .. Len(t) : e[Len(s) + k] = t[k]
    BY <1>e, <1>2, Concat
<1>4. 1 \in 1 .. 2 /\ 2 \in 1 .. 2 /\ 2 + 2 = 4 /\ 2 + 1 = 3 OBVIOUS
<1>5. Len(e) = 4 /\ e[1] = s[1] /\ e[2] = s[2] /\ e[3] = t[1] /\ e[4] = t[2]
    BY ONLY <1>2, <1>3, <1>4
<1> QED BY ONLY <1>1, <1>e, <1>3, <1>5

Halves(n, low, high) ==
    /\ n = low + (65536 * high) /\ low < 65536
    /\ LE32(n) = LE16(low) \o LE16(high)

LEMMA LE32Facts ==
    ASSUME NEW n \in Nat
    PROVE  /\ LE32(n) \in Seq(Byte) /\ Len(LE32(n)) = 4
           /\ \E low, high \in Nat : Halves(n, low, high)
<1>1. LE32(n) = LE16(n % 65536) \o LE16(n \div 65536) BY DEF LE32
<1>2. n % 65536 \in Nat /\ n \div 65536 \in Nat BY Quotients
<1>3. PICK low \in Nat, high \in Nat :
        /\ low = n % 65536 /\ high = n \div 65536 /\ LE32(n) = LE16(low) \o LE16(high)
    BY <1>1, <1>2
<1>4. LE32(n) \in Seq(Byte) /\ Len(LE32(n)) = 4 BY ONLY <1>3, TwoNumbers
<1>5. n = low + (65536 * high) /\ low < 65536 BY <1>3, Quotients
<1>6. Halves(n, low, high) BY <1>3, <1>5 DEF Halves
<1> QED BY ONLY <1>4, <1>6

-----------------------------------------------------------------------------

\* `s' stands in `buf' from offset `o' on.
At(buf, o, s) ==
    /\ o \in Nat /\ o + Len(s) <= Len(buf)
    /\ \A k \in 1 .. Len(s) : buf[o + k] = s[k]

\* `e' is `b' and behind it `c'.
Extends(e, b, c) ==
    /\ e \in Seq(Byte) /\ Len(e) = Len(b) + Len(c) /\ At(e, Len(b), c)
    /\ \A o : \A s \in Seq(Byte) : At(b, o, s) => At(e, o, s)

LEMMA Joined ==
    ASSUME NEW b \in Seq(Byte), NEW c \in Seq(Byte), NEW e, e = b \o c
    PROVE  Extends(e, b, c)
<1>1. PICK m \in Nat, n \in Nat : m = Len(b) /\ n = Len(c) OBVIOUS
<1>2. /\ e \in Seq(Byte) /\ Len(e) = m + n
      /\ \A k \in 1 .. m : e[k] = b[k]
      /\ \A k \in 1 .. n : e[m + k] = c[k]
    BY <1>1
<1>3. At(e, m, c) BY <1>1, <1>2 DEF At
<1>4. ASSUME NEW o, NEW s \in Seq(Byte), At(b, o, s) PROVE At(e, o, s)
    <2>1. PICK len \in Nat : len = Len(s) OBVIOUS
    <2>2. o \in Nat /\ o + len <= m /\ \A k \in 1 .. len : b[o + k] = s[k]
        BY <1>1, <1>4, <2>1 DEF At
    <2>3. \A k \in 1 .. len : o + k \in 1 .. m BY <2>2
    <2>4. \A k \in 1 .. len : e[o + k] = s[k] BY <1>2, <2>2, <2>3
    <2>5. o + len <= Len(e) BY <1>2, <2>2
    <2> QED BY <2>1, <2>2, <2>4, <2>5 DEF At
<1> QED BY <1>1, <1>2, <1>3, <1>4 DEF Extends

LEMMA TakeAt ==
    ASSUME NEW buf \in Seq(Byte), NEW o, NEW s \in Seq(Byte), At(buf, o, s)
    PROVE  Take(buf, o, Len(s)) = s
<1>1. PICK n \in Nat : n = Len(s) OBVIOUS
<1>2. o \in Nat /\ o + n <= Len(buf) /\ \A k \in 1 .. n : buf[o + k] = s[k]
    BY <1>1 DEF At
<1>3. PICK t : t = SubSeq(buf, o + 1, o + n) OBVIOUS
<1>4. t \in Seq(Byte) /\ Len(t) = n BY <1>2, <1>3
<1>5. \A k \in 1 .. n : t[k] = buf[o + k] BY <1>2, <1>3
<1>6. t = s
    <2>1. t = [k \in 1 .. n |-> t[k]] BY ONLY <1>4
    <2>2. s = [k \in 1 .. n |-> s[k]] BY <1>1
    <2> QED BY ONLY <1>2, <1>5, <2>1, <2>2
<1> QED BY <1>1, <1>3, <1>6 DEF Take

LEMMA N16At ==
    ASSUME NEW buf, NEW o, NEW n \in Nat, n < 65536, At(buf, o, LE16(n))
    PROVE  N16(buf, o) = n
<1>1. PICK s : s = LE16(n) OBVIOUS
<1>2. Len(s) = 2 /\ s[1] = n % 256 /\ s[2] = (n \div 256) % 256 BY ONLY <1>1, LE16Facts
<1>3. buf[o + 1] = s[1] /\ buf[o + 2] = s[2] BY <1>1, <1>2 DEF At
<1>4. (n \div 256) % 256 = n \div 256 OBVIOUS
<1>5. (n % 256) + (256 * (n \div 256)) = n OBVIOUS
<1> QED BY ONLY <1>2, <1>3, <1>4, <1>5 DEF N16

LEMMA N32At ==
    ASSUME NEW buf, NEW o, NEW n \in Nat, n < 65536 * 65536, At(buf, o, LE32(n))
    PROVE  N32(buf, o) = n
<1>0. PICK low \in Nat, high \in Nat : Halves(n, low, high) BY LE32Facts
<1>1. /\ n = low + (65536 * high) /\ low < 65536 /\ high < 65536
      /\ LE32(n) = LE16(low) \o LE16(high)
    BY <1>0 DEF Halves
<1>2. PICK s : s = LE32(n) OBVIOUS
<1>3. /\ Len(s) = 4 /\ s[1] = LE16(low)[1] /\ s[2] = LE16(low)[2]
      /\ s[3] = LE16(high)[1] /\ s[4] = LE16(high)[2]
    <2>1. s = LE16(low) \o LE16(high) BY <1>1, <1>2
    <2> QED BY ONLY <2>1, TwoNumbers
<1>4. o \in Nat /\ o + 4 <= Len(buf) /\ \A k \in 1 .. 4 : buf[o + k] = s[k]
    BY <1>2, <1>3 DEF At
<1>5. N16(buf, o) = N16(LE16(low), 0)
    BY ONLY <1>3, <1>4, 0 + 1 = 1, 0 + 2 = 2, 1 \in 1 .. 4, 2 \in 1 .. 4 DEF N16
<1>6. N16(buf, o + 2) = N16(LE16(high), 0)
    <2>1. (o + 2) + 1 = o + 3 /\ (o + 2) + 2 = o + 4 BY <1>4
    <2> QED BY ONLY <1>3, <1>4, <2>1, 0 + 1 = 1, 0 + 2 = 2, 3 \in 1 .. 4, 4 \in 1 .. 4 DEF N16
<1>7. ASSUME NEW m \in Nat, m < 65536 PROVE N16(LE16(m), 0) = m
    <2>1. Len(LE16(m)) = 2 BY LE16Facts
    <2>2. At(LE16(m), 0, LE16(m)) BY <2>1 DEF At
    <2> QED BY <1>7, <2>2, N16At
<1>8. N16(buf, o) = low /\ N16(buf, o + 2) = high BY ONLY <1>1, <1>5, <1>6, <1>7
<1> QED BY ONLY <1>1, <1>8 DEF N32

LEMMA AtStart == \A s \in Seq(Byte) : At(s, 0, s)
BY DEF At

LEMMA LenInNat == \A s \in Seq(Byte) : Len(s) \in Nat
OBVIOUS

\* `e' is four strings one behind the other.
Four(e, s1, s2, s3, s4) ==
    /\ e \in Seq(Byte) /\ Len(e) = Len(s1) + Len(s2) + Len(s3) + Len(s4)
    /\ At(e, 0, s1) /\ At(e, Len(s1), s2) /\ At(e, Len(s1) + Len(s2), s3)
    /\ At(e, Len(s1) + Len(s2) + Len(s3), s4)

LEMMA FourPieces ==
    ASSUME NEW s1 \in Seq(Byte), NEW s2 \in Seq(Byte), NEW s3 \in Seq(Byte), NEW s4 \in Seq(Byte)
    PROVE  Four(s1 \o s2 \o s3 \o s4, s1, s2, s3, s4)
<1> DEFINE b2 == s1 \o s2
           b3 == b2 \o s3
           b4 == b3 \o s4
<1>1. PICK l1 \in Nat, l2 \in Nat, l3 \in Nat, l4 \in Nat :
        l1 = Len(s1) /\ l2 = Len(s2) /\ l3 = Len(s3) /\ l4 = Len(s4)
    <2> HIDE DEF b2, b3, b4
    <2> QED BY LenInNat
<1>2. Extends(b2, s1, s2) BY Joined
<1> HIDE DEF b2
<1>3. b2 \in Seq(Byte) /\ Len(b2) = l1 + l2 BY <1>1, <1>2 DEF Extends
<1>4. Extends(b3, b2, s3) BY <1>3, Joined
<1> HIDE DEF b3
<1>5. b3 \in Seq(Byte) /\ Len(b3) = l1 + l2 + l3 BY <1>1, <1>3, <1>4 DEF Extends
<1>6. Extends(b4, b3, s4) BY <1>5, Joined
<1> HIDE DEF b4
<1>7. At(b2, 0, s1) /\ At(b2, l1, s2) BY <1>1, <1>2, AtStart DEF Extends
<1>8. At(b3, 0, s1) /\ At(b3, l1, s2) /\ At(b3, l1 + l2, s3) BY <1>3, <1>4, <1>7 DEF Extends
<1>9. /\ b4 \in Seq(Byte) /\ Len(b4) = l1 + l2 + l3 + l4
      /\ At(b4, 0, s1) /\ At(b4, l1, s2) /\ At(b4, l1 + l2, s3) /\ At(b4, l1 + l2 + l3, s4)
    BY <1>1, <1>5, <1>6, <1>8 DEF Extends
<1>10. Four(b4, s1, s2, s3, s4) BY <1>1, <1>9 DEF Four
<1> QED BY <1>10 DEF b2, b3, b4

LEMMA AtWithin ==
    ASSUME NEW e \in Seq(Byte), NEW b \in Seq(Byte), NEW s \in Seq(Byte), NEW p,
           At(e, 0, b), At(b, p, s)
    PROVE  At(e, p, s)
<1>1. PICK m \in Nat, n \in Nat : m = Len(b) /\ n = Len(s) OBVIOUS
<1>2. m <= Len(e) /\ \A k \in 1 .. m : e[0 + k] = b[k] BY <1>1 DEF At
<1>3. p \in Nat /\ p + n <= m /\ \A k \in 1 .. n : b[p + k] = s[k] BY <1>1 DEF At
<1>4. \A k \in 1 .. n : p + k \in 1 .. m /\ 0 + (p + k) = p + k BY <1>3
<1>5. \A k \in 1 .. n : e[p + k] = s[k] BY <1>2, <1>3, <1>4
<1> QED BY <1>1, <1>2, <1>3, <1>5 DEF At

\* The lengths that LE16 and LE32 give
LEMMA Widths ==
    \A n \in Nat : /\ LE16(n) \in Seq(Byte) /\ Len(LE16(n)) = 2
                   /\ LE32(n) \in Seq(Byte) /\ Len(LE32(n)) = 4
BY LE16Facts, LE32Facts

-----------------------------------------------------------------------------
(* Rows. *)

LEMMA HotDecodes ==
    ASSUME NEW t \in HotTuple, Len(EncodeHot(t)) < 65536
    PROVE  HotDecodable(EncodeHot(t)) /\ DecodeHot(EncodeHot(t)) = t
<1> DEFINE kl  == Len(t.key)
           vl  == Len(t.value)
           s1  == LE16(kl)
           s4  == LE32(vl)
           b4  == s1 \o t.key \o t.expires \o s4
           buf == b4 \o t.value
<1>1. EncodeHot(t) = buf BY DEF EncodeHot
<1>2. /\ t.key \in Seq(Byte) /\ t.expires \in Seq(Byte) /\ Len(t.expires) = 8
      /\ t.value \in Seq(Byte)
    BY DEF HotTuple, BytesOf
<1>3. kl \in Nat /\ vl \in Nat BY ONLY <1>2, LenInNat
<1>4. s1 \in Seq(Byte) /\ Len(s1) = 2 /\ s4 \in Seq(Byte) /\ Len(s4) = 4
    BY ONLY <1>3, Widths
<1> HIDE DEF s1, s4
<1>5. Four(b4, s1, t.key, t.expires, s4) BY ONLY <1>2, <1>4, FourPieces
<1> HIDE DEF b4
<1>6. Extends(buf, b4, t.value) BY ONLY <1>2, <1>5, Joined DEF Four
<1> HIDE DEF buf
<1>7. /\ b4 \in Seq(Byte) /\ Len(b4) = 14 + kl
      /\ At(b4, 0, s1) /\ At(b4, 2, t.key) /\ At(b4, 2 + kl, t.expires) /\ At(b4, 10 + kl, s4)
    BY ONLY <1>2, <1>3, <1>4, <1>5 DEF Four
<1>8. /\ buf \in Seq(Byte) /\ Len(buf) = 14 + kl + vl
      /\ At(buf, 0, s1) /\ At(buf, 2, t.key) /\ At(buf, 2 + kl, t.expires)
      /\ At(buf, 10 + kl, s4) /\ At(buf, 14 + kl, t.value)
    BY ONLY <1>2, <1>4, <1>6, <1>7 DEF Extends
<1>9. kl < 65536 /\ vl < 65536 /\ vl < 65536 * 65536
    <2> HIDE DEF kl, vl
    <2>1. 14 + kl + vl < 65536 BY ONLY <1>1, <1>8, Len(EncodeHot(t)) < 65536
    <2> QED BY ONLY <1>3, <2>1
<1>10. N16(buf, 0) = kl BY ONLY <1>3, <1>8, <1>9, N16At DEF s1
<1>11. N32(buf, 10 + kl) = vl BY ONLY <1>3, <1>8, <1>9, N32At DEF s4
<1>12. /\ Take(buf, 2, kl) = t.key /\ Take(buf, 2 + kl, 8) = t.expires
       /\ Take(buf, 14 + kl, vl) = t.value
    <2> HIDE DEF buf, b4
    <2>1. Take(buf, 2, Len(t.key)) = t.key BY ONLY <1>2, <1>8, TakeAt
    <2>2. Take(buf, 2 + kl, Len(t.expires)) = t.expires
        <3> HIDE DEF kl, vl
        <3> QED BY ONLY <1>2, <1>8, TakeAt
    <2>3. Take(buf, 14 + kl, Len(t.value)) = t.value
        <3> DEFINE o == 14 + kl
        <3>1. At(buf, o, t.value) BY ONLY <1>8
        <3> HIDE DEF o
        <3>2. Take(buf, o, Len(t.value)) = t.value BY ONLY <1>2, <1>8, <3>1, TakeAt
        <3> QED BY <3>2 DEF o
    <2> QED BY ONLY <1>2, <2>1, <2>2, <2>3
<1> HIDE DEF kl, vl
<1>13. DecodeHot(buf) = t BY <1>10, <1>11, <1>12 DEF DecodeHot, HotTuple
<1>14. HotDecodable(buf) BY ONLY <1>3, <1>8, <1>10, <1>11 DEF HotDecodable
<1> QED BY <1>1, <1>13, <1>14

LEMMA ImpulseDecodes ==
    ASSUME NEW t \in ImpulseTuple, Len(EncodeImpulse(t)) < 65536
    PROVE  ImpulseDecodable(EncodeImpulse(t)) /\ DecodeImpulse(EncodeImpulse(t)) = t
<1> DEFINE il  == Len(t.id)
           kl  == Len(t.what)
           pl  == Len(t.payload)
           s1  == LE16(il)
           s5  == LE16(kl)
           s7  == LE32(pl)
           b4  == s1 \o t.id \o t.chat \o t.at
           b7  == b4 \o s5 \o t.what \o s7
           buf == b7 \o t.payload
<1>1. EncodeImpulse(t) = buf BY DEF EncodeImpulse
<1>2. /\ t.id \in Seq(Byte) /\ t.chat \in Seq(Byte) /\ Len(t.chat) = 8
      /\ t.at \in Seq(Byte) /\ Len(t.at) = 8
      /\ t.what \in Seq(Byte) /\ t.payload \in Seq(Byte)
    BY DEF ImpulseTuple, BytesOf
<1>3. il \in Nat /\ kl \in Nat /\ pl \in Nat BY ONLY <1>2, LenInNat
<1>4. /\ s1 \in Seq(Byte) /\ Len(s1) = 2 /\ s5 \in Seq(Byte) /\ Len(s5) = 2
      /\ s7 \in Seq(Byte) /\ Len(s7) = 4
    BY ONLY <1>3, Widths
<1>5. il = Len(t.id) /\ kl = Len(t.what) /\ pl = Len(t.payload) OBVIOUS
<1> HIDE DEF il, kl, pl, s1, s5, s7
<1>6. Four(b4, s1, t.id, t.chat, t.at) BY ONLY <1>2, <1>4, FourPieces
<1> HIDE DEF b4
<1>7. /\ b4 \in Seq(Byte) /\ Len(b4) = 18 + il
      /\ At(b4, 0, s1) /\ At(b4, 2, t.id) /\ At(b4, 2 + il, t.chat) /\ At(b4, 10 + il, t.at)
    BY ONLY <1>2, <1>3, <1>4, <1>5, <1>6 DEF Four
<1>8. Four(b7, b4, s5, t.what, s7) BY ONLY <1>2, <1>4, <1>7, FourPieces
<1> HIDE DEF b7
<1>9. /\ b7 \in Seq(Byte) /\ Len(b7) = 24 + il + kl
      /\ At(b7, 0, b4)
      /\ At(b7, 18 + il, s5) /\ At(b7, 20 + il, t.what) /\ At(b7, 20 + il + kl, s7)
    <2>1. Len(b4) + Len(s5) = 20 + il
        <3>1. (18 + il) + 2 = 20 + il BY <1>3
        <3> QED BY ONLY <1>4, <1>7, <3>1
    <2>2. Len(b4) + Len(s5) + Len(t.what) = 20 + il + kl BY ONLY <1>5, <2>1
    <2>3. Len(b4) + Len(s5) + Len(t.what) + Len(s7) = 24 + il + kl
        <3>1. (20 + il + kl) + 4 = 24 + il + kl BY <1>3
        <3> QED BY ONLY <1>4, <2>2, <3>1
    <2> QED BY ONLY <1>7, <1>8, <2>1, <2>2, <2>3 DEF Four
<1>10. At(b7, 0, s1) /\ At(b7, 2, t.id) /\ At(b7, 2 + il, t.chat) /\ At(b7, 10 + il, t.at)
    BY ONLY <1>2, <1>4, <1>7, <1>9, AtWithin
<1>11. Extends(buf, b7, t.payload) BY ONLY <1>2, <1>9, Joined
<1> HIDE DEF buf
<1>12. /\ buf \in Seq(Byte) /\ Len(buf) = 24 + il + kl + pl
       /\ At(buf, 0, s1) /\ At(buf, 2, t.id) /\ At(buf, 2 + il, t.chat) /\ At(buf, 10 + il, t.at)
       /\ At(buf, 18 + il, s5) /\ At(buf, 20 + il, t.what) /\ At(buf, 20 + il + kl, s7)
       /\ At(buf, 24 + il + kl, t.payload)
    BY ONLY <1>2, <1>4, <1>5, <1>9, <1>10, <1>11 DEF Extends
<1>13. il < 65536 /\ kl < 65536 /\ pl < 65536 /\ pl < 65536 * 65536
    <2>1. 24 + il + kl + pl < 65536 BY ONLY <1>1, <1>12, Len(EncodeImpulse(t)) < 65536
    <2> QED BY ONLY <1>3, <2>1
<1>14. N16(buf, 0) = il BY ONLY <1>3, <1>12, <1>13, N16At DEF s1
<1>15. N16(buf, 18 + il) = kl BY ONLY <1>3, <1>12, <1>13, N16At DEF s5
<1>16. N32(buf, 20 + il + kl) = pl BY ONLY <1>3, <1>12, <1>13, N32At DEF s7
<1>17. /\ Take(buf, 2, il) = t.id /\ Take(buf, 2 + il, 8) = t.chat
       /\ Take(buf, 10 + il, 8) = t.at /\ Take(buf, 20 + il, kl) = t.what
       /\ Take(buf, 24 + il + kl, pl) = t.payload
    <2>1. Take(buf, 2, Len(t.id)) = t.id BY ONLY <1>2, <1>5, <1>12, TakeAt
    <2>2. Take(buf, 2 + il, Len(t.chat)) = t.chat BY ONLY <1>2, <1>12, TakeAt
    <2>3. Take(buf, 10 + il, Len(t.at)) = t.at BY ONLY <1>2, <1>12, TakeAt
    <2>4. Take(buf, 20 + il, Len(t.what)) = t.what BY ONLY <1>2, <1>5, <1>12, TakeAt
    <2>5. Take(buf, 24 + il + kl, Len(t.payload)) = t.payload BY ONLY <1>2, <1>5, <1>12, TakeAt
    <2> QED BY ONLY <1>2, <1>5, <2>1, <2>2, <2>3, <2>4, <2>5
<1>18. DecodeImpulse(buf) = t BY <1>14, <1>15, <1>16, <1>17 DEF DecodeImpulse, ImpulseTuple
<1>19. ImpulseDecodable(buf)
    <2>1. /\ Len(buf) >= 2 /\ Len(buf) >= 20 + il /\ Len(buf) >= 24 + il + kl
          /\ Len(buf) >= 24 + il + kl + pl
        BY ONLY <1>3, <1>12
    <2> QED BY ONLY <1>14, <1>15, <1>16, <2>1 DEF ImpulseDecodable
<1> QED BY <1>1, <1>18, <1>19

LEMMA BondDecodes ==
    ASSUME NEW t \in BondTuple, Len(EncodeBond(t)) < 65536
    PROVE  BondDecodable(EncodeBond(t)) /\ DecodeBond(EncodeBond(t)) = t
<1> DEFINE nl  == Len(t.note)
           s4  == LE16(nl)
           b4  == t.uid \o t.chat \o t.score \o s4
           buf == b4 \o t.note
<1>1. EncodeBond(t) = buf BY DEF EncodeBond
<1>2. /\ t.uid \in Seq(Byte) /\ Len(t.uid) = 4 /\ t.chat \in Seq(Byte) /\ Len(t.chat) = 8
      /\ t.score \in Seq(Byte) /\ Len(t.score) = 4 /\ t.note \in Seq(Byte)
    BY DEF BondTuple, BytesOf
<1>3. nl \in Nat BY ONLY <1>2, LenInNat
<1>4. s4 \in Seq(Byte) /\ Len(s4) = 2 BY ONLY <1>3, Widths
<1>5. nl = Len(t.note) OBVIOUS
<1> HIDE DEF nl, s4
<1>6. Four(b4, t.uid, t.chat, t.score, s4) BY ONLY <1>2, <1>4, FourPieces
<1> HIDE DEF b4
<1>7. /\ b4 \in Seq(Byte) /\ Len(b4) = 18
      /\ At(b4, 0, t.uid) /\ At(b4, 4, t.chat) /\ At(b4, 12, t.score) /\ At(b4, 16, s4)
    BY ONLY <1>2, <1>4, <1>6 DEF Four
<1>8. Extends(buf, b4, t.note) BY ONLY <1>2, <1>7, Joined
<1> HIDE DEF buf
<1>9. /\ buf \in Seq(Byte) /\ Len(buf) = 18 + nl
      /\ At(buf, 0, t.uid) /\ At(buf, 4, t.chat) /\ At(buf, 12, t.score) /\ At(buf, 16, s4)
      /\ At(buf, 18, t.note)
    BY ONLY <1>2, <1>4, <1>5, <1>7, <1>8 DEF Extends
<1>10. nl < 65536
    <2>1. 18 + nl < 65536 BY ONLY <1>1, <1>9, Len(EncodeBond(t)) < 65536
    <2> QED BY ONLY <1>3, <2>1
<1>11. N16(buf, 16) = nl BY ONLY <1>3, <1>9, <1>10, N16At DEF s4
<1>12. /\ Take(buf, 0, 4) = t.uid /\ Take(buf, 4, 8) = t.chat /\ Take(buf, 12, 4) = t.score
       /\ Take(buf, 18, nl) = t.note
    <2>1. Take(buf, 0, Len(t.uid)) = t.uid BY ONLY <1>2, <1>9, TakeAt
    <2>2. Take(buf, 4, Len(t.chat)) = t.chat BY ONLY <1>2, <1>9, TakeAt
    <2>3. Take(buf, 12, Len(t.score)) = t.score BY ONLY <1>2, <1>9, TakeAt
    <2>4. Take(buf, 18, Len(t.note)) = t.note BY ONLY <1>2, <1>5, <1>9, TakeAt
    <2> QED BY ONLY <1>2, <1>5, <2>1, <2>2, <2>3, <2>4
<1>13. DecodeBond(buf) = t BY <1>11, <1>12 DEF DecodeBond, BondTuple
<1>14. BondDecodable(buf) BY ONLY <1>3, <1>9, <1>11 DEF BondDecodable
<1> QED BY <1>1, <1>13, <1>14

\* Four bytes for each number of the vector
LEMMA FloatsFacts ==
    ASSUME NEW v \in Vector
    PROVE  /\ Floats(v) \in Seq(Byte) /\ Len(Floats(v)) = 4 * RECALL_DIM
           /\ \A k \in 1 .. RECALL_DIM : At(Floats(v), 4 * (k - 1), v[k])
<1> DEFINE n == RECALL_DIM
<1>1. n \in Nat BY RecallDimAssumption
<1>2. Len(v) = n BY DEF Vector
<1>3. \A k \in 1 .. n : v[k] \in Seq(Byte) /\ Len(v[k]) = 4 BY <1>2 DEF Vector, BytesOf
<1> DEFINE f == [j \in 1 .. 4 * n |-> v[((j - 1) \div 4) + 1][((j - 1) % 4) + 1]]
<1>4. Floats(v) = f BY ONLY <1>2 DEF Floats
<1> HIDE DEF n
<1>5. ASSUME NEW j \in 1 .. 4 * n
      PROVE  ((j - 1) \div 4) + 1 \in 1 .. n /\ ((j - 1) % 4) + 1 \in 1 .. 4
    BY ONLY <1>1, <1>5
<1>6. ASSUME NEW j \in 1 .. 4 * n PROVE f[j] \in Byte
    <2>1. PICK k \in 1 .. n, i \in 1 .. 4 : k = ((j - 1) \div 4) + 1 /\ i = ((j - 1) % 4) + 1
        BY <1>5
    <2>2. v[k][i] \in Byte BY ONLY <1>3
    <2> QED BY <2>1, <2>2
<1>7. 4 * n \in Nat BY <1>1
<1>8. f \in Seq(Byte) /\ Len(f) = 4 * n
    <2>1. DOMAIN f = 1 .. 4 * n OBVIOUS
    <2>2. f = [j \in 1 .. 4 * n |-> f[j]] OBVIOUS
    <2> HIDE DEF f
    <2> QED BY ONLY <1>6, <1>7, <2>1, <2>2
<1>9. ASSUME NEW k \in 1 .. n, NEW i \in 1 .. 4 PROVE f[4 * (k - 1) + i] = v[k][i]
    <2>1. /\ 4 * (k - 1) + i \in 1 .. 4 * n
          /\ ((4 * (k - 1) + i - 1) \div 4) + 1 = k /\ ((4 * (k - 1) + i - 1) % 4) + 1 = i
        BY ONLY <1>1, k \in 1 .. n, i \in 1 .. 4
    <2> QED BY <2>1
<1> HIDE DEF f
<1>10. ASSUME NEW k \in 1 .. n PROVE At(f, 4 * (k - 1), v[k])
    <2>1. 4 * (k - 1) \in Nat /\ 4 * (k - 1) + 4 <= 4 * n BY <1>1
    <2> QED BY <1>3, <1>8, <1>9, <2>1 DEF At
<1> QED BY <1>4, <1>8, <1>10 DEF n

LEMMA RecallDecodes ==
    ASSUME NEW t \in RecallRec
    PROVE  RecallDecodable(EncodeRecall(t)) /\ DecodeRecall(EncodeRecall(t)) = t
<1> DEFINE n   == RECALL_DIM
           s3  == <<t.visibility>>
           s4  == Floats(t.vector)
           buf == t.chat \o t.id \o s3 \o s4
<1>1. EncodeRecall(t) = buf BY DEF EncodeRecall
<1>2. /\ t.chat \in Seq(Byte) /\ Len(t.chat) = 8 /\ t.id \in Seq(Byte) /\ Len(t.id) = 4
      /\ s3 \in Seq(Byte) /\ Len(s3) = 1 /\ s3[1] = t.visibility
      /\ t.vector \in Vector
    BY DEF RecallRec, BytesOf
<1>3. n \in Nat BY RecallDimAssumption
<1>4. /\ s4 \in Seq(Byte) /\ Len(s4) = 4 * n
      /\ \A k \in 1 .. n : At(s4, 4 * (k - 1), t.vector[k])
    BY ONLY <1>2, FloatsFacts
<1>5. /\ Len(t.vector) = n /\ \A k \in 1 .. n : t.vector[k] \in Seq(Byte) /\ Len(t.vector[k]) = 4
      /\ t.vector = [k \in 1 .. n |-> t.vector[k]]
    BY ONLY <1>2, <1>3 DEF Vector, BytesOf
<1> HIDE DEF n, s3, s4
<1>6. Four(buf, t.chat, t.id, s3, s4) BY ONLY <1>2, <1>4, FourPieces
<1> HIDE DEF buf
<1>7. /\ buf \in Seq(Byte) /\ Len(buf) = 13 + 4 * n
      /\ At(buf, 0, t.chat) /\ At(buf, 8, t.id) /\ At(buf, 12, s3) /\ At(buf, 13, s4)
    BY ONLY <1>2, <1>3, <1>4, <1>6 DEF Four
<1>8. buf[13] = t.visibility
    <2>1. \A k \in 1 .. 1 : buf[12 + k] = s3[k] BY ONLY <1>2, <1>7 DEF At
    <2> QED BY ONLY <1>2, <2>1, 1 \in 1 .. 1, 12 + 1 = 13
<1>9. ASSUME NEW k \in 1 .. n PROVE Take(buf, 9 + (4 * k), 4) = t.vector[k]
    <2>1. \A j \in 1 .. 4 * n : buf[13 + j] = s4[j] BY ONLY <1>4, <1>7 DEF At
    <2>2. \A i \in 1 .. 4 : s4[4 * (k - 1) + i] = t.vector[k][i]
        BY ONLY <1>4, <1>5, k \in 1 .. n DEF At
    <2>3. ASSUME NEW i \in 1 .. 4 PROVE buf[9 + (4 * k) + i] = t.vector[k][i]
        <3>1. 4 * (k - 1) + i \in 1 .. 4 * n /\ 13 + (4 * (k - 1) + i) = 9 + (4 * k) + i
            BY ONLY <1>3, k \in 1 .. n, i \in 1 .. 4
        <3> QED BY ONLY <2>1, <2>2, <3>1, i \in 1 .. 4
    <2>4. 9 + (4 * k) \in Nat /\ 9 + (4 * k) + 4 <= 13 + 4 * n BY ONLY <1>3, k \in 1 .. n
    <2>5. At(buf, 9 + (4 * k), t.vector[k]) BY ONLY <1>5, <1>7, <2>3, <2>4, k \in 1 .. n DEF At
    <2>6. Take(buf, 9 + (4 * k), Len(t.vector[k])) = t.vector[k]
        BY ONLY <1>5, <1>7, <2>5, TakeAt, k \in 1 .. n
    <2> QED BY ONLY <1>5, <2>6, k \in 1 .. n
<1>10. Take(buf, 0, 8) = t.chat /\ Take(buf, 8, 4) = t.id
    <2>1. Take(buf, 0, Len(t.chat)) = t.chat BY ONLY <1>2, <1>7, TakeAt
    <2>2. Take(buf, 8, Len(t.id)) = t.id BY ONLY <1>2, <1>7, TakeAt
    <2> QED BY ONLY <1>2, <2>1, <2>2
<1>11. [k \in 1 .. n |-> Take(buf, 9 + (4 * k), 4)] = t.vector BY ONLY <1>5, <1>9
<1>12. DecodeRecall(buf) = t BY <1>8, <1>10, <1>11 DEF DecodeRecall, RecallRec, n
<1>13. RecallDecodable(buf) BY ONLY <1>3, <1>7 DEF RecallDecodable, n
<1> QED BY <1>1, <1>12, <1>13

LEMMA TextFacts == \A s \in Text : s \in Seq(Byte) /\ Len(s) < 65536 * 65536
<1> SUFFICES ASSUME NEW s \in Text PROVE s \in Seq(Byte) /\ Len(s) < 65536 * 65536 OBVIOUS
<1>1. s \in Seq(Byte) /\ Len(s) \div 65536 < 65536 BY DEF Text
<1>2. PICK n \in Nat : n = Len(s) BY <1>1
<1>3. n \div 65536 < 65536 BY <1>1, <1>2
<1>4. n < 65536 * 65536 BY ONLY <1>3
<1> QED BY <1>1, <1>2, <1>4

\* Only what becomes shorter is compressed, and it comes back.
LEMMA Decompressed ==
    ASSUME NEW text \in Text, Compresses(text)
    PROVE  Compress(text) \in Seq(Byte) /\ Decompress(Compress(text)) = text
<1> DEFINE n == Len(text)
           z == <<1, text[1]>>
           l == LE32(n)
           e == z \o l
<1>0. text \in Seq(Byte) /\ n < 65536 * 65536 BY TextFacts
<1>1. n \in Nat BY <1>0, LenInNat
<1>2. n >= 64 /\ Len(Compress(text)) < n BY DEF Compresses
<1>3. text # <<>> /\ Repeats(text)
    <2>1. text # <<>> BY ONLY <1>2
    <2>2. ASSUME ~Repeats(text) PROVE FALSE
        <3>1. Compress(text) = <<0>> \o text BY <2>2 DEF Compress
        <3>2. <<0>> \in Seq(Byte) /\ Len(<<0>>) = 1 BY DEF Byte
        <3>3. Len(<<0>> \o text) = 1 + n BY ONLY <1>0, <3>2, Concat
        <3> QED BY ONLY <1>1, <1>2, <3>1, <3>3
    <2> QED BY <2>1, <2>2
<1>4. Compress(text) = e BY <1>3 DEF Compress
<1>5. z \in Seq(Byte) /\ Len(z) = 2 /\ z[1] = 1 /\ z[2] = text[1]
    <2>1. text[1] \in Byte BY <1>0, <1>1, <1>2
    <2>2. 1 \in Byte BY DEF Byte
    <2> QED BY ONLY <2>1, <2>2
<1>6. l \in Seq(Byte) /\ Len(l) = 4 BY ONLY <1>1, Widths
<1> HIDE DEF z, l
<1>7. Extends(e, z, l) BY ONLY <1>5, <1>6, Joined
<1> HIDE DEF e
<1>8. e \in Seq(Byte) /\ At(e, 0, z) /\ At(e, 2, l) BY ONLY <1>5, <1>7, AtStart DEF Extends
<1>9. e[1] = 1 /\ e[2] = text[1]
    <2>1. \A k \in 1 .. 2 : e[0 + k] = z[k] BY ONLY <1>5, <1>8 DEF At
    <2> QED BY ONLY <1>5, <2>1, 0 + 1 = 1, 0 + 2 = 2, 1 \in 1 .. 2, 2 \in 1 .. 2
<1>10. N32(e, 2) = n
    <2> HIDE DEF n
    <2>1. n < 65536 * 65536 BY <1>0
    <2> QED BY ONLY <1>1, <1>8, <2>1, N32At DEF l
<1>11. Decompress(e) = [k \in 1 .. n |-> text[1]] BY ONLY <1>9, <1>10 DEF Decompress
<1>12. \A k \in 1 .. n : text[k] = text[1] BY <1>3 DEF Repeats
<1>13. text = [k \in 1 .. n |-> text[k]] BY <1>0
<1>14. [k \in 1 .. n |-> text[1]] = text BY ONLY <1>12, <1>13
<1> QED BY ONLY <1>4, <1>8, <1>11, <1>14

LEMMA ChatDecodes ==
    ASSUME NEW t \in ChatTuple, Len(EncodeChat(t)) < 65536
    PROVE  ChatDecodable(EncodeChat(t)) /\ DecodeChat(EncodeChat(t)) = t
<1> DEFINE body == IF Compresses(t.text) THEN Compress(t.text) ELSE t.text
           bl   == Len(body)
           algo == Algo(t.json, Compresses(t.text))
           s1   == <<algo>>
           s5   == <<t.role>>
           s6   == LE32(bl)
           b4   == s1 \o t.id \o t.ts \o t.uid
           buf  == b4 \o s5 \o s6 \o body
<1>1. EncodeChat(t) = buf BY DEF EncodeChat
<1>2. /\ t.id \in Seq(Byte) /\ Len(t.id) = 4 /\ t.ts \in Seq(Byte) /\ Len(t.ts) = 8
      /\ t.uid \in Seq(Byte) /\ Len(t.uid) = 4
      /\ s5 \in Seq(Byte) /\ Len(s5) = 1 /\ s5[1] = t.role
      /\ t.text \in Text /\ t.text \in Seq(Byte) /\ t.json \in BOOLEAN
    <2>1. /\ t.id \in BytesOf(4) /\ t.ts \in BytesOf(8) /\ t.uid \in BytesOf(4)
          /\ t.role \in Byte /\ t.text \in Text /\ t.json \in BOOLEAN
        BY DEF ChatTuple
    <2>2. t.text \in Seq(Byte) BY ONLY <2>1, TextFacts
    <2>3. s5 \in Seq(Byte) /\ Len(s5) = 1 /\ s5[1] = t.role BY ONLY <2>1
    <2> QED BY ONLY <2>1, <2>2, <2>3 DEF BytesOf
<1>3. body \in Seq(Byte) BY <1>2, Decompressed
<1>4. (IF Compresses(t.text) THEN Decompress(body) ELSE body) = t.text BY <1>2, Decompressed
<1>5. /\ algo \in Byte /\ (algo \in {1, 3} <=> Compresses(t.text))
      /\ (algo \in {2, 3} <=> t.json)
    BY <1>2 DEF Algo, Byte
<1> HIDE DEF body, algo
<1>6. s1 \in Seq(Byte) /\ Len(s1) = 1 /\ s1[1] = algo BY ONLY <1>5
<1>7. bl \in Nat /\ bl = Len(body) BY ONLY <1>3, LenInNat
<1>8. s6 \in Seq(Byte) /\ Len(s6) = 4 BY ONLY <1>7, Widths
<1> HIDE DEF bl, s1, s5, s6
<1>9. Four(b4, s1, t.id, t.ts, t.uid) BY ONLY <1>2, <1>6, FourPieces
<1> HIDE DEF b4
<1>10. /\ b4 \in Seq(Byte) /\ Len(b4) = 17
       /\ At(b4, 0, s1) /\ At(b4, 1, t.id) /\ At(b4, 5, t.ts) /\ At(b4, 13, t.uid)
    BY ONLY <1>2, <1>6, <1>9 DEF Four
<1>11. Four(buf, b4, s5, s6, body) BY ONLY <1>2, <1>3, <1>8, <1>10, FourPieces
<1> HIDE DEF buf
<1>12. /\ buf \in Seq(Byte) /\ Len(buf) = 22 + bl
       /\ At(buf, 0, b4) /\ At(buf, 17, s5) /\ At(buf, 18, s6) /\ At(buf, 22, body)
    BY ONLY <1>2, <1>7, <1>8, <1>10, <1>11 DEF Four
<1>13. At(buf, 0, s1) /\ At(buf, 1, t.id) /\ At(buf, 5, t.ts) /\ At(buf, 13, t.uid)
    BY ONLY <1>2, <1>6, <1>10, <1>12, AtWithin
<1>14. buf[1] = algo /\ buf[18] = t.role
    <2>1. \A k \in 1 .. 1 : buf[0 + k] = s1[k] BY ONLY <1>6, <1>13 DEF At
    <2>2. \A k \in 1 .. 1 : buf[17 + k] = s5[k] BY ONLY <1>2, <1>12 DEF At
    <2> QED BY ONLY <1>2, <1>6, <2>1, <2>2, 1 \in 1 .. 1, 0 + 1 = 1, 17 + 1 = 18
<1>15. N32(buf, 18) = bl
    <2>1. 22 + bl < 65536 BY ONLY <1>1, <1>12, Len(EncodeChat(t)) < 65536
    <2>2. bl < 65536 * 65536 BY ONLY <1>7, <2>1
    <2> QED BY ONLY <1>7, <1>12, <2>2, N32At DEF s6
<1>16. /\ Take(buf, 1, 4) = t.id /\ Take(buf, 5, 8) = t.ts /\ Take(buf, 13, 4) = t.uid
       /\ Take(buf, 22, bl) = body
    <2>0. buf \in Seq(Byte) /\ t.id \in Seq(Byte) /\ t.ts \in Seq(Byte) /\ t.uid \in Seq(Byte)
        BY ONLY <1>2, <1>12
    <2>1. Take(buf, 1, Len(t.id)) = t.id BY ONLY <2>0, <1>13, TakeAt
    <2>2. Take(buf, 5, Len(t.ts)) = t.ts BY ONLY <2>0, <1>13, TakeAt
    <2>3. Take(buf, 13, Len(t.uid)) = t.uid BY ONLY <2>0, <1>13, TakeAt
    <2>4. Take(buf, 22, Len(body)) = body BY ONLY <1>3, <1>12, TakeAt
    <2> QED BY ONLY <1>2, <1>7, <2>1, <2>2, <2>3, <2>4
<1>17. (IF buf[1] \in {1, 3} THEN Decompress(Take(buf, 22, N32(buf, 18)))
        ELSE Take(buf, 22, N32(buf, 18))) = t.text
    BY ONLY <1>4, <1>5, <1>14, <1>15, <1>16
<1>18. (buf[1] \in {2, 3}) = t.json BY ONLY <1>2, <1>5, <1>14
<1>19. DecodeChat(buf) = t BY <1>14, <1>16, <1>17, <1>18 DEF DecodeChat, ChatTuple
<1>20. ChatDecodable(buf) BY ONLY <1>7, <1>12, <1>15 DEF ChatDecodable
<1> QED BY <1>1, <1>19, <1>20

-----------------------------------------------------------------------------

THEOREM DecodeEncode ==
    ASSUME NEW t \in Row, Len(Encode(t)) < 65536
    PROVE  Decodable(t.kind, Encode(t)) /\ Decode(t.kind, Encode(t)) = t
<1>1. CASE t \in ChatTuple
    <2>1. t.kind = "chat" BY <1>1 DEF ChatTuple
    <2>2. Encode(t) = EncodeChat(t) BY <2>1 DEF Encode
    <2> QED BY <1>1, <2>1, <2>2, ChatDecodes DEF Decodable, Decode
<1>2. CASE t \in HotTuple
    <2>1. t.kind = "hot" BY <1>2 DEF HotTuple
    <2>2. Encode(t) = EncodeHot(t) BY <2>1 DEF Encode
    <2> QED BY <1>2, <2>1, <2>2, HotDecodes DEF Decodable, Decode
<1>3. CASE t \in ImpulseTuple
    <2>1. t.kind = "impulse" BY <1>3 DEF ImpulseTuple
    <2>2. Encode(t) = EncodeImpulse(t) BY <2>1 DEF Encode
    <2> QED BY <1>3, <2>1, <2>2, ImpulseDecodes DEF Decodable, Decode
<1>4. CASE t \in BondTuple
    <2>1. t.kind = "bond" BY <1>4 DEF BondTuple
    <2>2. Encode(t) = EncodeBond(t) BY <2>1 DEF Encode
    <2> QED BY <1>4, <2>1, <2>2, BondDecodes DEF Decodable, Decode
<1>5. CASE t \in RecallRec
    <2>1. t.kind = "recall" BY <1>5 DEF RecallRec
    <2>2. Encode(t) = EncodeRecall(t) BY <2>1 DEF Encode
    <2> QED BY <1>5, <2>1, <2>2, RecallDecodes DEF Decodable, Decode
<1> QED BY <1>1, <1>2, <1>3, <1>4, <1>5 DEF Row

Kinds == {"chat", "hot", "impulse", "bond", "recall"}

LEMMA RowKinds == \A t \in Row : t.kind \in Kinds
BY DEF Row, Kinds, ChatTuple, HotTuple, ImpulseTuple, BondTuple, RecallRec

\* Whatever the lengths
LEMMA EncodeTyped ==
    ASSUME NEW t \in Row
    PROVE  Encode(t) \in Seq(Byte)
<1>1. ASSUME NEW s1 \in Seq(Byte), NEW s2 \in Seq(Byte), NEW s3 \in Seq(Byte), NEW s4 \in Seq(Byte)
      PROVE  s1 \o s2 \o s3 \o s4 \in Seq(Byte)
    BY FourPieces DEF Four
<1>2. ASSUME NEW s1 \in Seq(Byte), NEW s2 \in Seq(Byte) PROVE s1 \o s2 \in Seq(Byte)
    BY ONLY <1>2, Concat
<1>3. CASE t \in ChatTuple
    <2> DEFINE body == IF Compresses(t.text) THEN Compress(t.text) ELSE t.text
               s1   == <<Algo(t.json, Compresses(t.text))>>
               s5   == <<t.role>>
               s6   == LE32(Len(body))
               b4   == s1 \o t.id \o t.ts \o t.uid
    <2>1. /\ t.id \in Seq(Byte) /\ t.ts \in Seq(Byte) /\ t.uid \in Seq(Byte)
          /\ t.role \in Byte /\ t.text \in Text /\ t.json \in BOOLEAN
        BY <1>3 DEF ChatTuple, BytesOf
    <2>2. body \in Seq(Byte) BY <2>1, Decompressed, TextFacts
    <2>3. s1 \in Seq(Byte) /\ s5 \in Seq(Byte)
        <3>1. Algo(t.json, Compresses(t.text)) \in Byte BY <2>1 DEF Algo, Byte
        <3> QED BY ONLY <2>1, <3>1
    <2>4. t.kind = "chat" BY <1>3 DEF ChatTuple
    <2>5. Encode(t) = b4 \o s5 \o s6 \o body BY <2>4 DEF Encode, EncodeChat
    <2> HIDE DEF body, s1, s5
    <2>6. s6 \in Seq(Byte) BY ONLY <2>2, LenInNat, Widths
    <2> HIDE DEF s6
    <2>7. b4 \in Seq(Byte) BY ONLY <1>1, <2>1, <2>3
    <2> HIDE DEF b4
    <2> QED BY ONLY <1>1, <2>2, <2>3, <2>5, <2>6, <2>7
<1>4. CASE t \in HotTuple
    <2> DEFINE s1 == LE16(Len(t.key))
               s4 == LE32(Len(t.value))
               b4 == s1 \o t.key \o t.expires \o s4
    <2>1. t.kind = "hot" /\ t.key \in Seq(Byte) /\ t.expires \in Seq(Byte) /\ t.value \in Seq(Byte)
        BY <1>4 DEF HotTuple, BytesOf
    <2>2. Encode(t) = b4 \o t.value BY <2>1 DEF Encode, EncodeHot
    <2>3. s1 \in Seq(Byte) /\ s4 \in Seq(Byte) BY ONLY <2>1, LenInNat, Widths
    <2> HIDE DEF s1, s4
    <2>4. b4 \in Seq(Byte) BY ONLY <1>1, <2>1, <2>3
    <2> HIDE DEF b4
    <2> QED BY ONLY <1>2, <2>1, <2>2, <2>4
<1>5. CASE t \in ImpulseTuple
    <2> DEFINE s1 == LE16(Len(t.id))
               s5 == LE16(Len(t.what))
               s7 == LE32(Len(t.payload))
               b4 == s1 \o t.id \o t.chat \o t.at
               b7 == b4 \o s5 \o t.what \o s7
    <2>1. /\ t.kind = "impulse" /\ t.id \in Seq(Byte) /\ t.chat \in Seq(Byte)
          /\ t.at \in Seq(Byte) /\ t.what \in Seq(Byte) /\ t.payload \in Seq(Byte)
        BY <1>5 DEF ImpulseTuple, BytesOf
    <2>2. Encode(t) = b7 \o t.payload BY <2>1 DEF Encode, EncodeImpulse
    <2>3. s1 \in Seq(Byte) /\ s5 \in Seq(Byte) /\ s7 \in Seq(Byte)
        BY ONLY <2>1, LenInNat, Widths
    <2> HIDE DEF s1, s5, s7
    <2>4. b4 \in Seq(Byte) BY ONLY <1>1, <2>1, <2>3
    <2> HIDE DEF b4
    <2>5. b7 \in Seq(Byte) BY ONLY <1>1, <2>1, <2>3, <2>4
    <2> HIDE DEF b7
    <2> QED BY ONLY <1>2, <2>1, <2>2, <2>5
<1>6. CASE t \in BondTuple
    <2> DEFINE s4 == LE16(Len(t.note))
               b4 == t.uid \o t.chat \o t.score \o s4
    <2>1. /\ t.kind = "bond" /\ t.uid \in Seq(Byte) /\ t.chat \in Seq(Byte)
          /\ t.score \in Seq(Byte) /\ t.note \in Seq(Byte)
        BY <1>6 DEF BondTuple, BytesOf
    <2>2. Encode(t) = b4 \o t.note BY <2>1 DEF Encode, EncodeBond
    <2>3. s4 \in Seq(Byte) BY ONLY <2>1, LenInNat, Widths
    <2> HIDE DEF s4
    <2>4. b4 \in Seq(Byte) BY ONLY <1>1, <2>1, <2>3
    <2> HIDE DEF b4
    <2> QED BY ONLY <1>2, <2>1, <2>2, <2>4
<1>7. CASE t \in RecallRec
    <2> DEFINE s3 == <<t.visibility>>
               s4 == Floats(t.vector)
    <2>1. /\ t.kind = "recall" /\ t.chat \in Seq(Byte) /\ t.id \in Seq(Byte)
          /\ t.visibility \in Byte /\ t.vector \in Vector
        BY <1>7 DEF RecallRec, BytesOf
    <2>2. Encode(t) = t.chat \o t.id \o s3 \o s4 BY <2>1 DEF Encode, EncodeRecall
    <2>3. s3 \in Seq(Byte) BY ONLY <2>1
    <2>4. s4 \in Seq(Byte) BY ONLY <2>1, FloatsFacts
    <2> HIDE DEF s3, s4
    <2> QED BY ONLY <1>1, <2>1, <2>2, <2>3, <2>4
<1> QED BY <1>3, <1>4, <1>5, <1>6, <1>7 DEF Row

-----------------------------------------------------------------------------
(* Pages. *)

\* What is true of the header of every page that starts with the mark of a page,
\* the half-written ones included: header and mark are in the same sector.
Header(buf) ==
    /\ HasMagic(buf) /\ Lower(buf) >= 64
    /\ Upper(buf) = PAGE_SIZE - (4 * NSlots(buf))

\* `new' is a page as sound as `buf': bytes, marked as a page, with the same tuples.
Carries(new, buf) ==
    /\ new \in [Offsets -> Byte]
    /\ Header(buf) => Header(new)
    /\ \A tuples \in Seq(Seq(Byte)) : Layout(buf, tuples) => Layout(new, tuples)

LEMMA MagicKept ==
    ASSUME NEW buf, NEW new, DOMAIN buf = Offsets, DOMAIN new = Offsets,
           \A i \in Offsets : i < 4 => new[i] = buf[i]
    PROVE  HasMagic(new) <=> HasMagic(buf)
<1>1. \A k \in 1 .. 4 : new[0 + k - 1] = buf[0 + k - 1]
    <2> TAKE k \in 1 .. 4
    <2>1. 0 + k - 1 \in Nat /\ 0 + k - 1 < 4 /\ 0 + k - 1 < PAGE_SIZE BY PageSizeFacts
    <2> QED BY <2>1, OffsetsAre
<1>2. ReadField(new, 0, 4) = ReadField(buf, 0, 4) BY <1>1 DEF ReadField
<1> QED BY <1>2 DEF HasMagic

LEMMA HeaderKept ==
    ASSUME NEW buf, NEW new, DOMAIN buf = Offsets, DOMAIN new = Offsets,
           \A i \in Offsets : (i < 4 \/ i \in 18 .. 23) => new[i] = buf[i]
    PROVE  /\ HasMagic(new) <=> HasMagic(buf)
           /\ Header(new) <=> Header(buf)
<1>1. HasMagic(new) <=> HasMagic(buf) BY MagicKept
<1>2. /\ new[18] = buf[18] /\ new[19] = buf[19] /\ new[20] = buf[20]
      /\ new[21] = buf[21] /\ new[22] = buf[22] /\ new[23] = buf[23]
    BY HeaderOffsets
<1>3. 18 + 1 = 19 /\ 20 + 1 = 21 /\ 22 + 1 = 23 OBVIOUS
<1>4. NSlots(new) = NSlots(buf) /\ Lower(new) = Lower(buf) /\ Upper(new) = Upper(buf)
    BY <1>2, <1>3 DEF NSlots, Lower, Upper, U16
<1> QED BY <1>1, <1>4 DEF Header

\* A field of the header other than the three that insert keeps
LEMMA HeaderWriteCarries ==
    ASSUME NEW buf \in [Offsets -> Byte], NEW off \in Nat, NEW width \in Nat,
           NEW s \in Seq(Byte), width <= Len(s), off >= 4,
           off + width <= 18 \/ (off >= 24 /\ off + width <= 64)
    PROVE  Carries(WriteField(buf, off, width, s), buf)
<1>1. PICK new : new = WriteField(buf, off, width, s) OBVIOUS
<1>2. new \in [Offsets -> Byte] BY <1>1, WriteFieldTyped
<1>3. \A i \in Offsets : i \notin off .. off + width - 1 => new[i] = buf[i]
    BY <1>1, WriteFieldBytes
<1>4. \A i \in Offsets : (i \in 18 .. 23 \/ i >= 64) => new[i] = buf[i]
    <2> SUFFICES ASSUME NEW i \in Offsets, i \in 18 .. 23 \/ i >= 64
                 PROVE  new[i] = buf[i]
        OBVIOUS
    <2>1. i \in Nat BY OffsetsAre
    <2>2. i \notin off .. off + width - 1 BY <2>1
    <2> QED BY <2>2, <1>3
<1>5. \A i \in Offsets : i < 4 => new[i] = buf[i]
    <2> SUFFICES ASSUME NEW i \in Offsets, i < 4 PROVE new[i] = buf[i] OBVIOUS
    <2>1. i \in Nat BY OffsetsAre
    <2>2. i \notin off .. off + width - 1 BY <2>1
    <2> QED BY <2>2, <1>3
<1>6. Header(buf) => Header(new) BY <1>2, <1>4, <1>5, HeaderKept
<1>7. ASSUME NEW tuples \in Seq(Seq(Byte)), Layout(buf, tuples) PROVE Layout(new, tuples)
    <2>1. DOMAIN new = Offsets BY <1>2
    <2> QED BY <1>4, <1>7, <2>1, LayoutKept
<1> QED BY <1>1, <1>2, <1>6, <1>7 DEF Carries

LEMMA CarriesChain ==
    ASSUME NEW a, NEW b, NEW c, Carries(b, a), Carries(c, b)
    PROVE  Carries(c, a)
BY DEF Carries

LEMMA SetTypeCarries ==
    ASSUME NEW buf \in [Offsets -> Byte], NEW ty \in DOMAIN TypeCode
    PROVE  Carries(SetType(buf, ty), buf)
<1>1. PICK new : new = SetType(buf, ty) OBVIOUS
<1>2. TypeCode[ty] \in Byte BY DEF TypeCode, Byte
<1>3. new \in [Offsets -> Byte] /\ \A i \in Offsets : i # 4 => new[i] = buf[i]
    BY <1>1, <1>2 DEF SetType
<1>4. \A i \in Offsets : (i \in 18 .. 23 \/ i >= 64) => new[i] = buf[i]
    BY <1>3, OffsetsAre
<1>5. \A i \in Offsets : i < 4 => new[i] = buf[i] BY <1>3, OffsetsAre
<1>6. Header(buf) => Header(new) BY <1>3, <1>4, <1>5, HeaderKept
<1>7. ASSUME NEW tuples \in Seq(Seq(Byte)), Layout(buf, tuples) PROVE Layout(new, tuples)
    <2>1. DOMAIN new = Offsets BY <1>3
    <2> QED BY <1>4, <1>7, <2>1, LayoutKept
<1> QED BY <1>1, <1>3, <1>6, <1>7 DEF Carries

\* The setters
LEMMA SettersCarry ==
    ASSUME NEW buf \in [Offsets -> Byte], NEW s \in Seq(Byte)
    PROVE  /\ Len(s) >= 4 => Carries(SetPageId(buf, s), buf)
           /\ Len(s) >= 8 => Carries(SetLsn(buf, s), buf)
           /\ Len(s) >= 4 => Carries(SetNext(buf, s), buf)
           /\ Len(s) >= 8 => Carries(WriteI64At32(buf, s), buf)
           /\ Len(s) >= 4 => Carries(WriteU32At32(buf, s), buf)
<1>1. Len(s) >= 4 => Carries(SetPageId(buf, s), buf) BY HeaderWriteCarries DEF SetPageId
<1>2. Len(s) >= 8 => Carries(SetLsn(buf, s), buf) BY HeaderWriteCarries DEF SetLsn
<1>3. Len(s) >= 4 => Carries(SetNext(buf, s), buf) BY HeaderWriteCarries DEF SetNext
<1>4. Len(s) >= 8 => Carries(WriteI64At32(buf, s), buf)
    BY HeaderWriteCarries DEF WriteI64At32
<1>5. Len(s) >= 4 => Carries(WriteU32At32(buf, s), buf)
    BY HeaderWriteCarries DEF WriteU32At32
<1> QED BY <1>1, <1>2, <1>3, <1>4, <1>5

LEMMA WriteU16Typed ==
    ASSUME NEW buf \in [Offsets -> Byte], NEW off \in Nat, NEW n \in Nat
    PROVE  WriteU16(buf, off, n) \in [Offsets -> Byte]
<1>1. LE16(n) \in Seq(Byte) /\ 2 <= Len(LE16(n)) /\ 2 \in Nat BY LE16Typed
<1> QED BY <1>1, WriteFieldTyped DEF WriteU16

\* A page that alloc returns
LEMMA EmptyIsPage == Empty \in [Offsets -> Byte] /\ HasMagic(Empty)
<1>0. PICK blank : blank = [i \in Offsets |-> 0] OBVIOUS
<1>1. PICK magic : magic = WriteField(blank, 0, 4, PAGE_MAGIC) OBVIOUS
<1>2. PICK low : low = WriteU16(magic, 20, 64) OBVIOUS
<1>3. Empty = WriteU16(low, 22, PAGE_SIZE)
    BY <1>0, <1>1, <1>2 DEF Empty, PAGE_HEADER_SIZE
<1>4. PAGE_MAGIC \in Seq(Byte) /\ Len(PAGE_MAGIC) = 4 BY DEF PAGE_MAGIC, Byte
<1>5. blank \in [Offsets -> Byte] BY <1>0 DEF Byte
<1>6. magic \in [Offsets -> Byte]
    <2>1. 4 <= Len(PAGE_MAGIC) /\ 0 \in Nat /\ 4 \in Nat BY <1>4
    <2> QED BY <1>1, <1>4, <1>5, <2>1, WriteFieldTyped
<1>7. low \in [Offsets -> Byte] BY <1>2, <1>6, WriteU16Typed, 20 \in Nat, 64 \in Nat
<1>8. Empty \in [Offsets -> Byte]
    BY <1>3, <1>7, WriteU16Typed, 22 \in Nat, PageSizeFacts
<1>9. \A i \in Offsets : i < 4 => magic[i] = PAGE_MAGIC[i + 1]
    <2> SUFFICES ASSUME NEW i \in Offsets, i < 4 PROVE magic[i] = PAGE_MAGIC[i + 1] OBVIOUS
    <2>1. i \in Nat BY OffsetsAre
    <2>2. i \in 0 .. 0 + 4 - 1 /\ i - 0 + 1 = i + 1 BY <2>1
    <2>3. blank \in [Offsets -> Byte] /\ i \in DOMAIN blank BY <1>5
    <2>4. WriteField(blank, 0, 4, PAGE_MAGIC)[i] = PAGE_MAGIC[i - 0 + 1]
        BY <2>2, <2>3 DEF WriteField
    <2> QED BY <1>1, <2>2, <2>4
<1>10. \A i \in Offsets : i < 4 => Empty[i] = magic[i]
    <2> SUFFICES ASSUME NEW i \in Offsets, i < 4 PROVE Empty[i] = magic[i] OBVIOUS
    <2>1. i \in Nat BY OffsetsAre
    <2>2. i # 20 /\ i # 20 + 1 /\ i # 22 /\ i # 22 + 1 BY <2>1
    <2>3. low[i] = magic[i]
        BY <1>2, <1>6, <2>2, HeaderOffsets, WriteU16Bytes, 20 + 1 = 21, 20 \in Nat
    <2>4. Empty[i] = low[i]
        BY <1>3, <1>7, <2>2, HeaderOffsets, WriteU16Bytes, 22 + 1 = 23, 22 \in Nat
    <2> QED BY <2>3, <2>4
<1>11. ReadField(Empty, 0, 4) = PAGE_MAGIC
    <2>1. \A k \in 1 .. 4 : Empty[0 + k - 1] = PAGE_MAGIC[k]
        <3> TAKE k \in 1 .. 4
        <3>1. PICK i \in Nat : i = 0 + k - 1 OBVIOUS
        <3>2. i < 4 /\ i < PAGE_SIZE /\ i + 1 = k BY <3>1, PageSizeFacts
        <3>3. i \in Offsets BY <3>2, OffsetsAre
        <3> QED BY <3>1, <3>2, <3>3, <1>9, <1>10
    <2>2. PAGE_MAGIC = [k \in 1 .. 4 |-> PAGE_MAGIC[k]] BY <1>4
    <2> QED BY <2>1, <2>2 DEF ReadField
<1> QED BY <1>8, <1>11 DEF HasMagic

LEMMA LE32Typed == \A n \in Nat : LE32(n) \in Seq(Byte) /\ Len(LE32(n)) = 4
<1> TAKE n \in Nat
<1>1. n % 65536 \in Nat /\ n \div 65536 \in Nat OBVIOUS
<1>2. PICK a \in Seq(Byte), b \in Seq(Byte) :
        a = LE16(n % 65536) /\ b = LE16(n \div 65536) /\ Len(a) = 2 /\ Len(b) = 2
    BY <1>1, LE16Typed
<1>3. LE32(n) = a \o b BY <1>2 DEF LE32
<1>4. a \o b \in Seq(Byte) OBVIOUS
<1>5. Len(a \o b) = Len(a) + Len(b) OBVIOUS
<1>6. Len(a \o b) = 4
    <2>1. Len(a) = 2 /\ Len(b) = 2 BY <1>2
    <2>2. 2 + 2 = 4 OBVIOUS
    <2> QED BY <1>5, <2>1, <2>2, Zenon
<1> QED BY <1>3, <1>4, <1>6

LEMMA ZeroTyped == \A n \in Nat : Zero(n) \in Seq(Byte) /\ Len(Zero(n)) = n
BY DEF Zero, Byte

LEMMA AllocIsPage ==
    ASSUME NEW id \in Nat, NEW ty \in DOMAIN TypeCode
    PROVE  Carries(AllocBuf(id, ty), Empty)
<1>1. PICK a : a = SetPageId(Empty, IdBytes(id)) OBVIOUS
<1>2. PICK b : b = SetType(a, ty) OBVIOUS
<1>3. PICK c : c = SetLsn(b, Zero(8)) OBVIOUS
<1>4. AllocBuf(id, ty) = SetNext(c, Zero(4)) BY <1>1, <1>2, <1>3 DEF AllocBuf
<1>5. IdBytes(id) \in Seq(Byte) /\ Len(IdBytes(id)) >= 4
    <2>1. LE32(id) \in Seq(Byte) /\ Len(LE32(id)) = 4 BY LE32Typed
    <2> QED BY <2>1 DEF IdBytes
<1>6. Zero(8) \in Seq(Byte) /\ Len(Zero(8)) >= 8 /\ Zero(4) \in Seq(Byte) /\ Len(Zero(4)) >= 4
    BY ZeroTyped
<1>7. Carries(a, Empty) BY <1>1, <1>5, EmptyIsPage, SettersCarry
<1>8. Carries(b, a) BY <1>2, <1>7, SetTypeCarries DEF Carries
<1>9. Carries(c, b) BY <1>3, <1>6, <1>8, SettersCarry DEF Carries
<1>10. Carries(SetNext(c, Zero(4)), c) BY <1>6, <1>9, SettersCarry DEF Carries
<1> QED BY <1>4, <1>7, <1>8, <1>9, <1>10, CarriesChain

LEMMA SmallQuotient == \A m \in Nat : \A i \in Nat : i < m => i \div m = 0
OBVIOUS

LEMMA NumbersOfPage ==
    ASSUME NEW buf \in [Offsets -> Byte]
    PROVE  Lower(buf) \in Nat /\ Upper(buf) \in Nat /\ NSlots(buf) \in Nat
<1>1. /\ buf[18] \in Nat /\ buf[19] \in Nat /\ buf[20] \in Nat
      /\ buf[21] \in Nat /\ buf[22] \in Nat /\ buf[23] \in Nat
    <2>1. \A i \in Offsets : buf[i] \in Nat
        <3>1. \A i \in Offsets : buf[i] \in Byte OBVIOUS
        <3> QED BY <3>1 DEF Byte
    <2> QED BY <2>1, HeaderOffsets
<1>2. 18 + 1 = 19 /\ 20 + 1 = 21 /\ 22 + 1 = 23 OBVIOUS
<1> QED BY <1>1, <1>2 DEF NSlots, Lower, Upper, U16

\* An insert makes no page of something that was not one, and keeps the header.
LEMMA InsertIsPage ==
    ASSUME NEW buf \in [Offsets -> Byte], NEW t \in Seq(Byte), Fits(buf, t), Header(buf)
    PROVE  Insert(buf, t) \in [Offsets -> Byte] /\ Header(Insert(buf, t))
<1>1. PICK new : new = Insert(buf, t) OBVIOUS
<1>2. PICK low \in Nat, high \in Nat, n \in Nat, len \in Nat :
        low = Lower(buf) /\ high = Upper(buf) /\ n = NSlots(buf) /\ len = Len(t)
    BY NumbersOfPage
<1>3. high - low - 4 >= len /\ low >= 64 /\ high = PAGE_SIZE - (4 * n)
    BY <1>2 DEF Fits, FreeSpace, Header
<1>4. high <= PAGE_SIZE /\ n + 1 < 65536 BY <1>3, PageSizeFacts
<1>5. PICK dir \in Nat : dir = high - 4 BY <1>3
<1>6. new = WriteU16(WriteU16(WriteU16(WriteU16(WriteU16(
                WriteField(buf, low, len, t), dir, low), dir + 2, len),
                20, low + len), 22, dir), 18, n + 1)
    BY <1>1, <1>2, <1>5 DEF Insert
<1>7. new \in [Offsets -> Byte]
    <2>1. WriteField(buf, low, len, t) \in [Offsets -> Byte]
        <3>1. len <= Len(t) BY <1>2
        <3> QED BY <3>1, WriteFieldTyped
    <2>2. dir + 2 \in Nat /\ low + len \in Nat /\ n + 1 \in Nat OBVIOUS
    <2> QED BY <1>6, <2>1, <2>2, WriteU16Typed, 18 \in Nat, 20 \in Nat, 22 \in Nat
<1>8. IsInserted(new, buf, t)
    <2>1. DOMAIN buf = Offsets OBVIOUS
    <2>2. PAGE_HEADER_SIZE <= Lower(buf) BY <1>2, <1>3 DEF PAGE_HEADER_SIZE
    <2>3. NSlots(buf) \in Nat /\ NSlots(buf) + 1 < 65536 BY <1>2, <1>4
    <2>4. Lower(buf) \in Nat /\ Upper(buf) \in Nat /\ Upper(buf) <= PAGE_SIZE
        BY <1>2, <1>4
    <2> QED BY <1>1, <2>1, <2>2, <2>3, <2>4, InsertBytes
<1>9. HasMagic(new)
    <2>1. \A i \in Offsets : i < 18 => new[i] = buf[i] BY <1>8 DEF IsInserted
    <2>2. \A i \in Offsets : i < 4 => new[i] = buf[i] BY <2>1, OffsetsAre
    <2>3. DOMAIN buf = Offsets /\ DOMAIN new = Offsets BY <1>7
    <2> QED BY <2>2, <2>3, MagicKept DEF Header
<1>10. Lower(new) = low + len /\ Upper(new) = high - 4 /\ NSlots(new) = n + 1
    BY <1>2, <1>8 DEF IsInserted
<1>11. low + len >= 64 /\ high - 4 = PAGE_SIZE - (4 * (n + 1)) BY <1>3, PageSizeFacts
<1> QED BY <1>1, <1>7, <1>9, <1>10, <1>11 DEF Header

LEMMA EmptyHeader == Header(Empty)
<1>1. Layout(Empty, <<>>) BY EmptyHasLayout
<1>2. <<>> \in Seq(Seq(Byte)) /\ Len(<<>>) = 0 OBVIOUS
<1>3. Lower(Empty) >= 64 /\ NSlots(Empty) = 0 /\ Upper(Empty) = PAGE_SIZE - (4 * 0)
    BY <1>1, <1>2, LayoutBounds
<1> QED BY <1>3, EmptyIsPage DEF Header

-----------------------------------------------------------------------------
(* Sequences of rows. *)

LEMMA TupleTyped == \A row \in Rows : Tuple[row] \in Seq(Byte)
BY PageFileAssumption, EncodeTyped DEF Tuple

LEMMA EncodedTyped == \A rs \in Seq(Rows) : Encoded(rs) \in Seq(Seq(Byte))
<1> TAKE rs \in Seq(Rows)
<1>1. \A k \in 1 .. Len(rs) : Tuple[rs[k]] \in Seq(Byte) BY TupleTyped
<1>2. Encoded(rs) = [k \in 1 .. Len(rs) |-> Tuple[rs[k]]] BY DEF Encoded
<1> QED BY <1>1, <1>2

LEMMA EncodedAppend ==
    ASSUME NEW rs \in Seq(Rows), NEW row \in Rows
    PROVE  Encoded(Append(rs, row)) = Append(Encoded(rs), Tuple[row])
<1>0. Append(rs, row) \in Seq(Rows) OBVIOUS
<1>1. PICK new \in Seq(Rows) : new = Append(rs, row) BY <1>0
<1>2. PICK n \in Nat : n = Len(rs) OBVIOUS
<1>3. /\ Len(new) = n + 1 /\ new[n + 1] = row /\ \A k \in 1 .. n : new[k] = rs[k]
    BY <1>1, <1>2
<1>4. Encoded(new) = [k \in 1 .. n + 1 |-> Tuple[new[k]]] BY <1>3 DEF Encoded
<1>5. Encoded(rs) = [k \in 1 .. n |-> Tuple[rs[k]]] BY <1>2 DEF Encoded
<1>6. PICK old \in Seq(Seq(Byte)) : old = Encoded(rs) /\ Len(old) = n
    BY <1>5, <1>2, EncodedTyped
<1>7. PICK t \in Seq(Byte) : t = Tuple[row] BY TupleTyped
<1>8. PICK app \in Seq(Seq(Byte)) : app = Append(old, t)
    <2>1. Append(old, t) \in Seq(Seq(Byte)) OBVIOUS
    <2> QED BY <2>1
<1>9. /\ Len(app) = n + 1 /\ app[n + 1] = t
      /\ \A k \in 1 .. n : app[k] = old[k]
    BY <1>6, <1>8
<1>10. app = [k \in 1 .. n + 1 |-> app[k]] BY <1>9
<1>11. \A k \in 1 .. n + 1 : Tuple[new[k]] = app[k]
    <2> TAKE k \in 1 .. n + 1
    <2>1. CASE k = n + 1 BY <2>1, <1>3, <1>7, <1>9
    <2>2. CASE k # n + 1
        <3>1. k \in 1 .. n BY <2>2
        <3>2. new[k] = rs[k] /\ app[k] = old[k] BY <3>1, <1>3, <1>9
        <3>3. old[k] = Tuple[rs[k]] BY <3>1, <1>5, <1>6
        <3> QED BY <3>2, <3>3
    <2> QED BY <2>1, <2>2
<1>12. Encoded(new) = app BY <1>4, <1>10, <1>11
<1> QED BY <1>1, <1>6, <1>7, <1>8, <1>12

LEMMA NoRows == <<>> \in Seq(Rows) /\ Encoded(<<>>) = <<>>
BY DEF Encoded

LEMMA WithFacts ==
    ASSUME NEW f, NEW k, NEW v
    PROVE  /\ DOMAIN With(f, k, v) = DOMAIN f \cup {k}
           /\ With(f, k, v)[k] = v
           /\ \A x \in DOMAIN f \cup {k} : x # k => With(f, k, v)[x] = f[x]
           /\ With(f, k, v) = [x \in DOMAIN f \cup {k} |-> With(f, k, v)[x]]
BY DEF With

-----------------------------------------------------------------------------
(* The inductive invariant.  What LayoutOK says of the pages in memory has  *)
(* to hold of the file and of the durable file too, or the next Get or the  *)
(* next power loss would break it; and verify is exact because a page that  *)
(* is not mixed has the mark and the checksum, while a mixture has not both.*)

Whole(page) == HasMagic(page.buf) /\ CrcMatches(page)

SoundPages(pages, rs, bad) ==
    \A id \in DOMAIN pages \ bad : Layout(pages[id].buf, Encoded(rs[id]))

Headed(pages) ==
    \A id \in DOMAIN pages : HasMagic(pages[id].buf) => Header(pages[id].buf)

\* One power loss leaves no page whole of which it wrote a part only.
Known(pages, bad, losses) ==
    \A id \in DOMAIN pages : /\ id \notin bad => Whole(pages[id])
                             /\ losses <= 1 /\ id \in bad => ~Whole(pages[id])

IInv ==
    /\ TypeOK
    /\ SoundPages(pool, rows, tainted)
    /\ SoundPages(file, filed, tainted)
    /\ SoundPages(durable, synced, tainted)
    /\ \A id \in DOMAIN pool : Header(pool[id].buf)
    /\ Headed(file) /\ Headed(durable)
    /\ Known(file, mixed, done.losses) /\ Known(durable, torn, done.losses)
    /\ done.losses = 0 => mixed = {} /\ torn = {}

\* Counting something else does not count a power loss.
LEMMA DoesOther ==
    ASSUME TypeOK, NEW what \in {"inserts", "sets", "fresh", "writes"}, Does(what)
    PROVE  /\ done' \in [{"inserts", "sets", "fresh", "writes", "losses"} -> Nat]
           /\ done'.losses = done.losses
<1>1. done \in [{"inserts", "sets", "fresh", "writes", "losses"} -> Nat] BY DEF TypeOK
<1>2. done' = [done EXCEPT ![what] = done[what] + 1] BY DEF Does
<1>3. done[what] + 1 \in Nat BY <1>1
<1> QED BY <1>1, <1>2, <1>3

LEMMA PageTyped == \A buf \in [Offsets -> Byte] : Page(buf) \in PageSet
BY DEF Page, PageSet

\* A page that alloc returns: empty, whole, with its header
LEMMA AllocFacts ==
    ASSUME NEW id \in Nat, NEW ty \in DOMAIN TypeCode
    PROVE  /\ Page(AllocBuf(id, ty)) \in PageSet
           /\ Page(AllocBuf(id, ty)).buf = AllocBuf(id, ty)
           /\ Whole(Page(AllocBuf(id, ty)))
           /\ Header(AllocBuf(id, ty))
           /\ Layout(AllocBuf(id, ty), Encoded(<<>>))
<1>1. PICK buf : buf = AllocBuf(id, ty) OBVIOUS
<1>2. Carries(buf, Empty) BY <1>1, AllocIsPage
<1>3. buf \in [Offsets -> Byte] /\ Header(buf) BY <1>2, EmptyHeader DEF Carries
<1>4. <<>> \in Seq(Seq(Byte)) OBVIOUS
<1>5. Layout(buf, Encoded(<<>>)) BY <1>2, <1>4, EmptyHasLayout, NoRows DEF Carries
<1>6. Page(buf) \in PageSet /\ Page(buf).buf = buf /\ CrcMatches(Page(buf))
    BY <1>3 DEF Page, PageSet, CrcMatches
<1> QED BY <1>1, <1>3, <1>5, <1>6 DEF Whole, Header

\* The kinds of the rows of a setup are types of pages.
LEMMA KindsAreTypes ==
    ASSUME setup \in Setups
    PROVE  KindsUsed \subseteq DOMAIN TypeCode /\ setup.rows \subseteq Rows
<1>1. setup.rows \subseteq Rows BY PageFileAssumption
<1>2. \A row \in Rows : row.kind \in Kinds BY PageFileAssumption, RowKinds
<1>3. Kinds \subseteq DOMAIN TypeCode BY DEF Kinds, TypeCode
<1> QED BY <1>1, <1>2, <1>3 DEF KindsUsed

-----------------------------------------------------------------------------
(* The initial states, and the steps. *)

LEMMA InitIInv == Init => IInv
<1> SUFFICES ASSUME Init PROVE IInv OBVIOUS
<1>1. DOMAIN file = {} /\ DOMAIN durable = {} /\ DOMAIN pool = {} BY DEF Init
<1>2. 0 .. count - 1 = {} BY DEF Init
<1>3. done \in [{"inserts", "sets", "fresh", "writes", "losses"} -> Nat] BY DEF Init
<1>4. /\ file \in [{} -> PageSet] /\ filed \in [{} -> Seq(Rows)]
      /\ durable \in [{} -> PageSet] /\ synced \in [{} -> Seq(Rows)]
      /\ pool \in [{} -> PageSet] /\ rows \in [{} -> Seq(Rows)]
    BY DEF Init
<1>5. TypeOK
    <2>1. count \in Nat /\ up \in BOOLEAN /\ setup \in Setups BY DEF Init
    <2>2. mixed = {} /\ torn = {} BY DEF Init
    <2> QED BY <1>1, <1>2, <1>3, <1>4, <2>1, <2>2 DEF TypeOK
<1>6. mixed = {} /\ torn = {} BY DEF Init
<1> QED BY <1>1, <1>5, <1>6 DEF IInv, SoundPages, Headed, Known

\* One page in memory is exchanged for another.
LEMMA PoolChange ==
    ASSUME IInv,
           UNCHANGED <<file, count, durable, up, filed, synced, mixed, torn, tainted, setup>>,
           done' \in [{"inserts", "sets", "fresh", "writes", "losses"} -> Nat],
           done'.losses = done.losses,
           NEW id \in DOMAIN pool, NEW page \in PageSet, NEW rs \in Seq(Rows),
           pool' = [pool EXCEPT ![id] = page], rows' = [rows EXCEPT ![id] = rs],
           Header(page.buf), id \notin tainted => Layout(page.buf, Encoded(rs))
    PROVE  IInv'
<1>1. TypeOK BY DEF IInv
<1>2. DOMAIN pool' = DOMAIN pool BY <1>1 DEF TypeOK
<1>3. /\ \A x \in DOMAIN pool : x # id => pool'[x] = pool[x] /\ rows'[x] = rows[x]
      /\ pool'[id] = page /\ rows'[id] = rs
    BY <1>1 DEF TypeOK
<1>4. pool' \in [DOMAIN pool' -> PageSet] /\ rows' \in [DOMAIN pool' -> Seq(Rows)]
    BY <1>1, <1>2 DEF TypeOK
<1>5. TypeOK' BY <1>1, <1>2, <1>4 DEF TypeOK
<1>6. SoundPages(pool', rows', tainted) BY <1>2, <1>3 DEF IInv, SoundPages
<1>7. \A x \in DOMAIN pool' : Header(pool'[x].buf) BY <1>2, <1>3 DEF IInv
<1> QED BY <1>5, <1>6, <1>7 DEF IInv

LEMMA BufChange ==
    ASSUME TypeOK, NEW id \in DOMAIN pool, NEW buf \in [Offsets -> Byte],
           pool' = [pool EXCEPT ![id].buf = buf]
    PROVE  \E page \in PageSet : pool' = [pool EXCEPT ![id] = page] /\ page.buf = buf
<1>1. pool[id] \in PageSet BY DEF TypeOK
<1>2. PICK page : page = [pool[id] EXCEPT !.buf = buf] OBVIOUS
<1>3. page \in PageSet /\ page.buf = buf BY <1>1, <1>2 DEF PageSet
<1>4. pool' = [pool EXCEPT ![id] = page] BY <1>2
<1> QED BY <1>3, <1>4

LEMMA InsertRowStep ==
    ASSUME IInv, NEW id \in DOMAIN pool, NEW row \in setup.rows, InsertRow(id, row)
    PROVE  IInv'
<1>1. TypeOK /\ row \in Rows BY KindsAreTypes DEF IInv, TypeOK
<1>2. pool[id].buf \in [Offsets -> Byte] /\ rows[id] \in Seq(Rows)
    BY <1>1 DEF TypeOK, PageSet
<1>a. PICK buf : buf = pool[id].buf OBVIOUS
<1>b. PICK t \in Seq(Byte) : t = Tuple[row] BY <1>1, TupleTyped
<1>3. buf = pool[id].buf /\ t = Tuple[row] BY <1>a, <1>b
<1>4. Fits(buf, t) /\ Header(buf) BY <1>3 DEF InsertRow, IInv
<1>5. Insert(buf, t) \in [Offsets -> Byte] /\ Header(Insert(buf, t))
    BY <1>2, <1>3, <1>4, InsertIsPage
<1>6. pool' = [pool EXCEPT ![id].buf = Insert(buf, t)] BY <1>3 DEF InsertRow
<1>7. PICK page \in PageSet : pool' = [pool EXCEPT ![id] = page] /\ page.buf = Insert(buf, t)
    BY <1>1, <1>5, <1>6, BufChange
<1>8. PICK rs \in Seq(Rows) : rs = Append(rows[id], row)
    <2>1. Append(rows[id], row) \in Seq(Rows) BY <1>1, <1>2
    <2> QED BY <2>1
<1>9. rows' = [rows EXCEPT ![id] = rs] BY <1>8 DEF InsertRow
<1>10. ASSUME id \notin tainted PROVE Layout(page.buf, Encoded(rs))
    <2>1. Layout(buf, Encoded(rows[id])) BY <1>3, <1>10 DEF IInv, SoundPages
    <2>2. Encoded(rows[id]) \in Seq(Seq(Byte)) BY <1>2, EncodedTyped
    <2>3. Layout(Insert(buf, t), Append(Encoded(rows[id]), t))
        BY <2>1, <2>2, <1>4, InsertKeepsLayout
    <2> QED BY <2>3, <1>1, <1>2, <1>3, <1>7, <1>8, EncodedAppend
<1>11. /\ done' \in [{"inserts", "sets", "fresh", "writes", "losses"} -> Nat]
       /\ done'.losses = done.losses
    BY <1>1, DoesOther DEF InsertRow
<1>12. UNCHANGED <<file, count, durable, up, filed, synced, mixed, torn, tainted, setup>>
    BY DEF InsertRow
<1> QED BY <1>5, <1>7, <1>9, <1>10, <1>11, <1>12, PoolChange

LEMMA SetHeaderStep ==
    ASSUME IInv, NEW id \in DOMAIN pool, NEW field \in Fields, SetHeader(id, field)
    PROVE  IInv'
<1>1. TypeOK BY DEF IInv
<1>2. pool[id].buf \in [Offsets -> Byte] /\ rows[id] \in Seq(Rows)
    BY <1>1 DEF TypeOK, PageSet
<1>3. PICK buf : buf = pool[id].buf OBVIOUS
<1>4. field \in Seq(Byte) /\ Len(field) >= 8 /\ Len(field) >= 4
    <2>1. field \in Seq(Byte) /\ Len(field) = 8 BY PageFileAssumption
    <2> QED BY <2>1
<1>5. PICK set \in {SetLsn(buf, field), SetNext(buf, field),
                    WriteI64At32(buf, field), WriteU32At32(buf, field)} :
        pool' = [pool EXCEPT ![id].buf = set]
    BY <1>3 DEF SetHeader
<1>6. Carries(set, buf) BY <1>2, <1>3, <1>4, <1>5, SettersCarry
<1>7. set \in [Offsets -> Byte] /\ Header(set) BY <1>3, <1>6 DEF Carries, IInv
<1>8. PICK page \in PageSet : pool' = [pool EXCEPT ![id] = page] /\ page.buf = set
    BY <1>1, <1>5, <1>7, BufChange
<1>9. rows' = [rows EXCEPT ![id] = rows[id]] BY <1>1 DEF SetHeader, TypeOK
<1>10. ASSUME id \notin tainted PROVE Layout(page.buf, Encoded(rows[id]))
    <2>1. Layout(buf, Encoded(rows[id])) BY <1>3, <1>10 DEF IInv, SoundPages
    <2>2. Encoded(rows[id]) \in Seq(Seq(Byte)) BY <1>2, EncodedTyped
    <2> QED BY <2>1, <2>2, <1>6, <1>8 DEF Carries
<1>11. /\ done' \in [{"inserts", "sets", "fresh", "writes", "losses"} -> Nat]
       /\ done'.losses = done.losses
    BY <1>1, DoesOther DEF SetHeader
<1>12. UNCHANGED <<file, count, durable, up, filed, synced, mixed, torn, tainted, setup>>
    BY DEF SetHeader
<1> QED BY <1>2, <1>7, <1>8, <1>9, <1>10, <1>11, <1>12, PoolChange

LEMMA MakeFreshStep ==
    ASSUME IInv, NEW id \in DOMAIN pool, NEW ty \in KindsUsed, MakeFresh(id, ty)
    PROVE  IInv'
<1>1. TypeOK BY DEF IInv
<1>2. id \in Nat
    <2>1. id \in 0 .. count - 1 /\ count \in Nat BY <1>1 DEF TypeOK
    <2> QED BY <2>1
<1>3. ty \in DOMAIN TypeCode BY <1>1, KindsAreTypes DEF TypeOK
<1>4. PICK page \in PageSet : page = Page(AllocBuf(id, ty)) BY <1>2, <1>3, AllocFacts
<1>5. Header(page.buf) /\ Layout(page.buf, Encoded(<<>>)) BY <1>2, <1>3, <1>4, AllocFacts
<1>6. pool' = [pool EXCEPT ![id] = page] /\ rows' = [rows EXCEPT ![id] = <<>>]
    BY <1>4 DEF MakeFresh
<1>7. /\ done' \in [{"inserts", "sets", "fresh", "writes", "losses"} -> Nat]
      /\ done'.losses = done.losses
    BY <1>1, DoesOther DEF MakeFresh
<1>8. UNCHANGED <<file, count, durable, up, filed, synced, mixed, torn, tainted, setup>>
    BY DEF MakeFresh
<1> QED BY <1>5, <1>6, <1>7, <1>8, NoRows, PoolChange

\* The file gets a page at its end.
LEMMA FileGrows ==
    ASSUME IInv, NEW page \in PageSet, Whole(page), Header(page.buf),
           Layout(page.buf, Encoded(<<>>)),
           file' = With(file, count, page), filed' = With(filed, count, <<>>),
           count' = count + 1
    PROVE  /\ count' \in Nat /\ file' \in [0 .. count' - 1 -> PageSet]
           /\ filed' \in [DOMAIN file' -> Seq(Rows)] /\ DOMAIN file \subseteq DOMAIN file'
           /\ SoundPages(file', filed', tainted) /\ Headed(file')
           /\ Known(file', mixed, done.losses)
<1>1. TypeOK BY DEF IInv
<1>2. /\ count \in Nat /\ DOMAIN file = 0 .. count - 1 /\ DOMAIN filed = DOMAIN file
      /\ mixed \subseteq DOMAIN file
    BY <1>1 DEF TypeOK
<1>3. DOMAIN file' = DOMAIN file \cup {count} /\ DOMAIN filed' = DOMAIN file \cup {count}
    <2>1. DOMAIN file' = DOMAIN file \cup {count} BY DEF With
    <2>2. DOMAIN filed' = DOMAIN filed \cup {count} BY DEF With
    <2> QED BY <1>2, <2>1, <2>2
<1>4. DOMAIN file' = 0 .. count' - 1 /\ count \notin DOMAIN file /\ count' \in Nat
    BY <1>2, <1>3
<1>5. /\ file'[count] = page /\ filed'[count] = <<>>
      /\ \A id \in DOMAIN file : file'[id] = file[id] /\ filed'[id] = filed[id]
    BY <1>2, <1>4 DEF With
<1>6. /\ file' = [x \in DOMAIN file' |-> file'[x]] /\ filed' = [x \in DOMAIN file' |-> filed'[x]]
    BY <1>2, <1>3 DEF With
<1>7. /\ \A id \in DOMAIN file' : file'[id] \in PageSet /\ filed'[id] \in Seq(Rows)
    BY <1>1, <1>3, <1>5, NoRows DEF TypeOK
<1>8. file' \in [0 .. count' - 1 -> PageSet] /\ filed' \in [DOMAIN file' -> Seq(Rows)]
    BY <1>4, <1>6, <1>7
<1>9. SoundPages(file', filed', tainted) BY <1>3, <1>5 DEF IInv, SoundPages
<1>10. Headed(file') BY <1>3, <1>5 DEF IInv, Headed
<1>11. Known(file', mixed, done.losses)
    BY <1>2, <1>3, <1>4, <1>5 DEF IInv, Known
<1> QED BY <1>3, <1>4, <1>8, <1>9, <1>10, <1>11

LEMMA OpenHeapStep == ASSUME IInv, OpenHeap PROVE IInv'
<1>1. TypeOK BY DEF IInv
<1>2. /\ up' = TRUE
      /\ UNCHANGED <<pool, rows, mixed, tainted, setup, done>>
    BY DEF OpenHeap
<1>3. CASE count = 0
    <2>1. "super" \in DOMAIN TypeCode /\ 0 \in Nat BY DEF TypeCode
    <2>2. PICK page \in PageSet : page = Page(AllocBuf(0, "super")) BY <2>1, AllocFacts
    <2>3. Whole(page) /\ Header(page.buf) /\ Layout(page.buf, Encoded(<<>>))
        BY <2>1, <2>2, AllocFacts
    <2>4. /\ file' = With(file, count, page) /\ filed' = With(filed, count, <<>>)
          /\ count' = count + 1
          /\ durable' = file' /\ synced' = filed' /\ torn' = mixed
        BY <1>3, <2>2 DEF OpenHeap
    <2>5. /\ count' \in Nat /\ file' \in [0 .. count' - 1 -> PageSet]
          /\ filed' \in [DOMAIN file' -> Seq(Rows)] /\ DOMAIN file \subseteq DOMAIN file'
          /\ SoundPages(file', filed', tainted) /\ Headed(file')
          /\ Known(file', mixed, done.losses)
        BY <2>3, <2>4, FileGrows
    <2>6. TypeOK' BY <1>1, <1>2, <2>4, <2>5 DEF TypeOK
    <2> QED BY <1>2, <2>4, <2>5, <2>6 DEF IInv
<1>4. CASE count # 0
    <2>1. UNCHANGED <<file, count, durable, filed, synced, torn>> BY <1>4 DEF OpenHeap
    <2>2. TypeOK' BY <1>1, <1>2, <2>1 DEF TypeOK
    <2> QED BY <1>2, <2>1, <2>2 DEF IInv
<1> QED BY <1>3, <1>4

LEMMA AppendPageStep ==
    ASSUME IInv, NEW ty \in KindsUsed, AppendPage(ty) PROVE IInv'
<1>1. TypeOK BY DEF IInv
<1>2. ty \in DOMAIN TypeCode /\ count \in Nat BY <1>1, KindsAreTypes DEF TypeOK
<1>3. PICK page \in PageSet : page = Page(AllocBuf(count, ty)) BY <1>2, AllocFacts
<1>4. Whole(page) /\ Header(page.buf) /\ Layout(page.buf, Encoded(<<>>))
    BY <1>2, <1>3, AllocFacts
<1>5. /\ file' = With(file, count, page) /\ filed' = With(filed, count, <<>>)
      /\ count' = count + 1
      /\ UNCHANGED <<durable, up, pool, rows, synced, mixed, torn, tainted, setup, done>>
    BY <1>3 DEF AppendPage
<1>6. /\ count' \in Nat /\ file' \in [0 .. count' - 1 -> PageSet]
      /\ filed' \in [DOMAIN file' -> Seq(Rows)] /\ DOMAIN file \subseteq DOMAIN file'
      /\ SoundPages(file', filed', tainted) /\ Headed(file')
      /\ Known(file', mixed, done.losses)
    BY <1>4, <1>5, FileGrows
<1>7. TypeOK' BY <1>1, <1>5, <1>6 DEF TypeOK
<1> QED BY <1>5, <1>6, <1>7 DEF IInv

LEMMA WriteBackStep ==
    ASSUME IInv, NEW id \in DOMAIN pool, WriteBack(id) PROVE IInv'
<1>1. TypeOK BY DEF IInv
<1>2. pool[id].buf \in [Offsets -> Byte] /\ id \in DOMAIN file BY <1>1 DEF TypeOK, PageSet
<1>3. PICK page \in PageSet : page = Page(pool[id].buf) BY <1>2, PageTyped
<1>4. page.buf = pool[id].buf /\ CrcMatches(page) BY <1>3 DEF Page, CrcMatches
<1>5. Header(page.buf) /\ Whole(page) BY <1>4 DEF IInv, Whole, Header
<1>6. /\ pool' = [pool EXCEPT ![id] = page] /\ file' = [file EXCEPT ![id] = page]
      /\ filed' = [filed EXCEPT ![id] = rows[id]] /\ mixed' = mixed \ {id}
      /\ UNCHANGED <<count, durable, up, rows, synced, torn, tainted, setup>>
    BY <1>3 DEF WriteBack, WritePage
<1>7. /\ done' \in [{"inserts", "sets", "fresh", "writes", "losses"} -> Nat]
      /\ done'.losses = done.losses
    BY <1>1, DoesOther DEF WriteBack
<1>8. /\ DOMAIN pool' = DOMAIN pool /\ DOMAIN file' = DOMAIN file
      /\ DOMAIN filed' = DOMAIN file /\ DOMAIN rows = DOMAIN pool
    BY <1>1, <1>6 DEF TypeOK
<1>9. /\ pool'[id] = page /\ file'[id] = page /\ filed'[id] = rows[id]
      /\ \A x \in DOMAIN pool : x # id => pool'[x] = pool[x]
      /\ \A x \in DOMAIN file : x # id => file'[x] = file[x] /\ filed'[x] = filed[x]
    BY <1>1, <1>2, <1>6 DEF TypeOK
<1>10. TypeOK'
    <2>1. pool' \in [DOMAIN pool' -> PageSet] BY <1>1, <1>6 DEF TypeOK
    <2>2. file' \in [0 .. count' - 1 -> PageSet] BY <1>1, <1>6 DEF TypeOK
    <2>3. filed' \in [DOMAIN file' -> Seq(Rows)] BY <1>1, <1>6, <1>8 DEF TypeOK
    <2> QED BY <1>1, <1>6, <1>7, <1>8, <2>1, <2>2, <2>3 DEF TypeOK
<1>11. SoundPages(pool', rows, tainted) BY <1>4, <1>8, <1>9 DEF IInv, SoundPages
<1>12. SoundPages(file', filed', tainted)
    <2> SUFFICES ASSUME NEW x \in DOMAIN file \ tainted
                 PROVE  Layout(file'[x].buf, Encoded(filed'[x]))
        BY <1>8 DEF SoundPages
    <2>1. CASE x = id BY <2>1, <1>4, <1>9 DEF IInv, SoundPages
    <2>2. CASE x # id BY <2>2, <1>9 DEF IInv, SoundPages
    <2> QED BY <2>1, <2>2
<1>13. \A x \in DOMAIN pool' : Header(pool'[x].buf) BY <1>5, <1>8, <1>9 DEF IInv
<1>14. Headed(file') BY <1>5, <1>8, <1>9 DEF IInv, Headed
<1>15. Known(file', mixed', done.losses) BY <1>5, <1>6, <1>8, <1>9 DEF IInv, Known
<1>16. done.losses = 0 => mixed' = {} /\ torn = {} BY <1>6 DEF IInv
<1> QED BY <1>6, <1>7, <1>10, <1>11, <1>12, <1>13, <1>14, <1>15, <1>16 DEF IInv

LEMMA SyncStep == ASSUME IInv, Sync PROVE IInv'
<1>1. TypeOK BY DEF IInv
<1>2. /\ durable' = file /\ synced' = filed /\ torn' = mixed
      /\ UNCHANGED <<file, count, up, pool, rows, filed, mixed, tainted, setup, done>>
    BY DEF Sync
<1>3. TypeOK' BY <1>1, <1>2 DEF TypeOK
<1> QED BY <1>2, <1>3 DEF IInv

LEMMA GetStep == ASSUME IInv, NEW id \in DOMAIN file, Get(id) PROVE IInv'
<1>1. TypeOK BY DEF IInv
<1>2. /\ pool' = With(pool, id, file[id]) /\ rows' = With(rows, id, filed[id])
      /\ id \notin DOMAIN pool /\ HasMagic(file[id].buf)
      /\ UNCHANGED <<file, count, durable, up, filed, synced, mixed, torn, tainted, setup, done>>
    BY DEF Get, ReadOk
<1>3. DOMAIN rows = DOMAIN pool /\ file[id] \in PageSet /\ filed[id] \in Seq(Rows)
    BY <1>1 DEF TypeOK
<1>4. /\ DOMAIN pool' = DOMAIN pool \cup {id} /\ DOMAIN rows' = DOMAIN pool \cup {id}
      /\ pool'[id] = file[id] /\ rows'[id] = filed[id]
      /\ \A x \in DOMAIN pool : pool'[x] = pool[x] /\ rows'[x] = rows[x]
      /\ pool' = [x \in DOMAIN pool' |-> pool'[x]] /\ rows' = [x \in DOMAIN pool' |-> rows'[x]]
    BY <1>2, <1>3 DEF With
<1>5. \A x \in DOMAIN pool' : pool'[x] \in PageSet /\ rows'[x] \in Seq(Rows)
    BY <1>1, <1>3, <1>4 DEF TypeOK
<1>6. pool' \in [DOMAIN pool' -> PageSet] /\ rows' \in [DOMAIN pool' -> Seq(Rows)]
    BY <1>4, <1>5
<1>7. TypeOK' BY <1>1, <1>2, <1>4, <1>6 DEF TypeOK
<1>8. SoundPages(pool', rows', tainted) BY <1>4 DEF IInv, SoundPages
<1>9. \A x \in DOMAIN pool' : Header(pool'[x].buf) BY <1>2, <1>4 DEF IInv, Headed
<1> QED BY <1>2, <1>7, <1>8, <1>9 DEF IInv

LEMMA ExitStep == ASSUME IInv, Exit PROVE IInv'
<1>1. TypeOK BY DEF IInv
<1>2. /\ up' = FALSE /\ pool' = <<>> /\ rows' = <<>>
      /\ UNCHANGED <<file, count, durable, filed, synced, mixed, torn, tainted, setup, done>>
    BY DEF Exit, Gone
<1>3. DOMAIN pool' = {} /\ pool' \in [{} -> PageSet] /\ rows' \in [{} -> Seq(Rows)] BY <1>2
<1>4. TypeOK' BY <1>1, <1>2, <1>3 DEF TypeOK
<1> QED BY <1>2, <1>3, <1>4 DEF IInv, SoundPages

-----------------------------------------------------------------------------
(* Power losses. *)

\* What a sector holds is from one page: the header, which with the mark and the
\* checksum is in the first.
LEMMA MixtureFacts ==
    ASSUME NEW old \in PageSet, NEW new \in PageSet, NEW kept \in SUBSET Sectors,
           NEW mix, mix = Mixture(old, new, kept)
    PROVE  /\ mix \in PageSet
           /\ 0 \in kept => /\ mix.crc = new.crc
                            /\ HasMagic(mix.buf) <=> HasMagic(new.buf)
                            /\ Header(mix.buf) <=> Header(new.buf)
           /\ 0 \notin kept => /\ mix.crc = old.crc
                               /\ HasMagic(mix.buf) <=> HasMagic(old.buf)
                               /\ Header(mix.buf) <=> Header(old.buf)
<1>1. /\ old.buf \in [Offsets -> Byte] /\ old.crc \in [Offsets -> Byte]
      /\ new.buf \in [Offsets -> Byte] /\ new.crc \in [Offsets -> Byte]
    BY DEF PageSet
<1>2. mix = [buf |-> mix.buf, crc |-> mix.crc] BY DEF Mixture
<1>3. mix.buf = [i \in Offsets |-> IF i \div SectorSize \in kept THEN new.buf[i] ELSE old.buf[i]]
    BY DEF Mixture
<1>4. mix.crc = IF 0 \in kept THEN new.crc ELSE old.crc BY DEF Mixture
<1>5. mix.buf \in [Offsets -> Byte] BY <1>1, <1>3
<1>6. mix \in PageSet BY <1>1, <1>2, <1>4, <1>5 DEF PageSet
<1>7. SectorSize \in Nat /\ SectorSize >= 36
    <2>1. PICK n \in 36 .. PAGE_SIZE : n = SectorSize BY PageFileAssumption
    <2> QED BY <2>1, PageSizeFacts
<1>8. \A i \in Offsets : (i < 4 \/ i \in 18 .. 23) => i \div SectorSize = 0
    <2> SUFFICES ASSUME NEW i \in Offsets, i < 4 \/ i \in 18 .. 23
                 PROVE  i \div SectorSize = 0
        OBVIOUS
    <2>1. i \in Nat /\ i < SectorSize BY <1>7, OffsetsAre
    <2> QED BY <2>1, <1>7, SmallQuotient
<1>9. ASSUME 0 \in kept
      PROVE  HasMagic(mix.buf) <=> HasMagic(new.buf)
    <2>1. \A i \in Offsets : (i < 4 \/ i \in 18 .. 23) => mix.buf[i] = new.buf[i]
        BY <1>3, <1>8, <1>9
    <2> QED BY <1>1, <1>5, <2>1, HeaderKept
<1>10. ASSUME 0 \in kept PROVE Header(mix.buf) <=> Header(new.buf)
    <2>1. \A i \in Offsets : (i < 4 \/ i \in 18 .. 23) => mix.buf[i] = new.buf[i]
        BY <1>3, <1>8, <1>10
    <2> QED BY <1>1, <1>5, <2>1, HeaderKept
<1>11. ASSUME 0 \notin kept
       PROVE  /\ HasMagic(mix.buf) <=> HasMagic(old.buf)
              /\ Header(mix.buf) <=> Header(old.buf)
    <2>1. \A i \in Offsets : (i < 4 \/ i \in 18 .. 23) => mix.buf[i] = old.buf[i]
        BY <1>3, <1>8, <1>11
    <2> QED BY <1>1, <1>5, <2>1, HeaderKept
<1> QED BY <1>4, <1>6, <1>9, <1>10, <1>11

LEMMA BlankFacts == Page(Blank) \in PageSet /\ ~HasMagic(Blank) /\ Page(Blank).buf = Blank
<1>1. Blank \in [Offsets -> Byte] BY DEF Blank, Byte
<1>2. Page(Blank) \in PageSet BY <1>1, PageTyped
<1>3. 0 \in Offsets BY OffsetsAre, PageSizeFacts
<1>4. ReadField(Blank, 0, 4)[1] = 0
    <2>1. 1 \in 1 .. 4 /\ 0 + 1 - 1 = 0 OBVIOUS
    <2> QED BY <1>3, <2>1 DEF ReadField, Blank
<1>5. PAGE_MAGIC[1] = 78 BY DEF PAGE_MAGIC
<1>6. ~HasMagic(Blank) BY <1>4, <1>5 DEF HasMagic
<1> QED BY <1>2, <1>6 DEF Page

LEMMA SamePage ==
    ASSUME NEW a \in PageSet, NEW b \in PageSet, a.buf = b.buf, a.crc = b.crc
    PROVE  a = b
BY DEF PageSet

\* What an interrupted write leaves is neither version, and not a whole page: the
\* checksum of one version fits no other content.
LEMMA MixtureNotWhole ==
    ASSUME NEW old \in PageSet, NEW new \in PageSet, NEW kept \in SUBSET Sectors,
           NEW mix, mix = Mixture(old, new, kept), CrcMatches(old), CrcMatches(new),
           mix # new, mix # old \/ ~HasMagic(old.buf)
    PROVE  ~Whole(mix)
<1>1. mix \in PageSet BY MixtureFacts
<1>2. SUFFICES ASSUME Whole(mix) PROVE FALSE OBVIOUS
<1>3. mix.crc = mix.buf /\ HasMagic(mix.buf) BY <1>2 DEF Whole, CrcMatches
<1>4. CASE 0 \in kept
    <2>1. mix.crc = new.crc BY <1>4 DEF Mixture
    <2>2. new.crc = new.buf BY DEF CrcMatches
    <2> QED BY <1>1, <1>3, <2>1, <2>2, SamePage
<1>5. CASE 0 \notin kept
    <2>1. mix.crc = old.crc /\ old.crc = old.buf /\ HasMagic(old.buf)
        BY <1>3, <1>5, MixtureFacts DEF CrcMatches
    <2> QED BY <1>1, <1>3, <2>1, SamePage
<1> QED BY <1>4, <1>5

LEMMA OldFacts ==
    ASSUME IInv, NEW id
    PROVE  /\ Old(id) \in PageSet
           /\ HasMagic(Old(id).buf) => Header(Old(id).buf)
           /\ done.losses = 0 => CrcMatches(Old(id))
           /\ id \in DOMAIN durable => Old(id) = durable[id]
           /\ id \notin DOMAIN durable => ~HasMagic(Old(id).buf)
<1>1. CASE id \in DOMAIN durable
    <2>1. Old(id) = durable[id] BY <1>1 DEF Old
    <2>2. durable[id] \in PageSet BY <1>1 DEF IInv, TypeOK
    <2>3. HasMagic(durable[id].buf) => Header(durable[id].buf) BY <1>1 DEF IInv, Headed
    <2>4. done.losses = 0 => CrcMatches(durable[id])
        BY <1>1 DEF IInv, Known, Whole
    <2> QED BY <1>1, <2>1, <2>2, <2>3, <2>4
<1>2. CASE id \notin DOMAIN durable
    <2>1. Old(id) = Page(Blank) BY <1>2 DEF Old
    <2>2. CrcMatches(Page(Blank)) BY DEF Page, CrcMatches
    <2> QED BY <1>2, <2>1, <2>2, BlankFacts
<1> QED BY <1>1, <1>2

LEMMA PowerLossStep == ASSUME IInv, PowerLoss PROVE IInv'
<1>1. TypeOK BY DEF IInv
<1>2. PICK n \in 0 .. count, kept \in [Unsynced -> SUBSET Sectors] :
        LET left == [id \in 0 .. n - 1 |->
                        IF id \in Unsynced THEN Mixture(Old(id), file[id], kept[id])
                        ELSE file[id]]
            new  == {id \in 0 .. n - 1 : left[id] = file[id]}
            old  == {id \in DOMAIN durable : left[id] = durable[id]} \ new
            bad  == (0 .. n - 1) \ (old \cup new)
        IN  /\ DOMAIN durable \subseteq 0 .. n - 1
            /\ count' = n /\ file' = left /\ durable' = left
            /\ filed' = [id \in 0 .. n - 1 |-> IF id \in new THEN filed[id]
                                              ELSE IF id \in old THEN synced[id] ELSE <<>>]
            /\ synced' = [id \in 0 .. n - 1 |->
                            IF id \in bad THEN Survivors(id) ELSE filed'[id]]
            /\ mixed' = (mixed \cap new) \cup (torn \cap old) \cup bad
            /\ torn' = mixed'
            /\ tainted' = tainted \cup bad
    BY DEF PowerLoss
<1>3. PICK ids : ids = 0 .. n - 1 OBVIOUS
<1>4. PICK left : left = [id \in ids |->
                            IF id \in Unsynced THEN Mixture(Old(id), file[id], kept[id])
                            ELSE file[id]]
    OBVIOUS
<1>5. PICK new : new = {id \in ids : left[id] = file[id]} OBVIOUS
<1>6. PICK old : old = {id \in DOMAIN durable : left[id] = durable[id]} \ new OBVIOUS
<1>7. PICK bad : bad = ids \ (old \cup new) OBVIOUS
<1>8. /\ DOMAIN durable \subseteq ids
      /\ count' = n /\ file' = left /\ durable' = left
      /\ filed' = [id \in ids |-> IF id \in new THEN filed[id]
                                  ELSE IF id \in old THEN synced[id] ELSE <<>>]
      /\ synced' = [id \in ids |-> IF id \in bad THEN Survivors(id) ELSE filed'[id]]
      /\ mixed' = (mixed \cap new) \cup (torn \cap old) \cup bad
      /\ torn' = mixed'
      /\ tainted' = tainted \cup bad
    BY <1>2, <1>3, <1>4, <1>5, <1>6, <1>7, Zenon
<1>9. /\ up' = FALSE /\ pool' = <<>> /\ rows' = <<>> /\ setup' = setup
      /\ done' = [done EXCEPT !["losses"] = done["losses"] + 1]
    BY DEF PowerLoss, Gone, Does
<1>10. ids \subseteq DOMAIN file /\ n \in Nat
    <2>1. count \in Nat /\ DOMAIN file = 0 .. count - 1 BY <1>1 DEF TypeOK
    <2> QED BY <1>3, <2>1
<1>11. done' \in [{"inserts", "sets", "fresh", "writes", "losses"} -> Nat]
       /\ done'.losses = done.losses + 1 /\ done.losses \in Nat
    BY <1>1, <1>9 DEF TypeOK
<1>12. ASSUME NEW id \in ids
       PROVE  /\ left[id] \in PageSet
              /\ HasMagic(left[id].buf) => Header(left[id].buf)
              /\ id \in bad /\ done.losses = 0 => ~Whole(left[id])
    <2>1. file[id] \in PageSet /\ id \in DOMAIN file BY <1>1, <1>10 DEF TypeOK
    <2>2. HasMagic(file[id].buf) => Header(file[id].buf) BY <2>1 DEF IInv, Headed
    <2>3. CASE id \notin Unsynced
        <3>1. left[id] = file[id] BY <2>3, <1>4
        <3>2. id \notin bad BY <3>1, <1>5, <1>7
        <3> QED BY <3>1, <3>2, <2>1, <2>2
    <2>4. CASE id \in Unsynced
        <3>1. left[id] = Mixture(Old(id), file[id], kept[id]) /\ kept[id] \in SUBSET Sectors
            BY <2>4, <1>4
        <3>2. Old(id) \in PageSet /\ (HasMagic(Old(id).buf) => Header(Old(id).buf))
            BY OldFacts
        <3>3. left[id] \in PageSet /\ (HasMagic(left[id].buf) => Header(left[id].buf))
            BY <3>1, <3>2, <2>1, <2>2, MixtureFacts
        <3>4. ASSUME id \in bad, done.losses = 0 PROVE ~Whole(left[id])
            <4>1. CrcMatches(Old(id)) BY <3>4, OldFacts
            <4>2. CrcMatches(file[id]) BY <3>4, <2>1 DEF IInv, Known, Whole
            <4>3. left[id] # file[id] BY <3>4, <1>5, <1>7
            <4>4. left[id] # Old(id) \/ ~HasMagic(Old(id).buf)
                <5>1. CASE id \in DOMAIN durable
                    BY <5>1, <3>4, <1>5, <1>6, <1>7, OldFacts
                <5>2. CASE id \notin DOMAIN durable BY <5>2, OldFacts
                <5> QED BY <5>1, <5>2
            <4> QED BY <3>1, <3>2, <2>1, <4>1, <4>2, <4>3, <4>4, MixtureNotWhole
        <3> QED BY <3>3, <3>4
    <2> QED BY <2>3, <2>4
<1>13. left \in [ids -> PageSet] BY <1>4, <1>12
<1>14. ASSUME NEW id \in ids PROVE filed'[id] \in Seq(Rows) /\ synced'[id] \in Seq(Rows)
    <2>1. id \in DOMAIN file /\ filed[id] \in Seq(Rows) BY <1>1, <1>10 DEF TypeOK
    <2>2. id \in old => synced[id] \in Seq(Rows) BY <1>1, <1>6 DEF TypeOK
    <2>3. filed'[id] \in Seq(Rows) BY <1>8, <2>1, <2>2, NoRows
    <2>4. Survivors(id) \in Seq(Rows) BY <1>1, NoRows DEF Survivors, TypeOK
    <2> QED BY <1>8, <2>3, <2>4
<1>15. filed' \in [ids -> Seq(Rows)] /\ synced' \in [ids -> Seq(Rows)] BY <1>8, <1>14
<1>16. mixed' \subseteq ids /\ mixed' \subseteq tainted'
    <2>1. new \subseteq ids /\ old \subseteq ids /\ bad \subseteq ids BY <1>5, <1>6, <1>7, <1>8
    <2>2. mixed \subseteq tainted /\ torn \subseteq tainted BY <1>1 DEF TypeOK
    <2> QED BY <1>8, <2>1, <2>2
<1>17. TypeOK'
    <2>1. DOMAIN file' = ids /\ DOMAIN durable' = ids /\ DOMAIN pool' = {} BY <1>8, <1>9, <1>13
    <2>2. file' \in [0 .. count' - 1 -> PageSet] /\ durable' \in [DOMAIN durable' -> PageSet]
        BY <1>3, <1>8, <1>13, <2>1
    <2>3. pool' \in [{} -> PageSet] /\ rows' \in [{} -> Seq(Rows)] BY <1>9
    <2>4. count' \in Nat /\ up' \in BOOLEAN /\ setup' \in Setups BY <1>1, <1>8, <1>9, <1>10 DEF TypeOK
    <2>5. torn' \subseteq ids /\ torn' \subseteq tainted' BY <1>8, <1>16
    <2> QED BY <1>11, <1>15, <1>16, <2>1, <2>2, <2>3, <2>4, <2>5 DEF TypeOK
<1>18. ASSUME NEW id \in ids \ tainted'
       PROVE  Layout(left[id].buf, Encoded(filed'[id])) /\ synced'[id] = filed'[id]
    <2>1. id \notin bad /\ id \notin tainted /\ id \in ids BY <1>8, <1>18
    <2>2. synced'[id] = filed'[id] BY <1>8, <2>1
    <2>3. CASE id \in new
        <3>1. left[id] = file[id] /\ filed'[id] = filed[id] BY <1>5, <1>8, <2>1, <2>3
        <3> QED BY <1>10, <2>1, <2>2, <3>1 DEF IInv, SoundPages
    <2>4. CASE id \notin new
        <3>1. id \in old BY <1>7, <2>1, <2>4
        <3>2. id \in DOMAIN durable /\ left[id] = durable[id] /\ filed'[id] = synced[id]
            BY <1>6, <1>8, <2>1, <2>4, <3>1
        <3> QED BY <2>1, <2>2, <3>2 DEF IInv, SoundPages
    <2> QED BY <2>3, <2>4
<1>19. SoundPages(file', filed', tainted') /\ SoundPages(durable', synced', tainted')
    <2>1. DOMAIN left = ids BY <1>13
    <2> QED BY <1>8, <1>18, <2>1 DEF SoundPages
<1>20. Headed(left) BY <1>12, <1>13 DEF Headed
<1>21. Known(left, mixed', done'.losses)
    <2> SUFFICES ASSUME NEW id \in ids
                 PROVE  /\ id \notin mixed' => Whole(left[id])
                        /\ done'.losses <= 1 /\ id \in mixed' => ~Whole(left[id])
        BY <1>13 DEF Known
    <2>1. ASSUME id \notin mixed' PROVE Whole(left[id])
        <3>1. id \in new \/ id \in old BY <1>7, <1>8, <2>1
        <3>2. CASE id \in new
            <4>1. left[id] = file[id] /\ id \notin mixed BY <1>5, <1>8, <2>1, <3>2
            <4> QED BY <1>10, <4>1 DEF IInv, Known
        <3>3. CASE id \in old
            <4>1. id \in DOMAIN durable /\ left[id] = durable[id] /\ id \notin torn
                BY <1>6, <1>8, <2>1, <3>3
            <4> QED BY <4>1 DEF IInv, Known
        <3> QED BY <3>1, <3>2, <3>3
    <2>2. ASSUME done'.losses <= 1, id \in mixed' PROVE ~Whole(left[id])
        <3>1. done.losses = 0 BY <1>11, <2>2
        <3>2. mixed = {} /\ torn = {} BY <3>1 DEF IInv
        <3>3. id \in bad BY <1>8, <2>2, <3>2
        <3> QED BY <1>12, <3>1, <3>3
    <2> QED BY <2>1, <2>2
<1>22. done'.losses # 0 BY <1>11
<1>23. DOMAIN pool' = {} BY <1>9
<1> QED BY <1>8, <1>17, <1>19, <1>20, <1>21, <1>22, <1>23 DEF IInv, SoundPages

-----------------------------------------------------------------------------
(* Theorems. *)

LEMMA NextIInv == IInv /\ [Next]_vars => IInv'
<1> SUFFICES ASSUME IInv, [Next]_vars PROVE IInv' OBVIOUS
<1>1. CASE OpenHeap BY <1>1, OpenHeapStep
<1>2. CASE Sync BY <1>2, SyncStep
<1>3. CASE Exit BY <1>3, ExitStep
<1>4. CASE PowerLoss BY <1>4, PowerLossStep
<1>5. CASE \E ty \in KindsUsed : AppendPage(ty) BY <1>5, AppendPageStep
<1>6. CASE \E id \in DOMAIN file : Get(id) BY <1>6, GetStep
<1>7. CASE \E id \in DOMAIN pool : WriteBack(id) BY <1>7, WriteBackStep
<1>8. CASE \E id \in DOMAIN pool, row \in setup.rows : InsertRow(id, row)
    BY <1>8, InsertRowStep
<1>9. CASE \E id \in DOMAIN pool, field \in Fields : SetHeader(id, field)
    BY <1>9, SetHeaderStep
<1>10. CASE \E id \in DOMAIN pool, ty \in KindsUsed : MakeFresh(id, ty)
    BY <1>10, MakeFreshStep
<1>11. CASE UNCHANGED vars
    BY <1>11 DEF vars, IInv, TypeOK, SoundPages, Headed, Known
<1> QED BY <1>1, <1>2, <1>3, <1>4, <1>5, <1>6, <1>7, <1>8, <1>9, <1>10, <1>11 DEF Next

LEMMA AlwaysIInv == Spec => []IInv
BY InitIInv, NextIInv, PTL DEF Spec

\* Pages are bytes, and what is known of them is of the right kind.
THEOREM TypeCorrect == Spec => []TypeOK
<1>1. IInv => TypeOK BY DEF IInv
<1> QED BY <1>1, AlwaysIInv, PTL

\* Page::insert and the setters keep the layout of every page that no power loss has
\* torn, for every page size and through every write-back, sync, exit and power loss.
THEOREM LayoutHolds == Spec => []LayoutOK
<1>1. IInv => LayoutOK BY DEF IInv, LayoutOK, SoundPages
<1> QED BY <1>1, AlwaysIInv, PTL

\* Engine::verify reports no page that is whole, and after one power loss every page
\* that is not.
THEOREM VerifyIsExact == Spec => []VerifyFinds
<1>1. IInv => VerifyFinds
    <2> SUFFICES ASSUME IInv PROVE VerifyFinds OBVIOUS
    <2>1. TypeOK BY DEF IInv
    <2>2. \A id \in DOMAIN file : id < count BY <2>1 DEF TypeOK
    <2>3. \A id \in DOMAIN file : ReadOk(id, TRUE) <=> Whole(file[id])
        BY <2>2 DEF ReadOk, Whole
    <2>4. mixed \subseteq DOMAIN file BY <2>1 DEF TypeOK
    <2> QED BY <2>3, <2>4 DEF IInv, Known, VerifyFinds, Faults
<1> QED BY <1>1, AlwaysIInv, PTL

-----------------------------------------------------------------------------
(* What comes back. *)

\* A tuple on a page is shorter than the page.
LEMMA TupleFits ==
    ASSUME NEW buf, NEW tuples \in Seq(Seq(Byte)), Layout(buf, tuples), NEW k \in 1 .. Len(tuples)
    PROVE  Len(tuples[k]) < 65536
<1>1. tuples[k] \in Seq(Byte) OBVIOUS
<1>2. PICK len \in Nat : len = Len(tuples[k]) BY <1>1, LenInNat
<1>3. HoldsTuple(buf, k - 1, tuples[k]) BY DEF Layout
<1>4. Lower(buf) \in Nat /\ Lower(buf) <= PAGE_SIZE BY LayoutBounds
<1>5. SlotOff(buf, k - 1) \in Nat /\ SlotOff(buf, k - 1) + len <= Lower(buf)
    BY <1>2, <1>3, <1>4 DEF HoldsTuple, PAGE_HEADER_SIZE
<1> QED BY <1>2, <1>4, <1>5, PageSizeFacts

\* A page whose layout is that of some rows gives them back.
LEMMA LayoutHoldsRows ==
    ASSUME NEW buf, NEW rs \in Seq(Rows), Layout(buf, Encoded(rs))
    PROVE  Holds(buf, rs)
<1> DEFINE tuples == Encoded(rs)
<1>1. tuples \in Seq(Seq(Byte)) /\ tuples = [k \in DOMAIN rs |-> Tuple[rs[k]]]
    BY EncodedTyped DEF Encoded
<1>2. PICK n \in Nat : n = Len(rs) /\ DOMAIN rs = 1 .. n OBVIOUS
<1>l. Layout(buf, tuples) OBVIOUS
<1>3. AllTuples(buf) = tuples BY <1>1, AllTuplesBack
<1>4. Len(tuples) = n BY <1>1, <1>2
<1>5. ASSUME NEW k \in 1 .. n
      PROVE  Decodable(rs[k].kind, tuples[k]) /\ Decode(rs[k].kind, tuples[k]) = rs[k]
    <2>1. rs[k] \in Rows /\ rs[k] \in Row BY <1>2, PageFileAssumption
    <2>2. tuples[k] = Tuple[rs[k]] BY <1>1, <1>2
    <2>3. Tuple[rs[k]] = Encode(rs[k]) BY <2>1 DEF Tuple
    <2> HIDE DEF tuples
    <2>4. Len(tuples[k]) < 65536
        <3>1. k \in 1 .. Len(tuples) BY <1>4
        <3> QED BY ONLY <1>1, <1>l, <3>1, TupleFits
    <2>5. Len(Encode(rs[k])) < 65536 BY <2>2, <2>3, <2>4
    <2>6. Decodable(rs[k].kind, Encode(rs[k])) /\ Decode(rs[k].kind, Encode(rs[k])) = rs[k]
        BY <2>1, <2>5, DecodeEncode
    <2> QED BY <2>2, <2>3, <2>6
<1> HIDE DEF tuples
<1> QED BY <1>2, <1>3, <1>4, <1>5 DEF Holds

\* Page::insert, the setters, write-backs, syncs, exits and power losses give back
\* every row of a page that was never torn, as it was stored.
THEOREM RowsComeBack == Spec => []RowsAreKept
<1>1. IInv => RowsAreKept
    <2> SUFFICES ASSUME IInv PROVE RowsAreKept OBVIOUS
    <2>1. /\ \A id \in DOMAIN pool : rows[id] \in Seq(Rows)
          /\ \A id \in DOMAIN file : filed[id] \in Seq(Rows)
        BY DEF IInv, TypeOK
    <2>2. /\ \A id \in DOMAIN pool \ tainted : Layout(pool[id].buf, Encoded(rows[id]))
          /\ \A id \in DOMAIN file \ tainted : Layout(file[id].buf, Encoded(filed[id]))
        BY DEF IInv, SoundPages
    <2> QED BY <2>1, <2>2, LayoutHoldsRows DEF RowsAreKept
<1> QED BY <1>1, AlwaysIInv, PTL

-----------------------------------------------------------------------------
(* What fits. *)

\* The space that a sequence of rows takes, up to each of them
Sums(rs, n, upto) ==
    /\ upto = [k \in 0 .. n |-> upto[k]] /\ upto[0] = PAGE_HEADER_SIZE
    /\ \A k \in 1 .. n : upto[k] = upto[k - 1] + Len(Tuple[rs[k]]) + 4

LEMMA UsedIs ==
    ASSUME NEW rs \in Seq(Rows), NEW n \in Nat, n = Len(rs), NEW upto, Sums(rs, n, upto)
    PROVE  Used(rs) = upto[n]
<1>0. /\ upto = [k \in 0 .. n |-> upto[k]] /\ upto[0] = PAGE_HEADER_SIZE
      /\ \A k \in 1 .. n : upto[k] = upto[k - 1] + Len(Tuple[rs[k]]) + 4
    BY DEF Sums
<1> DEFINE Step(f, k) == IF k = 0 THEN PAGE_HEADER_SIZE ELSE f[k - 1] + Len(Tuple[rs[k]]) + 4
           used == CHOOSE f : f = [k \in 0 .. Len(rs) |-> Step(f, k)]
<1>1. Used(rs) = used[n] BY DEF Used
<1>2. \A k \in 0 .. n : upto[k] = Step(upto, k)
    <2> TAKE k \in 0 .. n
    <2>1. k = 0 \/ k \in 1 .. n OBVIOUS
    <2> QED BY <1>0, <2>1
<1>3. used = [k \in 0 .. n |-> Step(used, k)]
    <2> HIDE DEF Step
    <2>1. upto = [k \in 0 .. n |-> upto[k]] BY <1>0
    <2>2. upto = [k \in 0 .. n |-> Step(upto, k)] BY <1>2, <2>1
    <2> QED BY <2>2, Zenon
<1> HIDE DEF used
<1>4. used[0] = PAGE_HEADER_SIZE /\ \A k \in 1 .. n : used[k] = used[k - 1] + Len(Tuple[rs[k]]) + 4
    <2>1. \A k \in 0 .. n : used[k] = Step(used, k)
        <3> HIDE DEF Step
        <3> QED BY ONLY <1>3
    <2>2. 0 \in 0 .. n /\ \A k \in 1 .. n : k \in 0 .. n /\ k # 0 OBVIOUS
    <2> QED BY ONLY <2>1, <2>2
<1> DEFINE Same == {k \in Nat : k <= n => used[k] = upto[k]}
<1>5. 0 \in Same BY <1>0, <1>4
<1>6. \A k \in Nat : k \in Same => k + 1 \in Same
    <2> SUFFICES ASSUME NEW k \in Nat, k \in Same, k + 1 <= n
                 PROVE  used[k + 1] = upto[k + 1]
        OBVIOUS
    <2>1. k + 1 \in 1 .. n /\ (k + 1) - 1 = k /\ k <= n OBVIOUS
    <2>2. used[k] = upto[k] BY <2>1
    <2>3. used[k + 1] = used[k] + Len(Tuple[rs[k + 1]]) + 4 BY ONLY <1>4, <2>1
    <2>4. upto[k + 1] = upto[k] + Len(Tuple[rs[k + 1]]) + 4 BY <1>0, <2>1
    <2> QED BY ONLY <2>2, <2>3, <2>4
<1>7. n \in Same
    <2> HIDE DEF Same
    <2> QED BY <1>5, <1>6, NatSetInduction
<1> QED BY <1>1, <1>7

LEMMA FitsIffUsed ==
    ASSUME NEW buf, NEW rs \in Seq(Rows), Layout(buf, Encoded(rs)), NEW row \in Rows
    PROVE  Fits(buf, Tuple[row]) <=> Used(Append(rs, row)) <= PAGE_SIZE
<1> DEFINE tuples == Encoded(rs)
<1>1. PICK n \in Nat : n = Len(rs) /\ DOMAIN rs = 1 .. n OBVIOUS
<1>2. /\ tuples \in Seq(Seq(Byte)) /\ Len(tuples) = n /\ Layout(buf, tuples)
      /\ \A k \in 1 .. n : tuples[k] = Tuple[rs[k]]
    BY <1>1, EncodedTyped, SMTT(30) DEF Encoded
<1> HIDE DEF tuples
<1>3. PICK low \in Nat, len \in Nat : low = Lower(buf) /\ len = Len(Tuple[row])
    BY <1>2, LayoutBounds, TupleTyped, LenInNat
<1>4. /\ low = End(buf, n) /\ Upper(buf) = PAGE_SIZE - (4 * n)
      /\ \A k \in 1 .. n : /\ SlotOff(buf, k - 1) = End(buf, k - 1)
                           /\ HoldsTuple(buf, k - 1, tuples[k])
    BY <1>2, <1>3 DEF Layout
<1>5. ASSUME NEW k \in 1 .. n
      PROVE  /\ End(buf, k) = End(buf, k - 1) + Len(Tuple[rs[k]])
             /\ End(buf, k - 1) \in Nat /\ Len(Tuple[rs[k]]) \in Nat
    <2>1. HoldsTuple(buf, k - 1, tuples[k]) /\ SlotOff(buf, k - 1) = End(buf, k - 1) BY <1>4
    <2>2. k # 0 OBVIOUS
    <2>3. End(buf, k) = SlotOff(buf, k - 1) + SlotLen(buf, k - 1) BY <2>2 DEF End
    <2>4. SlotLen(buf, k - 1) = Len(Tuple[rs[k]]) /\ SlotOff(buf, k - 1) \in Nat
        BY <1>2, <1>3, <2>1 DEF HoldsTuple, PAGE_HEADER_SIZE
    <2>5. rs[k] \in Rows BY <1>1
    <2>6. Len(Tuple[rs[k]]) \in Nat BY <2>5, TupleTyped, LenInNat
    <2> QED BY <2>1, <2>3, <2>4, <2>6
<1> DEFINE m == n + 1
           more == Append(rs, row)
           upto == [k \in 0 .. m |-> IF k = m THEN low + 4 * n + len + 4 ELSE End(buf, k) + 4 * k]
<1>6. /\ more \in Seq(Rows) /\ m \in Nat /\ m = Len(more) /\ more[m] = row
      /\ \A k \in 1 .. n : more[k] = rs[k]
    BY <1>1
<1>7. upto = [k \in 0 .. m |-> upto[k]] /\ upto[0] = PAGE_HEADER_SIZE
    <2>1. 0 \in 0 .. m /\ 0 # m OBVIOUS
    <2>2. End(buf, 0) = PAGE_HEADER_SIZE BY DEF End
    <2> QED BY <2>1, <2>2 DEF PAGE_HEADER_SIZE
<1>8. ASSUME NEW k \in 1 .. m
      PROVE  upto[k] = upto[k - 1] + Len(Tuple[more[k]]) + 4
    <2>1. CASE k = m
        <3>1. m \in 0 .. m /\ m - 1 = n /\ n \in 0 .. m /\ n # m OBVIOUS
        <3>2. upto[m] = low + 4 * n + len + 4 BY <3>1
        <3>3. upto[m - 1] = low + 4 * n BY <1>4, <3>1
        <3> HIDE DEF upto, more
        <3> QED BY <1>3, <1>6, <2>1, <3>2, <3>3
    <2>2. CASE k # m
        <3>1. k \in 1 .. n /\ k \in 0 .. m /\ k - 1 \in 0 .. m /\ k - 1 # m BY <2>2
        <3>2. upto[k] = End(buf, k) + 4 * k BY <2>2, <3>1
        <3>3. upto[k - 1] = End(buf, k - 1) + 4 * (k - 1) BY <3>1
        <3> HIDE DEF upto, more
        <3>4. more[k] = rs[k] BY <1>6, <3>1
        <3>5. PICK a \in Nat, l \in Nat : /\ a = End(buf, k - 1) /\ l = Len(Tuple[rs[k]])
                                          /\ End(buf, k) = a + l
            BY ONLY <1>5, <3>1
        <3>6. k \in Nat BY <3>1
        <3>7. upto[k] = (a + l) + 4 * k /\ upto[k - 1] = a + 4 * (k - 1)
            BY ONLY <3>2, <3>3, <3>5
        <3>8. (a + l) + 4 * k = a + 4 * (k - 1) + l + 4 BY ONLY <3>5, <3>6
        <3> QED BY ONLY <3>4, <3>5, <3>7, <3>8
    <2> QED BY <2>1, <2>2
<1>9. upto[m] = low + 4 * n + len + 4
    <2>1. m \in 0 .. m OBVIOUS
    <2> QED BY <2>1
<1> HIDE DEF upto, more, m
<1>10. Used(more) = low + 4 * n + len + 4
    <2>1. Sums(more, m, upto) BY ONLY <1>7, <1>8 DEF Sums
    <2> QED BY ONLY <1>6, <1>9, <2>1, UsedIs
<1>11. Fits(buf, Tuple[row]) <=> (PAGE_SIZE - (4 * n)) - low - 4 >= len
    BY <1>3, <1>4 DEF Fits, FreeSpace
<1>12. (PAGE_SIZE - (4 * n)) - low - 4 >= len <=> low + 4 * n + len + 4 <= PAGE_SIZE
    BY PageSizeFacts
<1> QED BY <1>10, <1>11, <1>12 DEF more

\* Page::insert refuses a row if and only if tuples, directory and header with it are
\* larger than the page.
THEOREM InsertUsesAll == Spec => []FitsExactly
<1>1. IInv => FitsExactly
    <2> SUFFICES ASSUME IInv PROVE FitsExactly OBVIOUS
    <2>1. \A id \in DOMAIN pool : rows[id] \in Seq(Rows) BY DEF IInv, TypeOK
    <2>2. \A id \in DOMAIN pool \ tainted : Layout(pool[id].buf, Encoded(rows[id]))
        BY DEF IInv, SoundPages
    <2> QED BY <2>1, <2>2, FitsIffUsed DEF FitsExactly
<1> QED BY <1>1, AlwaysIInv, PTL

-----------------------------------------------------------------------------
(* Torn pages. *)

\* Numbers are the same only if their bytes are.
LEMMA SameU16 ==
    ASSUME NEW a \in [Offsets -> Byte], NEW b \in [Offsets -> Byte], NEW off \in Nat,
           off + 1 < PAGE_SIZE, U16(a, off) = U16(b, off)
    PROVE  a[off] = b[off] /\ a[off + 1] = b[off + 1]
<1>1. off \in Offsets /\ off + 1 \in Offsets BY OffsetsAre, PageSizeFacts
<1>2. \A x1, y1, x2, y2 \in Byte : x1 + (256 * y1) = x2 + (256 * y2) => x1 = x2 /\ y1 = y2
    BY DEF Byte
<1> QED BY <1>1, <1>2 DEF U16

\* When a page has the tuples of another and more, those lie in both at the same place.
LEMMA SamePlaces ==
    ASSUME NEW a, NEW b, NEW ts \in Seq(Seq(Byte)), NEW us \in Seq(Seq(Byte)),
           Layout(a, ts), Layout(b, us), Len(ts) <= Len(us),
           \A k \in 1 .. Len(ts) : ts[k] = us[k],
           NEW k \in 1 .. Len(ts)
    PROVE  SlotOff(a, k - 1) = SlotOff(b, k - 1) /\ SlotLen(a, k - 1) = SlotLen(b, k - 1)
<1>1. PICK n \in Nat, m \in Nat : n = Len(ts) /\ m = Len(us) /\ n <= m OBVIOUS
<1>2. ASSUME NEW i \in 1 .. n
      PROVE  /\ SlotLen(a, i - 1) = SlotLen(b, i - 1)
             /\ SlotOff(a, i - 1) = End(a, i - 1) /\ SlotOff(b, i - 1) = End(b, i - 1)
    <2>1. i \in 1 .. m BY <1>1
    <2>2. HoldsTuple(a, i - 1, ts[i]) /\ HoldsTuple(b, i - 1, us[i]) BY <1>1, <2>1 DEF Layout
    <2>3. ts[i] = us[i] BY <1>1
    <2>4. SlotOff(a, i - 1) = End(a, i - 1) /\ SlotOff(b, i - 1) = End(b, i - 1)
        BY <1>1, <2>1 DEF Layout
    <2> QED BY <2>2, <2>3, <2>4 DEF HoldsTuple
<1> DEFINE Same == {i \in Nat : i <= n => End(a, i) = End(b, i)}
<1>3. 0 \in Same BY DEF End
<1>4. \A i \in Nat : i \in Same => i + 1 \in Same
    <2> SUFFICES ASSUME NEW i \in Nat, i \in Same, i + 1 <= n
                 PROVE  End(a, i + 1) = End(b, i + 1)
        OBVIOUS
    <2>1. i + 1 \in 1 .. n /\ (i + 1) - 1 = i /\ i <= n /\ i + 1 # 0 BY <1>1
    <2>2. End(a, i) = End(b, i) BY <2>1
    <2>3. SlotLen(a, i) = SlotLen(b, i) /\ SlotOff(a, i) = SlotOff(b, i) BY <1>2, <2>1, <2>2
    <2> QED BY <2>1, <2>3 DEF End
<1>5. \A i \in Nat : i \in Same
    <2> HIDE DEF Same
    <2> QED BY <1>3, <1>4, NatSetInduction
<1>6. k \in 1 .. n /\ k - 1 \in Nat /\ k - 1 <= n BY <1>1
<1>7. End(a, k - 1) = End(b, k - 1) BY <1>5, <1>6
<1> QED BY <1>2, <1>6, <1>7

\* Every byte is of one of two pages, and the directory's size from the same.
MixOf(mix, a, b) ==
    /\ \A i \in Offsets : mix[i] = a[i] \/ mix[i] = b[i]
    /\ \/ \A i \in Offsets : i \in 18 .. 23 => mix[i] = a[i]
       \/ \A i \in Offsets : i \in 18 .. 23 => mix[i] = b[i]

\* The first sequence begins the second.
Starts(ts, us) == Len(ts) <= Len(us) /\ \A k \in 1 .. Len(ts) : ts[k] = us[k]

Returns(buf, ts) ==
    \A k \in 1 .. Len(ts) : HasTuple(buf, k - 1) /\ GetTuple(buf, k - 1) = ts[k]

\* What two versions of a page have in common every mixture of them has, too.
LEMMA MixtureReads ==
    ASSUME NEW a \in [Offsets -> Byte], NEW b \in [Offsets -> Byte],
           NEW ts \in Seq(Seq(Byte)), NEW us \in Seq(Seq(Byte)),
           Layout(a, ts), Layout(b, us), Starts(ts, us), NEW mix, MixOf(mix, a, b)
    PROVE  Returns(mix, ts)
<1> SUFFICES ASSUME NEW k \in 1 .. Len(ts)
             PROVE  HasTuple(mix, k - 1) /\ GetTuple(mix, k - 1) = ts[k]
    BY DEF Returns
<1>0. /\ \A i \in Offsets : mix[i] = a[i] \/ mix[i] = b[i]
      /\ \/ \A i \in Offsets : i \in 18 .. 23 => mix[i] = a[i]
         \/ \A i \in Offsets : i \in 18 .. 23 => mix[i] = b[i]
    BY DEF MixOf
<1>1. PICK n \in Nat, m \in Nat : /\ n = Len(ts) /\ m = Len(us) /\ n <= m
                                  /\ \A i \in 1 .. n : ts[i] = us[i]
    BY DEF Starts
<1>2. k \in 1 .. n /\ k \in 1 .. m /\ k - 1 \in Nat BY <1>1
<1>3. HoldsTuple(a, k - 1, ts[k]) /\ HoldsTuple(b, k - 1, ts[k])
    BY <1>1, <1>2 DEF Layout
<1>4. SlotOff(a, k - 1) = SlotOff(b, k - 1) /\ SlotLen(a, k - 1) = SlotLen(b, k - 1)
    BY <1>1, <1>2, SamePlaces DEF Starts
<1>5. ts[k] \in Seq(Byte) BY <1>1, <1>2
<1>6. PICK off \in Nat, len \in Nat : off = SlotOff(a, k - 1) /\ len = Len(ts[k]) /\ 64 <= off
    <2>1. Lower(a) \in Nat BY LayoutBounds
    <2> QED BY <1>3, <1>5, <2>1, LenInNat DEF HoldsTuple, PAGE_HEADER_SIZE
<1>7. /\ SlotLen(a, k - 1) = len /\ SlotLen(b, k - 1) = len /\ SlotOff(b, k - 1) = off
      /\ off + len <= Lower(a) /\ off + len <= Lower(b)
      /\ Lower(a) \in Nat /\ Lower(a) <= PAGE_SIZE
    BY <1>3, <1>4, <1>6, LayoutBounds DEF HoldsTuple
<1>8. SlotOff(mix, k - 1) = off /\ SlotLen(mix, k - 1) = len
    <2>1. PICK dir \in Nat : dir = Dir(k - 1) /\ dir + 4 <= PAGE_SIZE
        <3>1. 4 * n <= PAGE_SIZE BY <1>1, LayoutBounds
        <3> QED BY <1>2, <3>1, PageSizeFacts DEF Dir
    <2>2. /\ dir + 1 < PAGE_SIZE /\ (dir + 2) + 1 < PAGE_SIZE /\ dir + 2 \in Nat
        BY ONLY <2>1, PageSizeFacts, SMTT(30)
    <2>3. U16(a, dir) = U16(b, dir) /\ U16(a, dir + 2) = U16(b, dir + 2)
        BY <1>4, <2>1 DEF SlotOff, SlotLen
    <2>4. /\ a[dir] = b[dir] /\ a[dir + 1] = b[dir + 1]
          /\ a[dir + 2] = b[dir + 2] /\ a[(dir + 2) + 1] = b[(dir + 2) + 1]
        BY <2>2, <2>3, SameU16
    <2>5. dir \in Offsets /\ dir + 1 \in Offsets /\ dir + 2 \in Offsets /\ (dir + 2) + 1 \in Offsets
        <3>1. dir < PAGE_SIZE /\ dir + 2 < PAGE_SIZE /\ dir + 1 \in Nat /\ (dir + 2) + 1 \in Nat
            BY ONLY <2>1, PageSizeFacts, SMTT(30)
        <3> QED BY ONLY <2>1, <2>2, <3>1, OffsetsAre
    <2>6. /\ mix[dir] = a[dir] /\ mix[dir + 1] = a[dir + 1]
          /\ mix[dir + 2] = a[dir + 2] /\ mix[(dir + 2) + 1] = a[(dir + 2) + 1]
        BY <1>0, <2>4, <2>5
    <2>7. U16(mix, dir) = U16(a, dir) /\ U16(mix, dir + 2) = U16(a, dir + 2)
        BY <2>6 DEF U16
    <2> QED BY <1>6, <1>7, <2>1, <2>7 DEF SlotOff, SlotLen
<1>9. GetTuple(mix, k - 1) = ts[k]
    <2>1. GetTuple(a, k - 1) = ts[k] /\ GetTuple(b, k - 1) = ts[k] BY <1>3 DEF HoldsTuple
    <2>2. ts[k] = ReadField(a, off, len) /\ ts[k] = ReadField(b, off, len)
        BY <1>6, <1>7, <2>1 DEF GetTuple
    <2>3. ASSUME NEW j \in 1 .. len PROVE mix[off + j - 1] = a[off + j - 1]
        <3>1. ReadField(a, off, len)[j] = a[off + j - 1] BY DEF ReadField
        <3>2. ReadField(b, off, len)[j] = b[off + j - 1] BY DEF ReadField
        <3>3. a[off + j - 1] = b[off + j - 1] BY ONLY <2>2, <3>1, <3>2
        <3>4. off + j - 1 \in Nat /\ off + j - 1 < PAGE_SIZE
            <4>1. off + len <= PAGE_SIZE BY ONLY <1>7, off \in Nat, len \in Nat, PageSizeFacts
            <4> QED BY ONLY <4>1, off \in Nat, len \in Nat, j \in 1 .. len, PageSizeFacts
        <3>5. off + j - 1 \in Offsets BY <3>4, OffsetsAre
        <3> QED BY <1>0, <3>3, <3>5
    <2>4. ReadField(mix, off, len) = ReadField(a, off, len) BY <2>3 DEF ReadField
    <2> QED BY <1>8, <2>2, <2>4 DEF GetTuple
<1>10. /\ NSlots(mix) \in {n, m} /\ (Lower(mix) = Lower(a) \/ Lower(mix) = Lower(b))
    <2>1. 18 + 1 = 19 /\ 20 + 1 = 21 /\ 22 + 1 = 23 OBVIOUS
    <2>2. NSlots(a) = n /\ NSlots(b) = m BY <1>1 DEF Layout
    <2>3. CASE \A i \in Offsets : i \in 18 .. 23 => mix[i] = a[i]
        <3>1. /\ mix[18] = a[18] /\ mix[19] = a[19] /\ mix[20] = a[20] /\ mix[21] = a[21]
            BY <2>3, HeaderOffsets
        <3> QED BY <2>1, <2>2, <3>1 DEF NSlots, Lower, U16
    <2>4. CASE \A i \in Offsets : i \in 18 .. 23 => mix[i] = b[i]
        <3>1. /\ mix[18] = b[18] /\ mix[19] = b[19] /\ mix[20] = b[20] /\ mix[21] = b[21]
            BY <2>4, HeaderOffsets
        <3> QED BY <2>1, <2>2, <3>1 DEF NSlots, Lower, U16
    <2> QED BY <1>0, <2>3, <2>4
<1>11. k - 1 < NSlots(mix) BY <1>1, <1>2, <1>10
<1>12. off + len <= Lower(mix) BY <1>7, <1>10
<1> QED BY <1>6, <1>8, <1>9, <1>11, <1>12 DEF HasTuple, PAGE_HEADER_SIZE

-----------------------------------------------------------------------------
(* The inductive invariant for torn pages.  What the durable page keeps of a *)
(* torn page becomes what the file keeps of it when the power fails again,   *)
(* and what the file keeps becomes durable with a sync.                      *)

ReadsBack(buf, rs) ==
    \A k \in DOMAIN rs : /\ HasTuple(buf, k - 1)
                         /\ GetTuple(buf, k - 1) = Tuple[rs[k]]
                         /\ Len(Tuple[rs[k]]) < 65536

Torn ==
    /\ \A id \in mixed : /\ ReadsBack(file[id].buf, filed[id])
                         /\ id \in DOMAIN synced => ReadsBack(file[id].buf, synced[id])
    /\ \A id \in torn : ReadsBack(durable[id].buf, synced[id])

LEMMA NothingToRead == \A buf : ReadsBack(buf, <<>>)
BY DEF ReadsBack

\* A mixture of two versions of a page, the second with all rows of the first
LEMMA MixtureKeepsRows ==
    ASSUME NEW old \in PageSet, NEW new \in PageSet, NEW kept \in SUBSET Sectors,
           NEW rs \in Seq(Rows), NEW more \in Seq(Rows), Begins(rs, more),
           Layout(old.buf, Encoded(rs)), Layout(new.buf, Encoded(more))
    PROVE  ReadsBack(Mixture(old, new, kept).buf, rs)
<1> DEFINE ts == Encoded(rs)
           us == Encoded(more)
           mix == Mixture(old, new, kept).buf
           a == old.buf
           b == new.buf
<1>1. PICK n \in Nat, m \in Nat : /\ n = Len(rs) /\ m = Len(more) /\ n <= m
                                  /\ DOMAIN rs = 1 .. n /\ DOMAIN more = 1 .. m
                                  /\ rs = SubSeq(more, 1, n)
    <2>1. PICK n \in Nat, m \in Nat : /\ n = Len(rs) /\ m = Len(more)
                                      /\ DOMAIN rs = 1 .. n /\ DOMAIN more = 1 .. m
        OBVIOUS
    <2>2. Len(rs) <= Len(more) /\ rs = SubSeq(more, 1, Len(rs)) BY DEF Begins
    <2> QED BY ONLY <2>1, <2>2
<1>2. /\ ts \in Seq(Seq(Byte)) /\ Len(ts) = n /\ us \in Seq(Seq(Byte)) /\ Len(us) = m
      /\ \A k \in 1 .. n : ts[k] = Tuple[rs[k]]
      /\ \A k \in 1 .. m : us[k] = Tuple[more[k]]
    <2>1. ts = [k \in DOMAIN rs |-> Tuple[rs[k]]] /\ us = [k \in DOMAIN more |-> Tuple[more[k]]]
        BY DEF Encoded
    <2>2. ts \in Seq(Seq(Byte)) /\ us \in Seq(Seq(Byte)) BY EncodedTyped
    <2> HIDE DEF ts, us
    <2> QED BY ONLY <1>1, <2>1, <2>2
<1>3. Layout(a, ts) /\ Layout(b, us) OBVIOUS
<1> HIDE DEF ts, us
<1>4. \A k \in 1 .. n : ts[k] = us[k]
    <2> TAKE k \in 1 .. n
    <2>1. k \in 1 .. m BY <1>1
    <2>2. SubSeq(more, 1, n)[k] = more[k] BY <1>1
    <2>3. rs[k] = more[k] BY ONLY <1>1, <2>2
    <2> QED BY <1>2, <2>1, <2>3
<1>5. /\ a \in [Offsets -> Byte] /\ b \in [Offsets -> Byte] BY DEF PageSet
<1>t. ts \in Seq(Seq(Byte)) /\ us \in Seq(Seq(Byte)) BY <1>2
<1>6. mix = [i \in Offsets |-> IF i \div SectorSize \in kept THEN b[i] ELSE a[i]]
    BY DEF Mixture
<1> HIDE DEF mix, a, b
<1>7. \A i \in Offsets : mix[i] = a[i] \/ mix[i] = b[i] BY <1>6
<1>8. \/ \A i \in Offsets : i \in 18 .. 23 => mix[i] = a[i]
      \/ \A i \in Offsets : i \in 18 .. 23 => mix[i] = b[i]
    <2>1. SectorSize \in Nat /\ SectorSize >= 36
        <3>1. PICK s \in 36 .. PAGE_SIZE : s = SectorSize BY PageFileAssumption
        <3> QED BY <3>1, PageSizeFacts
    <2>2. \A i \in Offsets : i \in 18 .. 23 => i \div SectorSize = 0
        <3> SUFFICES ASSUME NEW i \in Offsets, i \in 18 .. 23 PROVE i \div SectorSize = 0
            OBVIOUS
        <3>1. i \in Nat /\ i < SectorSize BY <2>1, OffsetsAre
        <3> QED BY <2>1, <3>1, SmallQuotient
    <2> QED BY <1>6, <2>2
<1>9. Returns(mix, ts)
    <2>1. Starts(ts, us) BY ONLY <1>1, <1>2, <1>4 DEF Starts
    <2>2. MixOf(mix, a, b) BY <1>7, <1>8 DEF MixOf
    <2> QED BY ONLY <1>t, <1>3, <1>5, <2>1, <2>2, MixtureReads
<1>10. ASSUME NEW k \in DOMAIN rs
       PROVE  /\ HasTuple(mix, k - 1) /\ GetTuple(mix, k - 1) = Tuple[rs[k]]
              /\ Len(Tuple[rs[k]]) < 65536
    <2>1. k \in 1 .. n BY <1>1
    <2>2. ts[k] = Tuple[rs[k]] /\ k \in 1 .. Len(ts) BY <1>2, <2>1
    <2>3. Len(ts[k]) < 65536 BY ONLY <1>t, <1>3, <2>2, TupleFits
    <2>4. HasTuple(mix, k - 1) /\ GetTuple(mix, k - 1) = ts[k]
        BY ONLY <1>9, <2>2 DEF Returns
    <2> QED BY ONLY <2>2, <2>3, <2>4
<1>11. ReadsBack(mix, rs) BY <1>10 DEF ReadsBack
<1> QED BY <1>11 DEF mix

LEMMA PowerLossTorn == ASSUME IInv, Torn, PowerLoss PROVE Torn'
<1>1. TypeOK BY DEF IInv
<1>2. PICK n \in 0 .. count, kept \in [Unsynced -> SUBSET Sectors] :
        LET left == [id \in 0 .. n - 1 |->
                        IF id \in Unsynced THEN Mixture(Old(id), file[id], kept[id])
                        ELSE file[id]]
            new  == {id \in 0 .. n - 1 : left[id] = file[id]}
            old  == {id \in DOMAIN durable : left[id] = durable[id]} \ new
            bad  == (0 .. n - 1) \ (old \cup new)
        IN  /\ DOMAIN durable \subseteq 0 .. n - 1
            /\ count' = n /\ file' = left /\ durable' = left
            /\ filed' = [id \in 0 .. n - 1 |-> IF id \in new THEN filed[id]
                                              ELSE IF id \in old THEN synced[id] ELSE <<>>]
            /\ synced' = [id \in 0 .. n - 1 |->
                            IF id \in bad THEN Survivors(id) ELSE filed'[id]]
            /\ mixed' = (mixed \cap new) \cup (torn \cap old) \cup bad
            /\ torn' = mixed'
            /\ tainted' = tainted \cup bad
    BY DEF PowerLoss
<1>3. PICK ids : ids = 0 .. n - 1 OBVIOUS
<1>4. PICK left : left = [id \in ids |->
                            IF id \in Unsynced THEN Mixture(Old(id), file[id], kept[id])
                            ELSE file[id]]
    OBVIOUS
<1>5. PICK new : new = {id \in ids : left[id] = file[id]} OBVIOUS
<1>6. PICK old : old = {id \in DOMAIN durable : left[id] = durable[id]} \ new OBVIOUS
<1>7. PICK bad : bad = ids \ (old \cup new) OBVIOUS
<1>8. /\ DOMAIN durable \subseteq ids
      /\ file' = left /\ durable' = left
      /\ filed' = [id \in ids |-> IF id \in new THEN filed[id]
                                  ELSE IF id \in old THEN synced[id] ELSE <<>>]
      /\ synced' = [id \in ids |-> IF id \in bad THEN Survivors(id) ELSE filed'[id]]
      /\ mixed' = (mixed \cap new) \cup (torn \cap old) \cup bad
      /\ torn' = mixed'
    BY <1>2, <1>3, <1>4, <1>5, <1>6, <1>7, Zenon
<1>9. ids \subseteq DOMAIN file
    <2>1. count \in Nat /\ DOMAIN file = 0 .. count - 1 BY <1>1 DEF TypeOK
    <2> QED BY <1>3, <2>1
<1>10. ASSUME NEW id \in mixed'
       PROVE  ReadsBack(left[id].buf, filed'[id]) /\ ReadsBack(left[id].buf, synced'[id])
    <2>1. CASE id \in mixed \cap new
        <3>1. id \in ids /\ id \notin bad /\ left[id] = file[id] BY <2>1, <1>5, <1>7
        <3>2. filed'[id] = filed[id] /\ synced'[id] = filed'[id] BY <3>1, <2>1, <1>8
        <3>3. ReadsBack(file[id].buf, filed[id]) BY <2>1 DEF Torn
        <3> QED BY <3>1, <3>2, <3>3
    <2>2. CASE id \in torn \cap old
        <3>1. id \in ids /\ id \notin bad /\ id \notin new /\ left[id] = durable[id]
            BY <2>2, <1>6, <1>7, <1>8
        <3>2. filed'[id] = synced[id] /\ synced'[id] = filed'[id] BY <3>1, <2>2, <1>8
        <3>3. ReadsBack(durable[id].buf, synced[id]) BY <2>2 DEF Torn
        <3> QED BY <3>1, <3>2, <3>3
    <2>3. CASE id \in bad
        <3>1. id \in ids /\ id \notin new /\ id \notin old BY <2>3, <1>7
        <3>2. filed'[id] = <<>> /\ synced'[id] = Survivors(id) BY <2>3, <3>1, <1>8
        <3>3. CASE id \in DOMAIN durable \ tainted /\ Begins(synced[id], filed[id])
            <4>1. Survivors(id) = synced[id] BY <3>3 DEF Survivors
            <4>2. id \in DOMAIN file \ tainted BY <3>1, <3>3, <1>9
            <4>3. id \in Unsynced BY <3>1, <1>4, <1>5
            <4>4. left[id] = Mixture(durable[id], file[id], kept[id]) /\ kept[id] \in SUBSET Sectors
                BY <3>1, <3>3, <4>3, <1>4, OldFacts
            <4>5. /\ file[id] \in PageSet /\ durable[id] \in PageSet
                  /\ synced[id] \in Seq(Rows) /\ filed[id] \in Seq(Rows)
                BY <1>1, <3>3, <4>2 DEF TypeOK
            <4>6. /\ Layout(durable[id].buf, Encoded(synced[id]))
                  /\ Layout(file[id].buf, Encoded(filed[id]))
                BY <3>3, <4>2 DEF IInv, SoundPages
            <4>7. ReadsBack(left[id].buf, synced[id])
                BY <3>3, <4>4, <4>5, <4>6, MixtureKeepsRows
            <4> QED BY <3>2, <4>1, <4>7, NothingToRead
        <3>4. CASE ~(id \in DOMAIN durable \ tainted /\ Begins(synced[id], filed[id]))
            <4>1. Survivors(id) = <<>> BY <3>4 DEF Survivors
            <4> QED BY <3>2, <4>1, NothingToRead
        <3> QED BY <3>3, <3>4
    <2> QED BY <2>1, <2>2, <2>3, <1>8
<1> QED BY <1>8, <1>10 DEF Torn

LEMMA NextTorn == IInv /\ Torn /\ [Next]_vars => Torn'
<1> SUFFICES ASSUME IInv, Torn, [Next]_vars PROVE Torn' OBVIOUS
<1>1. /\ count \in Nat /\ DOMAIN file = 0 .. count - 1 /\ mixed \subseteq DOMAIN file
      /\ torn \subseteq DOMAIN durable /\ DOMAIN durable \subseteq DOMAIN file
      /\ DOMAIN filed = DOMAIN file
    BY DEF IInv, TypeOK
<1>2. CASE OpenHeap
    <2>1. CASE count = 0
        <3>1. mixed = {} BY <1>1, <2>1
        <3>2. mixed' = {} /\ torn' = {} BY <1>2, <2>1, <3>1 DEF OpenHeap
        <3> QED BY <3>2 DEF Torn
    <2>2. CASE count # 0
        <3>1. UNCHANGED <<file, durable, filed, synced, mixed, torn>>
            BY <1>2, <2>2 DEF OpenHeap
        <3> QED BY <3>1 DEF Torn
    <2> QED BY <2>1, <2>2
<1>3. CASE Sync
    <2>1. /\ durable' = file /\ synced' = filed /\ torn' = mixed
          /\ UNCHANGED <<file, filed, mixed>>
        BY <1>3 DEF Sync
    <2> QED BY <2>1 DEF Torn
<1>4. CASE PowerLoss BY <1>4, PowerLossTorn
<1>5. CASE \E ty \in KindsUsed : AppendPage(ty)
    <2>1. PICK ty \in KindsUsed : AppendPage(ty) BY <1>5
    <2>2. /\ file' = With(file, count, Page(AllocBuf(count, ty)))
          /\ filed' = With(filed, count, <<>>)
          /\ UNCHANGED <<durable, synced, mixed, torn>>
        BY <2>1 DEF AppendPage
    <2>3. \A id \in mixed : id \in DOMAIN file /\ id # count BY <1>1
    <2>4. \A id \in mixed : file'[id] = file[id] /\ filed'[id] = filed[id]
        BY <1>1, <2>2, <2>3 DEF With
    <2> QED BY <2>2, <2>4 DEF Torn
<1>6. CASE \E id \in DOMAIN pool : WriteBack(id)
    <2>1. PICK id \in DOMAIN pool : WriteBack(id) BY <1>6
    <2>2. /\ file' = [file EXCEPT ![id] = Page(pool[id].buf)]
          /\ filed' = [filed EXCEPT ![id] = rows[id]]
          /\ mixed' = mixed \ {id}
          /\ UNCHANGED <<durable, synced, torn>>
        BY <2>1 DEF WriteBack, WritePage
    <2>3. \A x \in mixed' : x \in mixed /\ file'[x] = file[x] /\ filed'[x] = filed[x]
        BY <1>1, <2>2
    <2> QED BY <2>2, <2>3 DEF Torn
<1>7. CASE UNCHANGED <<file, durable, filed, synced, mixed, torn>>
    BY <1>7 DEF Torn
<1>8. CASE \/ Exit
           \/ \E id \in DOMAIN file : Get(id)
           \/ \E id \in DOMAIN pool, row \in setup.rows : InsertRow(id, row)
           \/ \E id \in DOMAIN pool, field \in Fields : SetHeader(id, field)
           \/ \E id \in DOMAIN pool, ty \in KindsUsed : MakeFresh(id, ty)
    BY <1>8, <1>7 DEF Exit, Get, InsertRow, SetHeader, MakeFresh
<1>9. CASE UNCHANGED vars BY <1>9, <1>7 DEF vars
<1> QED BY <1>2, <1>3, <1>4, <1>5, <1>6, <1>8, <1>9 DEF Next

\* A write-back that adds rows to a page and that a power loss tears at any sector
\* loses none of the rows that were synced, and read_page without the checksum, as
\* the pool reads, still finds every one.
THEOREM TornWritesKeepRows == Spec => []TornKeepsRows
<1>1. Init => Torn BY DEF Init, Torn
<1>2. IInv /\ Torn => TornKeepsRows
    <2> SUFFICES ASSUME IInv, Torn, NEW id \in mixed \cap DOMAIN synced,
                        NEW k \in DOMAIN synced[id]
                 PROVE  LET row == synced[id][k]
                        IN  /\ HasTuple(file[id].buf, k - 1)
                            /\ Decodable(row.kind, GetTuple(file[id].buf, k - 1))
                            /\ Decode(row.kind, GetTuple(file[id].buf, k - 1)) = row
        BY DEF TornKeepsRows
    <2>1. PICK row : row = synced[id][k] OBVIOUS
    <2>2. ReadsBack(file[id].buf, synced[id]) BY DEF Torn
    <2>3. /\ HasTuple(file[id].buf, k - 1) /\ GetTuple(file[id].buf, k - 1) = Tuple[row]
          /\ Len(Tuple[row]) < 65536
        BY <2>1, <2>2 DEF ReadsBack
    <2>4. row \in Rows
        <3>1. synced[id] \in Seq(Rows) BY DEF IInv, TypeOK
        <3> QED BY <2>1, <3>1
    <2>5. row \in Row /\ Tuple[row] = Encode(row) BY <2>4, PageFileAssumption DEF Tuple
    <2>6. Decodable(row.kind, Encode(row)) /\ Decode(row.kind, Encode(row)) = row
        BY <2>3, <2>5, DecodeEncode
    <2> QED BY <2>1, <2>3, <2>5, <2>6
<1> QED BY <1>1, <1>2, NextTorn, AlwaysIInv, PTL DEF Spec
=============================================================================
