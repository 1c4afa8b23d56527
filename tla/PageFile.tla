------------------------------ MODULE PageFile ------------------------------
(***************************************************************************)
(* heap.ndb and its pages in memory, as bytes: heap.rs over page.rs, with  *)
(* tuples of codec.rs, and Engine::verify.  The pool holds every page that *)
(* was read; when it writes one is the caller's choice.                    *)
(*                                                                         *)
(* The checksum of a page is ideal: it is the content that it was computed *)
(* of, and it lies in the header.  A power loss leaves of every page that  *)
(* was not synced any mixture of old and new sectors.                      *)
(***************************************************************************)
EXTENDS SlottedPage, Codec

CONSTANTS
    Rows,         \* the rows that clients store
    Fields,       \* the bytes that header fields are set to, eight of each
    SectorSize,   \* what the disk writes as one
    MaxPages,     \* how many pages there are
    Setups        \* of one behaviour: the rows it is about and its bounds, how many
                  \*   rows are inserted, header fields set, pages made anew, pages
                  \*   written back, and how often the power fails

\* What Encode makes of the rows
Tuple == [row \in Rows |-> Encode(row)]

ASSUME PageFileAssumption ==
    /\ Rows \subseteq Row
    /\ \A f \in Fields : f \in Seq(Byte) /\ Len(f) = 8
    /\ SectorSize \in 36 .. PAGE_SIZE /\ MaxPages \in Nat
    /\ \A s \in Setups :
          /\ s.rows \subseteq Rows
          /\ {s.inserts, s.sets, s.fresh, s.writes, s.losses} \subseteq Nat

VARIABLES
    file,      \* heap.ndb: page ids to pages
    count,     \* how many whole pages it has: HeapFile.page_count
    durable,   \*   and what of it a power loss cannot take
    up,        \* the process runs
    pool,      \* the pages in memory
    \* -- history
    rows,      \* per page in memory, the rows it should hold
    filed,     \*   and those that the page in the file should hold
    synced,    \*   and those that the durable page holds
    mixed,     \* the pages of the file that are neither an old nor a new version
    torn,      \*   and those of the durable file
    tainted,   \* pages that were mixed once
    setup,
    done

vars == <<file, count, durable, up, pool, rows, filed, synced, mixed, torn, tainted, setup, done>>

\* A page is its bytes and its checksum.
Page(buf) == [buf |-> buf, crc |-> buf]                      \* recompute_crc
CrcMatches(page) == page.crc = page.buf                      \* check_crc

Does(what) == done[what] < setup[what] /\ done' = [done EXCEPT ![what] = @ + 1]

IdBytes(id) == LE32(id)
Zero(n) == [k \in 1 .. n |-> 0]

\* Page::alloc
AllocBuf(id, ty) ==
    SetNext(SetLsn(SetType(SetPageId(Empty, IdBytes(id)), ty), Zero(8)), Zero(4))

Init ==
    /\ file = <<>> /\ count = 0 /\ durable = <<>> /\ up = FALSE /\ pool = <<>>
    /\ rows = <<>> /\ filed = <<>> /\ synced = <<>>
    /\ mixed = {} /\ torn = {} /\ tainted = {}
    /\ setup \in Setups
    /\ done = [inserts |-> 0, sets |-> 0, fresh |-> 0, writes |-> 0, losses |-> 0]

Begins(s, t) == Len(s) <= Len(t) /\ s = SubSeq(t, 1, Len(s))
With(f, k, v) == [x \in DOMAIN f \cup {k} |-> IF x = k THEN v ELSE f[x]]

-----------------------------------------------------------------------------
(* heap.rs *)

\* HeapFile::open: an empty file gets its first page, which is synced.
OpenHeap ==
    /\ ~up /\ up' = TRUE
    /\ IF count = 0
       THEN /\ file' = With(file, 0, Page(AllocBuf(0, "super"))) /\ count' = 1
            /\ filed' = With(filed, 0, <<>>)
            /\ durable' = file' /\ synced' = filed' /\ torn' = mixed
       ELSE UNCHANGED <<file, count, durable, filed, synced, torn>>
    /\ UNCHANGED <<pool, rows, mixed, tainted, setup, done>>

\* read_page
ReadOk(id, check) ==
    /\ id < count
    /\ HasMagic(file[id].buf)
    /\ check => CrcMatches(file[id])

\* The pages at which Engine::verify would stop with an error
Faults == {id \in DOMAIN file : ~ReadOk(id, TRUE)}

\* append_page, of a page fresh from alloc
AppendPage(ty) ==
    LET id == count
    IN  /\ up /\ count < MaxPages
        /\ count' = count + 1
        /\ file' = With(file, id, Page(AllocBuf(id, ty)))
        /\ filed' = With(filed, id, <<>>)
        /\ UNCHANGED <<durable, up, pool, rows, synced, mixed, torn, tainted, setup, done>>

\* write_page: the page in memory gets the checksum, too.
WritePageStale(id) == /\ file' = [file EXCEPT ![id].buf = pool[id].buf]  \* mutant
                      /\ UNCHANGED pool
WritePage(id) == /\ pool' = [pool EXCEPT ![id] = Page(@.buf)]
                 /\ file' = [file EXCEPT ![id] = Page(pool[id].buf)]

WriteBack(id) ==
    /\ up /\ Does("writes")
    /\ WritePage(id)
    /\ filed' = [filed EXCEPT ![id] = rows[id]]
    /\ mixed' = mixed \ {id}
    /\ UNCHANGED <<count, durable, up, rows, synced, torn, tainted, setup>>

Sync ==
    /\ up /\ durable # file
    /\ durable' = file /\ synced' = filed /\ torn' = mixed
    /\ UNCHANGED <<file, count, up, pool, rows, filed, mixed, tainted, setup, done>>

-----------------------------------------------------------------------------
(* What the engine does with a page it has got from the pool. *)

\* BufferPool::get reads without looking at the checksum.
Get(id) ==
    /\ up /\ id \notin DOMAIN pool /\ ReadOk(id, FALSE)
    /\ pool' = With(pool, id, file[id])
    /\ rows' = With(rows, id, filed[id])
    /\ UNCHANGED <<file, count, durable, up, filed, synced, mixed, torn, tainted, setup, done>>

\* Page::insert of an encoded row, by the engine only into pages of its kind
InsertRow(id, row) ==
    LET buf == pool[id].buf
    IN  /\ up /\ TypeOf(buf) = row.kind /\ Fits(buf, Tuple[row])
        /\ Does("inserts")
        /\ pool' = [pool EXCEPT ![id].buf = Insert(buf, Tuple[row])]
        /\ rows' = [rows EXCEPT ![id] = Append(@, row)]
        /\ UNCHANGED <<file, count, durable, up, filed, synced, mixed, torn, tainted, setup>>

\* set_lsn, set_next, write_i64_at and write_u32_at: the fields of the header
SetHeader(id, field) ==
    LET buf == pool[id].buf
    IN  /\ up /\ Does("sets")
        /\ \E set \in {SetLsn(buf, field), SetNext(buf, field),
                       WriteI64At32(buf, field), WriteU32At32(buf, field)} :
              pool' = [pool EXCEPT ![id].buf = set]
        /\ UNCHANGED <<file, count, durable, up, rows, filed, synced, mixed, torn, tainted, setup>>

\* copy_from of a page fresh from alloc
MakeFresh(id, ty) ==
    /\ up /\ Does("fresh")
    /\ pool' = [pool EXCEPT ![id] = Page(AllocBuf(id, ty))]
    /\ rows' = [rows EXCEPT ![id] = <<>>]
    /\ UNCHANGED <<file, count, durable, up, filed, synced, mixed, torn, tainted, setup>>

-----------------------------------------------------------------------------
(* Failures. *)

Gone == up' = FALSE /\ pool' = <<>> /\ rows' = <<>>

\* The process ends, whichever way.
Exit ==
    /\ up /\ Gone
    /\ UNCHANGED <<file, count, durable, filed, synced, mixed, torn, tainted, setup, done>>

\* Sector by sector the new page or the old one, which behind the end of the
\* durable file is zeros; the checksum lies in the first sector.
Blank == [i \in Offsets |-> 0]
Sectors == 0 .. (PAGE_SIZE - 1) \div SectorSize
Mixture(old, new, kept) ==
    [buf |-> [i \in Offsets |-> IF i \div SectorSize \in kept THEN new.buf[i] ELSE old.buf[i]],
     crc |-> IF 0 \in kept THEN new.crc ELSE old.crc]
Old(id) == IF id \in DOMAIN durable THEN durable[id] ELSE Page(Blank)
Unsynced == {id \in DOMAIN file : file[id] # Old(id)}

\* The rows that a page torn in its write-back should still have: those of the
\* durable page when the new one only has more of them, and nobody has torn it before
Survivors(id) ==
    IF id \in DOMAIN durable \ tainted /\ Begins(synced[id], filed[id])
    THEN synced[id] ELSE <<>>

\* The pages that were written and not synced become mixtures, and pages at the
\* end of the file may be missing: a part of one does not count.
PowerLoss ==
    /\ up /\ Does("losses") /\ Gone
    /\ \E n \in 0 .. count, kept \in [Unsynced -> SUBSET Sectors] :
        LET left == [id \in 0 .. n - 1 |->
                        IF id \in Unsynced THEN Mixture(Old(id), file[id], kept[id])
                        ELSE file[id]]
            new  == {id \in 0 .. n - 1 : left[id] = file[id]}
            old  == {id \in DOMAIN durable : left[id] = durable[id]} \ new
            bad  == (0 .. n - 1) \ (old \cup new)
        IN  /\ DOMAIN durable \subseteq 0 .. n - 1
            /\ count' = n /\ file' = left /\ durable' = left
            /\ filed' = [id \in 0 .. n - 1 |-> IF id \in new THEN filed[id]
                                              ELSE IF id \in old THEN synced[id] ELSE <<>>]
            /\ synced' = [id \in 0 .. n - 1 |->
                            IF id \in bad THEN Survivors(id) ELSE filed'[id]]
            /\ mixed' = (mixed \cap new) \cup (torn \cap old) \cup bad
            /\ torn' = mixed'
            /\ tainted' = tainted \cup bad
    /\ UNCHANGED setup

KindsUsed == {row.kind : row \in setup.rows}

Next ==
    \/ OpenHeap \/ Sync \/ Exit \/ PowerLoss
    \/ \E ty \in KindsUsed : AppendPage(ty)
    \/ \E id \in DOMAIN file : Get(id)
    \/ \E id \in DOMAIN pool :
          \/ WriteBack(id)
          \/ \E row \in setup.rows : InsertRow(id, row)
          \/ \E field \in Fields : SetHeader(id, field)
          \/ \E ty \in KindsUsed : MakeFresh(id, ty)

Spec == Init /\ [][Next]_vars
-----------------------------------------------------------------------------
(* Properties. *)

Encoded(rs) == [k \in DOMAIN rs |-> Tuple[rs[k]]]

PageSet == [buf : [Offsets -> Byte], crc : [Offsets -> Byte]]

TypeOK ==
    /\ count \in Nat /\ up \in BOOLEAN /\ setup \in Setups
    /\ done \in [{"inserts", "sets", "fresh", "writes", "losses"} -> Nat]
    /\ file \in [0 .. count - 1 -> PageSet] /\ filed \in [DOMAIN file -> Seq(Rows)]
    /\ durable \in [DOMAIN durable -> PageSet] /\ synced \in [DOMAIN durable -> Seq(Rows)]
    /\ pool \in [DOMAIN pool -> PageSet] /\ rows \in [DOMAIN pool -> Seq(Rows)]
    /\ DOMAIN durable \subseteq DOMAIN file /\ DOMAIN pool \subseteq DOMAIN file
    /\ mixed \subseteq DOMAIN file /\ torn \subseteq DOMAIN durable
    /\ mixed \cup torn \subseteq tainted

\* The tuples of a page lie one behind the other between the header and the
\* directory, which never meet: no insert, no change of the header, no reload of
\* the page lets one overwrite another (Page::insert).
LayoutOK ==
    \A id \in DOMAIN pool \ tainted : Layout(pool[id].buf, Encoded(rows[id]))

\* What comes back from a page, in memory or in the file, is what was stored, in
\* order and field by field, compressed or not, whatever the lengths.
Holds(buf, rs) ==
    LET tuples == AllTuples(buf)
    IN  /\ Len(tuples) = Len(rs)
        /\ \A k \in DOMAIN rs : /\ Decodable(rs[k].kind, tuples[k])
                               /\ Decode(rs[k].kind, tuples[k]) = rs[k]
RowsAreKept ==
    /\ \A id \in DOMAIN pool \ tainted : Holds(pool[id].buf, rows[id])
    /\ \A id \in DOMAIN file \ tainted : Holds(file[id].buf, filed[id])

\* A row is refused if and only if it does not fit: the page is used to the last
\* byte and not one further.
Used(rs) ==
    LET upto[k \in 0 .. Len(rs)] ==
            IF k = 0 THEN PAGE_HEADER_SIZE ELSE upto[k - 1] + Len(Tuple[rs[k]]) + 4
    IN  upto[Len(rs)]
FitsExactly ==
    \A id \in DOMAIN pool \ tainted : \A row \in Rows :
        Fits(pool[id].buf, Tuple[row]) <=> Used(Append(rows[id], row)) <= PAGE_SIZE

\* verify finds fault with pages that a power loss has left half-written and with
\* no other; it finds every one, until the page is written back as it is, or until
\* a second power loss puts an older version together again.
VerifyFinds ==
    /\ Faults \subseteq mixed
    /\ done.losses <= 1 => mixed \subseteq Faults

\* A write-back that a power loss tears, when it only added rows to a page, loses
\* none of those the page had in the file, whichever sectors were written.
TornKeepsRows ==
    \A id \in mixed \cap DOMAIN synced : \A k \in DOMAIN synced[id] :
        LET row == synced[id][k]
        IN  /\ HasTuple(file[id].buf, k - 1)
            /\ Decodable(row.kind, GetTuple(file[id].buf, k - 1))
            /\ Decode(row.kind, GetTuple(file[id].buf, k - 1)) = row
=============================================================================
