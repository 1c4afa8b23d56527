-------------------------------- MODULE Pages --------------------------------
(***************************************************************************)
(* Pages of heap.ndb, the freelist and chains of pages: what page.rs,      *)
(* heap.rs and engine.rs do with them whatever the domain.                 *)
(*                                                                         *)
(* A store is a record of two functions over the same page ids: `mem', the *)
(* pages as the buffer pool shows them, and `disk', as heap.ndb holds      *)
(* them.  A row is a tuple, and a page holds PageCap of them: the byte     *)
(* arithmetic of Page::insert is abstracted to a count.                    *)
(***************************************************************************)
EXTENDS Integers, Sequences, FiniteSets, SequencesExt

CONSTANT PageCap      \* how many rows fit in a page

ASSUME PagesAssumption == PageCap \in Nat \ {0}

ROOT_PAGES == 5
Super == 0            \* the page that holds the head of the freelist

-----------------------------------------------------------------------------
(* Pages.  `at32' is the i64 at offset 32: the chat id in a chat page, the  *)
(* head of the freelist in page 0, and 0 in a page fresh from Page::alloc.  *)

Alloc(ty) == [ty |-> ty, at32 |-> 0, next |-> 0, rows |-> <<>>]

HasRoom(page)   == Len(page.rows) < PageCap
Insert(page, m) == [page EXCEPT !.rows = Append(@, m)]

\* HeapFile.page_count: pages are never removed
SizePages(heap) == LET ids == DOMAIN heap \ {Super}
                   IN  IF ids = {} THEN ROOT_PAGES ELSE Max(ids) + 1

\* insert of a map
Put(f, k, v) == [x \in DOMAIN f \cup {k} |-> IF x = k THEN v ELSE f[x]]

\* HeapFile::append_page writes the file, past the buffer pool.
AppendPage(s, page) ==
    LET id == SizePages(s.disk)
    IN  [mem |-> Put(s.mem, id, page), disk |-> Put(s.disk, id, page)]

\* HeapFile::ensure_page_count
EnsurePageCount(s, n) ==
    LET grown[k \in Nat] == IF k = 0 THEN s ELSE AppendPage(grown[k - 1], Alloc("free"))
        missing == n - SizePages(s.disk)
    IN  IF missing <= 0 THEN s ELSE grown[missing]

FreelistHead(s) == s.mem[Super].at32

\* alloc_page: pop the freelist, or extend the file
AllocPageKept(s, ty) ==                                              \* mutant
    LET head == FreelistHead(s)
    IN  IF head = 0
        THEN [id |-> SizePages(s.disk), s |-> AppendPage(s, Alloc(ty))]
        ELSE [id |-> head, s |-> [s EXCEPT !.mem[head] = Alloc(ty)]]
AllocPage(s, ty) ==
    LET head == FreelistHead(s)
    IN  IF head = 0
        THEN [id |-> SizePages(s.disk), s |-> AppendPage(s, Alloc(ty))]
        ELSE [id |-> head,
              s |-> [s EXCEPT !.mem[head] = Alloc(ty),
                              !.mem[Super].at32 = s.mem[head].next]]

\* free_page
FreePageUnlinked(s, id) ==                                           \* mutant
    [s EXCEPT !.mem[id] = Alloc("free"), !.mem[Super].at32 = id]
FreePage(s, id) ==
    [s EXCEPT !.mem[id] = [Alloc("free") EXCEPT !.next = FreelistHead(s)],
              !.mem[Super].at32 = id]

-----------------------------------------------------------------------------
(* Chains: pages linked by `next', followed until 0 or a page seen before.  *)

Chain(pages, head) ==
    LET follow[sofar \in Seq(DOMAIN pages) \ {<<>>}] ==
            LET next == pages[Last(sofar)].next
            IN  IF next = 0 \/ next \in ToSet(sofar) THEN sofar
                ELSE follow[Append(sofar, next)]
    IN  IF head = 0 THEN <<>> ELSE follow[<<head>>]
=============================================================================
