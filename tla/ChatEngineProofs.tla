-------------------------- MODULE ChatEngineProofs --------------------------
(***************************************************************************)
(* Proofs about the message index (MsgIndex), the pages of the chats       *)
(* (ChatPages) and the chat log's engine (ChatEngine), for all values of   *)
(* the constants.                                                          *)
(*                                                                         *)
(* The invariant, Typed, says that at every moment there is one number n   *)
(* of pages that the file, the buffer pool, the tips, the index, the       *)
(* snapshot and the records of the log agree on: none of them names a page *)
(* that is not there, so ensure_page_count never extends the file.         *)
(* A second one, Carries, says for clients that never trim or reuse an id  *)
(* what is on the pages: each page belongs to one chat for good, its rows  *)
(* are a prefix of what the log has for it, and the index leads to every   *)
(* message but those that replay will still redo.                          *)
(***************************************************************************)
EXTENDS ChatEngine, PagesProofs, FiniteSetTheorems, TLAPS

\* An index whose count is right and whose locations were packed
Counted(idx) ==
    /\ idx = [at |-> idx.at, size |-> idx.size]
    /\ idx.at = [key \in Keys(idx) |-> idx.at[key]]
    /\ IsFiniteSet(Keys(idx))
    /\ idx.size = Cardinality(Keys(idx))
    /\ \A key \in Keys(idx) :
          /\ idx.at[key] \in Nat
          /\ key = <<key[1], key[2]>>

\* Division and remainder by SLOTS
LEMMA Small == \A x \in Nat : x < 65536 => x % 65536 = x
  OBVIOUS
LEMMA ComposeQuotient == \A p, s \in Nat : s < 65536 => ((p * 65536) + s) \div 65536 = p
  OBVIOUS
LEMMA ComposeRemainder == \A p, s \in Nat : s < 65536 => ((p * 65536) + s) % 65536 = s
  OBVIOUS
LEMMA Quotient == \A v \in Nat : v \div 65536 \in Nat
  OBVIOUS
LEMMA Remainder == \A v \in Nat : v % 65536 \in Nat /\ v % 65536 < 65536
  OBVIOUS
LEMMA Decompose == \A v \in Nat : ((v \div 65536) * 65536) + (v % 65536) = v
  OBVIOUS

\* pack_loc and unpack_loc are inverse as long as the slot fits in 16 bits.
THEOREM PackUnpack ==
    ASSUME NEW page \in Nat, NEW slot \in Nat, slot < SLOTS
    PROVE  /\ PackLoc(page, slot) \in Nat
           /\ UnpackLoc(PackLoc(page, slot)) = [page |-> page, slot |-> slot]
<1>1. slot \in Nat /\ slot < 65536
  BY DEF SLOTS
<1>2. slot % 65536 = slot
  BY <1>1, Small
<1>3. PackLoc(page, slot) = (page * 65536) + slot
  BY <1>2 DEF PackLoc, SLOTS
<1>4. (page * 65536) + slot \in Nat
  BY <1>1
<1>5. ((page * 65536) + slot) \div 65536 = page /\ ((page * 65536) + slot) % 65536 = slot
  BY <1>1, ComposeQuotient, ComposeRemainder
<1>6. UnpackLoc(PackLoc(page, slot)) = [page |-> page, slot |-> slot]
  <2> DEFINE packed == PackLoc(page, slot)
  <2>1. packed \div SLOTS = page /\ packed % SLOTS = slot
    BY <1>3, <1>5 DEF SLOTS
  <2> HIDE DEF packed
  <2>2. UnpackLoc(packed) = [page |-> page, slot |-> slot]
    BY <2>1 DEF UnpackLoc
  <2> QED
    BY <2>2 DEF packed
<1> QED
  BY <1>3, <1>4, <1>6

\* The other direction: every packed number comes from its page and slot.
LEMMA UnpackPack ==
    ASSUME NEW packed \in Nat
    PROVE  PackLoc(UnpackLoc(packed).page, UnpackLoc(packed).slot) = packed
<1> DEFINE p == packed \div 65536
           s == packed % 65536
<1>1. p \in Nat /\ s \in Nat /\ s < 65536
  <2>1. p \in Nat BY Quotient
  <2>2. s \in Nat /\ s < 65536 BY Remainder
  <2> HIDE DEF p, s
  <2> QED BY <2>1, <2>2
<1>2. (p * 65536) + s = packed
  BY Decompose
<1>3. UnpackLoc(packed).page = p /\ UnpackLoc(packed).slot = s
  BY DEF UnpackLoc, SLOTS
<1> HIDE DEF p, s
<1>4. s % 65536 = s
  BY <1>1, Small
<1>5. PackLoc(p, s) = (p * 65536) + s
  BY <1>4 DEF PackLoc, SLOTS
<1> QED
  BY <1>2, <1>3, <1>5

\* CompactMsgIndex::set counts a new entry once and a replaced one not at all.
THEOREM SetLocCounts ==
    ASSUME NEW idx, Counted(idx), NEW chat, NEW id, NEW page \in Nat, NEW slot \in Nat
    PROVE  Counted(SetLoc(idx, chat, id, page, slot))
<1> DEFINE key == <<chat, id>>
           new == SetLoc(idx, chat, id, page, slot)
<1>1. Keys(new) = Keys(idx) \cup {key}
  BY DEF SetLoc, Keys, WithLoc
<1> HIDE DEF key
<1>2. /\ IsFiniteSet(Keys(new))
      /\ Cardinality(Keys(new)) =
            IF key \in Keys(idx) THEN Cardinality(Keys(idx))
                                   ELSE Cardinality(Keys(idx)) + 1
  <2>1. IsFiniteSet(Keys(idx))
    BY DEF Counted
  <2> QED
    BY <1>1, <2>1, FS_AddElement
<1>3. new.size = Cardinality(Keys(new))
  <2>1. idx.size = Cardinality(Keys(idx)) /\ Cardinality(Keys(idx)) \in Nat
    BY FS_CardinalityType DEF Counted
  <2>2. new.size = idx.size + IF key \in Keys(idx) THEN 0 ELSE 1
    BY DEF SetLoc, key
  <2> HIDE DEF new
  <2> QED
    BY <1>2, <2>1, <2>2
<1>4. PackLoc(page, slot) \in Nat
  BY DEF PackLoc, SLOTS
<1>5. \A k \in Keys(new) : new.at[k] = IF k = key THEN PackLoc(page, slot) ELSE idx.at[k]
  BY <1>1 DEF SetLoc, WithLoc, Keys, key
<1>6. \A k \in Keys(new) : new.at[k] \in Nat /\ k = <<k[1], k[2]>>
  <2>1. \A k \in Keys(idx) : idx.at[k] \in Nat /\ k = <<k[1], k[2]>>
    BY DEF Counted
  <2>2. key = <<key[1], key[2]>>
    BY DEF key
  <2> HIDE DEF new
  <2> QED
    BY <1>1, <1>4, <1>5, <2>1, <2>2
<1>7. new = [at |-> new.at, size |-> new.size]
  BY DEF SetLoc
<1>8. new.at = [k \in Keys(new) |-> new.at[k]]
  BY DEF SetLoc, WithLoc, Keys
<1>9. Counted(new)
  <2> HIDE DEF new
  <2> QED
    BY <1>2, <1>3, <1>6, <1>7, <1>8, Zenon DEF Counted
<1> QED
  BY <1>9

\* CompactMsgIndex::delete_chat takes exactly the entries of the chat off the count.
THEOREM DeleteChatCounts ==
    ASSUME NEW idx, Counted(idx), NEW chat
    PROVE  /\ Counted(DeleteChat(idx, chat))
           /\ KeysOf(DeleteChat(idx, chat), chat) = {}
<1> DEFINE new == DeleteChat(idx, chat)
           gone == KeysOf(idx, chat)
<1>1. Keys(new) = Keys(idx) \ gone
  BY DEF DeleteChat, Keys
<1>2. gone \subseteq Keys(idx)
  BY DEF KeysOf
<1>3. IsFiniteSet(gone) /\ IsFiniteSet(Keys(new))
  BY <1>1, <1>2, FS_Subset, FS_Difference DEF Counted
<1>4. Cardinality(Keys(new)) = Cardinality(Keys(idx)) - Cardinality(Keys(idx) \cap gone)
  BY <1>1, FS_Difference DEF Counted
<1>5. Keys(idx) \cap gone = gone
  BY <1>2
<1>6. new.size = Cardinality(Keys(new))
  BY <1>4, <1>5 DEF Counted, DeleteChat
<1>7. \A k \in Keys(new) : new.at[k] = idx.at[k]
  BY <1>1 DEF DeleteChat
<1>8. \A k \in Keys(new) : new.at[k] \in Nat /\ k = <<k[1], k[2]>>
  BY <1>1, <1>7 DEF Counted
<1>9. new = [at |-> new.at, size |-> new.size] /\ new.at = [k \in Keys(new) |-> new.at[k]]
  BY DEF DeleteChat, Keys
<1>10. KeysOf(new, chat) = {}
  BY <1>1 DEF KeysOf
<1>11. Counted(new)
  <2> HIDE DEF new
  <2> QED
    BY <1>3, <1>6, <1>8, <1>9, Zenon DEF Counted
<1> QED
  BY <1>10, <1>11

\* What save_msg_index writes of a counted index, load_msg_index reads back: the
\* buffer is large enough, has no entry too many, and every place is the same.
THEOREM SnapshotRestores ==
    ASSUME NEW idx, Counted(idx)
    PROVE  /\ CanSave(idx)
           /\ LoadIndex(SaveIndex(idx)) = idx
<1> DEFINE entry(key) == [chat |-> key[1], id |-> key[2], loc |-> UnpackLoc(idx.at[key])]
           saved == Entries(idx)
           of(key) == CHOOSE e \in saved : <<e.chat, e.id>> = key
<1>1. Cardinality(Keys(idx)) \in Nat
  BY FS_CardinalityType DEF Counted
<1>2. CanSave(idx) /\ SaveIndex(idx) = saved
  BY <1>1 DEF Counted, CanSave, SaveIndex
<1>3. saved = {entry(key) : key \in Keys(idx)}
  BY DEF Entries
<1>4. \A key \in Keys(idx) : <<entry(key).chat, entry(key).id>> = key
  BY DEF Counted
<1>5. {<<e.chat, e.id>> : e \in saved} = Keys(idx)
  <2> HIDE DEF entry, saved
  <2> QED
    BY <1>3, <1>4
<1>6. ASSUME NEW key \in Keys(idx) PROVE of(key) = entry(key)
  <2>1. entry(key) \in saved /\ <<entry(key).chat, entry(key).id>> = key
    BY <1>3, <1>4
  <2>2. ASSUME NEW e \in saved, <<e.chat, e.id>> = key PROVE e = entry(key)
    <3>1. PICK k \in Keys(idx) : e = entry(k)
      BY <1>3
    <3> QED
      BY <2>2, <3>1, <1>4
  <2> HIDE DEF entry, saved
  <2> QED
    BY <2>1, <2>2
<1>7. ASSUME NEW key \in Keys(idx)
      PROVE  PackLoc(of(key).loc.page, of(key).loc.slot) = idx.at[key]
  <2>1. idx.at[key] \in Nat
    BY DEF Counted
  <2>2. entry(key).loc = UnpackLoc(idx.at[key])
    OBVIOUS
  <2> HIDE DEF entry, of
  <2> QED
    BY <1>6, <2>1, <2>2, UnpackPack
<1>8. LoadIndex(saved) = [at |-> [key \in Keys(idx) |-> idx.at[key]],
                          size |-> Cardinality(Keys(idx))]
  BY <1>5, <1>7 DEF LoadIndex
<1> QED
  BY <1>2, <1>8 DEF Counted

-----------------------------------------------------------------------------
(* Types. *)

Owners == Chats \cup {0}
Rows == {rows \in Seq(Message) : Len(rows) <= PageCap}

\* The pages of a heap of n pages, without the roots of the other domains; a link is one
\* of them, or 0.
Ids(n) == {0} \cup (ROOT_PAGES .. n - 1)
New(n) == ROOT_PAGES .. n - 1
PageSet(n) == [ty : {"super", "chat", "free"}, at32 : Owners \cup Ids(n), next : Ids(n),
               rows : Rows]
Heap(n) == {heap \in [Ids(n) -> PageSet(n)] :
               heap[0].at32 \in Ids(n) /\ \A p \in New(n) : heap[p].at32 \in Owners}
Store(n) == [mem : Heap(n), disk : Heap(n)]

Partial(K, V) == UNION {[D -> V] : D \in SUBSET K}
Places16(n) == {PackLoc(page, slot) : page \in New(n), slot \in 0 .. PageCap - 1}
Tips(n)  == Partial(Owners, [head : New(n), tail : New(n), count : Nat])
Index(n) == {idx \in [at : Partial(Owners \X Nat, Places16(n)), size : Nat] : Counted(idx)}
Rings    == Partial(Owners, {rr \in Seq(Message) : Len(rr) <= RingMax})
Engine(n) == [s : Store(n), tips : Tips(n), index : Index(n), ring : Rings]

LEMMA IdFacts ==
    ASSUME NEW n \in Nat, n >= ROOT_PAGES
    PROVE  /\ New(n) = Ids(n) \ {0} /\ 0 \in Ids(n) /\ 0 \notin New(n)
           /\ New(n) \subseteq Nat /\ Ids(n) \subseteq Nat
           /\ n \notin Ids(n) /\ Ids(n + 1) = Ids(n) \cup {n} /\ New(n + 1) = New(n) \cup {n}
           /\ n + 1 \in Nat /\ n + 1 >= ROOT_PAGES
  BY DEF New, Ids, ROOT_PAGES

LEMMA IdsGrow ==
    ASSUME NEW n \in Nat, NEW m \in Nat, n <= m
    PROVE  Ids(n) \subseteq Ids(m) /\ New(n) \subseteq New(m)
  BY DEF New, Ids

LEMMA CapFacts == PageCap \in Nat /\ PageCap > 0 /\ PageCap <= SLOTS /\ RingMax \in Nat /\ RingMax > 0
  BY PagesAssumption, ChatPagesAssumption

LEMMA AllocTyped ==
    ASSUME NEW n \in Nat, NEW ty \in {"super", "chat", "free"}
    PROVE  Alloc(ty) \in PageSet(n)
  <1>1. <<>> \in Seq(Message) /\ Len(<<>>) <= PageCap
    BY CapFacts
  <1> QED BY <1>1 DEF Alloc, PageSet, Ids, Rows

LEMMA HeapFacts ==
    ASSUME NEW n \in Nat, n >= ROOT_PAGES, NEW heap \in Heap(n)
    PROVE  /\ DOMAIN heap = Ids(n) /\ heap \in [Ids(n) -> PageSet(n)]
           /\ heap[0].at32 \in Ids(n)
           /\ \A p \in New(n) : heap[p].at32 \in Owners
           /\ \A p \in Ids(n) : heap[p] \in PageSet(n) /\ heap[p].next \in Ids(n)
                                /\ heap[p].rows \in Seq(Message) /\ Len(heap[p].rows) <= PageCap
  BY DEF Heap, PageSet, Rows

LEMMA IsHeap ==
    ASSUME NEW n \in Nat, n >= ROOT_PAGES, NEW heap, heap \in [Ids(n) -> PageSet(n)],
           heap[0].at32 \in Ids(n), \A p \in New(n) : heap[p].at32 \in Owners
    PROVE  heap \in Heap(n)
  BY DEF Heap

LEMMA SizeOf ==
    ASSUME NEW n \in Nat, n >= ROOT_PAGES, NEW heap, DOMAIN heap = Ids(n)
    PROVE  SizePages(heap) = n
  <1> DEFINE ids == DOMAIN heap \ {Super}
  <1>1. ids = New(n)
    BY IdFacts DEF Super
  <1>2. SizePages(heap) = IF ids = {} THEN ROOT_PAGES ELSE Max(ids) + 1
    BY DEF SizePages
  <1>3. CASE n = ROOT_PAGES
    <2>1. New(n) = {}
      BY <1>3 DEF New, ROOT_PAGES
    <2> HIDE DEF ids
    <2> QED BY <1>1, <1>2, <1>3, <2>1
  <1>4. CASE n > ROOT_PAGES
    <2>1. n - 1 \in ids /\ \A y \in ids : y \in Nat /\ n - 1 >= y
      BY <1>1, <1>4 DEF New, ROOT_PAGES
    <2> HIDE DEF ids
    <2>2. Max(ids) \in ids /\ \A y \in ids : Max(ids) >= y
      BY <2>1 DEF Max
    <2>3. Max(ids) = n - 1
      BY <2>1, <2>2
    <2> QED BY <1>2, <2>1, <2>3
  <1> QED BY <1>3, <1>4 DEF ROOT_PAGES

LEMMA HeapLinked ==
    ASSUME NEW n \in Nat, n >= ROOT_PAGES, NEW heap \in Heap(n)
    PROVE  Linked(heap)
  <1>1. IsFiniteSet(Ids(n))
    <2>1. IsFiniteSet(ROOT_PAGES .. n - 1)
      BY FS_Interval DEF ROOT_PAGES
    <2>2. Ids(n) = (ROOT_PAGES .. n - 1) \cup {0}
      BY DEF Ids
    <2> QED BY <2>1, <2>2, FS_AddElement
  <1> QED BY <1>1, HeapFacts, IdFacts DEF Linked

\* Heaps grow by a page at a time.
LEMMA HeapGrows ==
    ASSUME NEW n \in Nat, n >= ROOT_PAGES, NEW heap \in Heap(n),
           NEW page \in PageSet(n), page.at32 \in Owners
    PROVE  LET g == Put(heap, n, page)
           IN  /\ g \in Heap(n + 1) /\ g[n] = page
               /\ \A p \in Ids(n) : g[p] = heap[p]
  <1> DEFINE g == Put(heap, n, page)
  <1>1. g = [p \in Ids(n + 1) |-> IF p = n THEN page ELSE heap[p]]
    BY IdFacts, HeapFacts DEF Put
  <1>2. PageSet(n) \subseteq PageSet(n + 1)
    BY IdFacts DEF PageSet
  <1> HIDE DEF g
  <1>3. g[n] = page /\ \A p \in Ids(n) : g[p] = heap[p]
    BY <1>1, IdFacts
  <1>4. \A p \in Ids(n + 1) : g[p] \in PageSet(n + 1)
    <2>1. \A p \in Ids(n) : g[p] \in PageSet(n)
      BY <1>3, HeapFacts
    <2>2. Ids(n + 1) = Ids(n) \cup {n}
      BY IdFacts
    <2> QED BY <1>2, <1>3, <2>1, <2>2
  <1>5. g \in [Ids(n + 1) -> PageSet(n + 1)]
    BY <1>1, <1>4
  <1>6. g[0].at32 \in Ids(n + 1) /\ \A p \in New(n + 1) : g[p].at32 \in Owners
    BY <1>3, IdFacts, HeapFacts, SMTT(30)
  <1>7. n + 1 \in Nat /\ n + 1 >= ROOT_PAGES
    BY IdFacts
  <1>8. g \in Heap(n + 1)
    BY <1>5, <1>6, <1>7, IsHeap
  <1> QED BY <1>3, <1>8 DEF g

\* One page changes.
LEMMA HeapChanges ==
    ASSUME NEW n \in Nat, n >= ROOT_PAGES, NEW heap \in Heap(n), NEW id \in New(n),
           NEW page \in PageSet(n), page.at32 \in Owners
    PROVE  LET g == [heap EXCEPT ![id] = page]
           IN  /\ g \in Heap(n) /\ g[id] = page
               /\ \A p \in Ids(n) : p # id => g[p] = heap[p]
  <1> DEFINE g == [heap EXCEPT ![id] = page]
  <1>1. g \in [Ids(n) -> PageSet(n)]
    BY HeapFacts
  <1>2. g[id] = page /\ \A p \in Ids(n) : p # id => g[p] = heap[p]
    BY HeapFacts, IdFacts
  <1>3. id # 0 /\ \A p \in New(n) : p \in Ids(n)
    BY IdFacts
  <1> HIDE DEF g
  <1>4. g[0] = heap[0] /\ \A p \in New(n) : g[p].at32 \in Owners
    <2>1. /\ 0 \in Ids(n) /\ heap[0].at32 \in Ids(n)
          /\ \A p \in New(n) : heap[p].at32 \in Owners
      BY HeapFacts, IdFacts
    <2> QED BY <1>2, <1>3, <2>1
  <1>5. g \in Heap(n)
    BY <1>1, <1>4, HeapFacts, IsHeap
  <1> QED BY <1>2, <1>5 DEF g

\* The head of the freelist changes.
LEMMA HeadChanges ==
    ASSUME NEW n \in Nat, n >= ROOT_PAGES, NEW heap \in Heap(n), NEW id \in Ids(n)
    PROVE  LET g == [heap EXCEPT ![0].at32 = id]
           IN  /\ g \in Heap(n) /\ g[0].at32 = id
               /\ \A p \in New(n) : g[p] = heap[p]
  <1> DEFINE g == [heap EXCEPT ![0].at32 = id]
  <1>1. g = [heap EXCEPT ![0] = [heap[0] EXCEPT !.at32 = id]]
    OBVIOUS
  <1>2. heap[0] \in PageSet(n)
    BY HeapFacts, IdFacts
  <1>3. [heap[0] EXCEPT !.at32 = id] \in PageSet(n) /\ [heap[0] EXCEPT !.at32 = id].at32 = id
    BY <1>2 DEF PageSet
  <1>4. g \in [Ids(n) -> PageSet(n)] /\ g[0] = [heap[0] EXCEPT !.at32 = id]
        /\ \A p \in New(n) : g[p] = heap[p]
    <2> DEFINE page == [heap[0] EXCEPT !.at32 = id]
    <2>1. heap \in [Ids(n) -> PageSet(n)] /\ 0 \in Ids(n) /\ \A p \in New(n) : p # 0 /\ p \in Ids(n)
      BY HeapFacts, IdFacts
    <2>2. g = [heap EXCEPT ![0] = page] /\ page \in PageSet(n)
      BY <1>1, <1>3
    <2> HIDE DEF g, page
    <2>3. g \in [Ids(n) -> PageSet(n)] /\ g[0] = page /\ \A p \in New(n) : g[p] = heap[p]
      BY <2>1, <2>2
    <2> QED BY <2>3 DEF page
  <1> HIDE DEF g
  <1>5. g \in Heap(n)
    BY <1>3, <1>4, HeapFacts, IsHeap
  <1> QED BY <1>3, <1>4, <1>5 DEF g

-----------------------------------------------------------------------------
(* The operations on pages. *)

ChatPage(c) == [Alloc("chat") EXCEPT !.at32 = c]

LEMMA ChatPageTyped ==
    ASSUME NEW n \in Nat, NEW c \in Owners
    PROVE  /\ ChatPage(c) \in PageSet(n) /\ ChatPage(c).at32 = c
           /\ ChatPage(c).rows = <<>> /\ ChatPage(c).ty = "chat" /\ ChatPage(c).next = 0
  <1>1. Alloc("chat") \in PageSet(n)
    BY AllocTyped
  <1>2. ChatPage(c) = [ty |-> "chat", at32 |-> c, next |-> 0, rows |-> <<>>]
    BY DEF ChatPage, Alloc
  <1> QED BY <1>1, <1>2 DEF PageSet, Alloc

\* alloc_page with an empty freelist extends both the pool and the file.
LEMMA AllocFresh ==
    ASSUME NEW n \in Nat, n >= ROOT_PAGES, NEW s \in Store(n), NEW c \in Owners,
           FreelistHead(s) = 0
    PROVE  LET a == AllocChatPage(s, c)
           IN  /\ a.id = n /\ a.s \in Store(n + 1)
               /\ \A p \in Ids(n) : a.s.mem[p] = s.mem[p] /\ a.s.disk[p] = s.disk[p]
               /\ a.s.mem[n] = ChatPage(c) /\ a.s.disk[n] = Alloc("chat")
  <1> DEFINE b == AllocPage(s, "chat")
             a == AllocChatPage(s, c)
             page == Alloc("chat")
             pool == Put(s.mem, n, page)
             file == Put(s.disk, n, page)
  <1>1. s.mem \in Heap(n) /\ s.disk \in Heap(n)
    BY DEF Store
  <1>2. SizePages(s.disk) = n
    BY <1>1, SizeOf, HeapFacts
  <1>3. b = [id |-> n, s |-> [mem |-> pool, disk |-> file]]
    BY <1>2 DEF AllocPage, AppendPage
  <1>4. page \in PageSet(n) /\ page.at32 = 0 /\ 0 \in Owners
    BY AllocTyped DEF Alloc, Owners
  <1> HIDE DEF page
  <1>5. /\ pool \in Heap(n + 1) /\ pool[n] = page /\ \A p \in Ids(n) : pool[p] = s.mem[p]
        /\ file \in Heap(n + 1) /\ file[n] = page /\ \A p \in Ids(n) : file[p] = s.disk[p]
    BY <1>1, <1>4, HeapGrows
  <1>6. a = [b EXCEPT !.s.mem[b.id].at32 = c]
    BY DEF AllocChatPage
  <1> HIDE DEF pool, file, a, b
  <1>7. a = [id |-> n, s |-> [mem |-> [pool EXCEPT ![n].at32 = c], disk |-> file]]
    BY <1>3, <1>6
  <1>8. [pool EXCEPT ![n].at32 = c] = [pool EXCEPT ![n] = ChatPage(c)]
    BY <1>5 DEF ChatPage, page
  <1>9. n \in New(n + 1) /\ n + 1 \in Nat /\ n + 1 >= ROOT_PAGES
    BY IdFacts
  <1>10. ChatPage(c) \in PageSet(n + 1) /\ ChatPage(c).at32 \in Owners
    BY <1>9, ChatPageTyped
  <1> DEFINE g == [pool EXCEPT ![n] = ChatPage(c)]
  <1>11. /\ g \in Heap(n + 1) /\ g[n] = ChatPage(c)
         /\ \A p \in Ids(n + 1) : p # n => g[p] = pool[p]
    BY <1>5, <1>9, <1>10, HeapChanges
  <1>12. \A p \in Ids(n) : p \in Ids(n + 1) /\ p # n
    BY IdFacts
  <1>13. a.id = n /\ a.s = [mem |-> g, disk |-> file]
    BY <1>7, <1>8
  <1> HIDE DEF g
  <1> QED BY <1>5, <1>11, <1>12, <1>13 DEF a, Store, page

\* alloc_page otherwise takes the head of the freelist.
LEMMA AllocFreed ==
    ASSUME NEW n \in Nat, n >= ROOT_PAGES, NEW s \in Store(n), NEW c \in Owners,
           FreelistHead(s) # 0
    PROVE  LET a == AllocChatPage(s, c)
           IN  /\ a.id \in New(n) /\ a.s \in Store(n) /\ a.s.mem[a.id] = ChatPage(c)
               /\ a.id = FreelistHead(s) /\ a.s.disk = s.disk
               /\ a.s.mem[0].at32 = s.mem[a.id].next
               /\ \A p \in New(n) : p # a.id => a.s.mem[p] = s.mem[p]
  <1> DEFINE b == AllocPage(s, "chat")
             a == AllocChatPage(s, c)
             head == FreelistHead(s)
             next == s.mem[head].next
             page == Alloc("chat")
             mem1 == [s.mem EXCEPT ![head] = page]
             mem2 == [mem1 EXCEPT ![0].at32 = next]
             mem3 == [mem2 EXCEPT ![head] = ChatPage(c)]
  <1>1. s.mem \in Heap(n) /\ s.disk \in Heap(n) /\ s = [mem |-> s.mem, disk |-> s.disk]
    BY DEF Store
  <1>2. head \in New(n) /\ next \in Ids(n)
    <2>1. head \in Ids(n) /\ head # 0
      BY <1>1, HeapFacts DEF FreelistHead, Super
    <2>2. head \in New(n)
      BY <2>1, IdFacts
    <2> QED BY <1>1, <2>1, <2>2, HeapFacts
  <1>3. b = [id |-> head,
             s |-> [s EXCEPT !.mem[head] = page, !.mem[Super].at32 = next]]
    BY DEF AllocPage
  <1>4. page \in PageSet(n) /\ page.at32 \in Owners
    BY AllocTyped DEF Alloc, Owners
  <1>5. [s EXCEPT !.mem[head] = page, !.mem[Super].at32 = next]
           = [mem |-> mem2, disk |-> s.disk]
    <2> HIDE DEF head, next, page, a, b
    <2> DEFINE t == [s EXCEPT !.mem[head] = page, !.mem[Super].at32 = next]
    <2>1. t.disk = s.disk /\ t.mem = mem2
      BY <1>1 DEF Super
    <2>2. t = [s EXCEPT !.mem[head] = page, !.mem[Super].at32 = next]
      BY DEF t
    <2> HIDE DEF t, mem2, mem1
    <2>4. s = [mem |-> s.mem, disk |-> s.disk]
      BY <1>1
    <2>5. t = [mem |-> t.mem, disk |-> t.disk]
      BY ONLY <2>2, <2>4
    <2>3. t = [mem |-> mem2, disk |-> s.disk]
      BY <2>1, <2>5
    <2> QED BY <2>3 DEF t
  <1>6. a = [b EXCEPT !.s.mem[b.id].at32 = c]
    BY DEF AllocChatPage
  <1> HIDE DEF page, next, head, a, b
  <1>a. \A p \in New(n) : p \in Ids(n) /\ p # 0
    BY IdFacts
  <1>7. /\ mem1 \in Heap(n) /\ mem1[head] = page
        /\ \A p \in New(n) : p # head => mem1[p] = s.mem[p]
    BY <1>1, <1>2, <1>4, <1>a, HeapChanges
  <1> HIDE DEF mem1
  <1>8. /\ mem2 \in Heap(n) /\ mem2[head] = page /\ mem2[0].at32 = next
        /\ \A p \in New(n) : p # head => mem2[p] = s.mem[p]
    <2>1. /\ [mem1 EXCEPT ![0].at32 = next] \in Heap(n)
          /\ [mem1 EXCEPT ![0].at32 = next][0].at32 = next
          /\ \A p \in New(n) : [mem1 EXCEPT ![0].at32 = next][p] = mem1[p]
      BY <1>2, <1>7, HeadChanges
    <2> QED BY <1>2, <1>7, <2>1
  <1> HIDE DEF mem2
  <1>9. a = [id |-> head, s |-> [mem |-> [mem2 EXCEPT ![head].at32 = c], disk |-> s.disk]]
    <2>1. b = [id |-> head, s |-> [mem |-> mem2, disk |-> s.disk]]
      BY ONLY <1>3, <1>5
    <2> QED BY ONLY <1>6, <2>1
  <1>10. [mem2 EXCEPT ![head].at32 = c] = mem3
    BY <1>8 DEF ChatPage, page
  <1>11. ChatPage(c) \in PageSet(n) /\ ChatPage(c).at32 \in Owners
    BY ChatPageTyped
  <1>12. /\ mem3 \in Heap(n) /\ mem3[head] = ChatPage(c) /\ mem3[0].at32 = next
         /\ \A p \in New(n) : p # head => mem3[p] = s.mem[p]
    <2>1. /\ mem3 \in Heap(n) /\ mem3[head] = ChatPage(c)
          /\ \A p \in Ids(n) : p # head => mem3[p] = mem2[p]
      BY <1>2, <1>8, <1>11, HeapChanges
    <2> HIDE DEF mem3
    <2>2. 0 \in Ids(n) /\ head # 0
      BY <1>2, <1>a, IdFacts
    <2> QED BY <1>8, <1>a, <2>1, <2>2
  <1>13. a.id = head /\ a.s = [mem |-> mem3, disk |-> s.disk]
    BY <1>9, <1>10
  <1> HIDE DEF mem3
  <1> QED BY <1>1, <1>2, <1>12, <1>13 DEF a, Store, head, next

LEMMA AllocFacts ==
    ASSUME NEW n \in Nat, n >= ROOT_PAGES, NEW s \in Store(n), NEW c \in Owners
    PROVE  LET a == AllocChatPage(s, c)
           IN  \E m \in {n, n + 1} :
                   a.id \in New(m) /\ a.s \in Store(m) /\ a.s.mem[a.id] = ChatPage(c)
  <1>1. n \in New(n + 1)
    BY IdFacts
  <1> QED BY <1>1, AllocFresh, AllocFreed

LEMMA FreePageTyped ==
    ASSUME NEW n \in Nat, n >= ROOT_PAGES, NEW s \in Store(n), NEW id \in New(n)
    PROVE  LET t == FreePage(s, id)
           IN  /\ t \in Store(n) /\ t.disk = s.disk /\ t.mem[0].at32 = id
               /\ t.mem[id] = [Alloc("free") EXCEPT !.next = FreelistHead(s)]
               /\ \A p \in New(n) : p # id => t.mem[p] = s.mem[p]
  <1> DEFINE head == FreelistHead(s)
             page == [Alloc("free") EXCEPT !.next = head]
             mem1 == [s.mem EXCEPT ![id] = page]
             mem2 == [mem1 EXCEPT ![0].at32 = id]
  <1>1. s.mem \in Heap(n) /\ s.disk \in Heap(n) /\ s = [mem |-> s.mem, disk |-> s.disk]
    BY DEF Store
  <1>2. head \in Ids(n) /\ id \in Ids(n)
    BY <1>1, HeapFacts, IdFacts DEF FreelistHead, Super
  <1>3. page \in PageSet(n) /\ page.at32 \in Owners
    <2>1. Alloc("free") \in PageSet(n) /\ Alloc("free").at32 = 0
      BY AllocTyped DEF Alloc
    <2> HIDE DEF head
    <2> QED BY <1>2, <2>1 DEF PageSet, Owners
  <1>4. FreePage(s, id) = [mem |-> mem2, disk |-> s.disk]
    <2>1. FreePage(s, id) = [s EXCEPT !.mem[id] = page, !.mem[Super].at32 = id]
      BY DEF FreePage
    <2> HIDE DEF page
    <2> QED BY <1>1, <2>1 DEF Super
  <1> HIDE DEF page
  <1>5. /\ mem1 \in Heap(n) /\ mem1[id] = page
        /\ \A p \in New(n) : p # id => mem1[p] = s.mem[p]
    <2>1. \A p \in New(n) : p \in Ids(n)
      BY IdFacts
    <2> QED BY <1>1, <1>3, <2>1, HeapChanges
  <1> HIDE DEF mem1
  <1>6. /\ mem2 \in Heap(n) /\ mem2[0].at32 = id
        /\ \A p \in New(n) : mem2[p] = mem1[p]
    BY <1>2, <1>5, HeadChanges
  <1> HIDE DEF mem2
  <1> QED BY <1>1, <1>4, <1>5, <1>6 DEF Store, page, head

\* A message more on a page with room
LEMMA InsertTyped ==
    ASSUME NEW n \in Nat, n >= ROOT_PAGES, NEW page \in PageSet(n), NEW m \in Message,
           HasRoom(page)
    PROVE  /\ Insert(page, m) \in PageSet(n) /\ Insert(page, m).rows = Append(page.rows, m)
           /\ Insert(page, m).at32 = page.at32 /\ Insert(page, m).ty = page.ty
           /\ Len(Insert(page, m).rows) = Len(page.rows) + 1
           /\ Len(page.rows) \in 0 .. PageCap - 1
  <1> DEFINE rows == page.rows
  <1>1. rows \in Seq(Message) /\ Len(rows) < PageCap /\ Len(rows) \in Nat
    BY DEF PageSet, Rows, HasRoom
  <1>2. Insert(page, m) = [page EXCEPT !.rows = Append(rows, m)]
    BY DEF Insert
  <1> HIDE DEF rows
  <1>3. Append(rows, m) \in Rows /\ Len(Append(rows, m)) = Len(rows) + 1
    BY <1>1, CapFacts DEF Rows
  <1>4. page = [ty |-> page.ty, at32 |-> page.at32, next |-> page.next, rows |-> page.rows]
    BY DEF PageSet
  <1>5. Insert(page, m) = [ty |-> page.ty, at32 |-> page.at32, next |-> page.next,
                           rows |-> Append(rows, m)]
    BY <1>2, <1>4
  <1> QED BY <1>1, <1>3, <1>5, CapFacts DEF PageSet, rows

-----------------------------------------------------------------------------
(* Maps, and the index. *)

LEMMA PutTyped ==
    ASSUME NEW K, NEW V, NEW f \in Partial(K, V), NEW k \in K, NEW v \in V
    PROVE  /\ Put(f, k, v) \in Partial(K, V)
           /\ DOMAIN Put(f, k, v) = DOMAIN f \cup {k}
           /\ Put(f, k, v)[k] = v
           /\ \A x \in DOMAIN f : x # k => Put(f, k, v)[x] = f[x]
  <1>1. PICK D \in SUBSET K : f \in [D -> V]
    BY DEF Partial
  <1>2. Put(f, k, v) = [x \in D \cup {k} |-> IF x = k THEN v ELSE f[x]]
    BY <1>1 DEF Put
  <1>3. Put(f, k, v) \in [D \cup {k} -> V] /\ D \cup {k} \in SUBSET K
    BY <1>1, <1>2
  <1>4. Put(f, k, v) \in Partial(K, V)
    BY <1>3 DEF Partial
  <1> QED BY <1>1, <1>2, <1>4

LEMMA PartialFacts ==
    ASSUME NEW K, NEW V, NEW f \in Partial(K, V)
    PROVE  /\ DOMAIN f \subseteq K /\ f = [x \in DOMAIN f |-> f[x]]
           /\ \A x \in DOMAIN f : f[x] \in V
  BY DEF Partial

LEMMA IsPartial ==
    ASSUME NEW K, NEW V, NEW f, DOMAIN f \subseteq K, f = [x \in DOMAIN f |-> f[x]],
           \A x \in DOMAIN f : f[x] \in V
    PROVE  f \in Partial(K, V)
  <1>1. f \in [DOMAIN f -> V]
    OBVIOUS
  <1> QED BY <1>1 DEF Partial

LEMMA EmptyPartial == \A K, V : <<>> \in Partial(K, V)
  <1> SUFFICES ASSUME NEW K, NEW V
               PROVE  <<>> \in Partial(K, V)
    OBVIOUS
  <1>1. <<>> \in [{} -> V]
    OBVIOUS
  <1> QED BY <1>1 DEF Partial

LEMMA WithoutTyped ==
    ASSUME NEW K, NEW V, NEW f \in Partial(K, V), NEW ks
    PROVE  Without(f, ks) \in Partial(K, V) /\ DOMAIN Without(f, ks) = DOMAIN f \ ks
  <1> DEFINE g == Without(f, ks)
  <1>1. g = [x \in DOMAIN f \ ks |-> f[x]]
    BY DEF Without
  <1>2. DOMAIN f \subseteq K /\ \A x \in DOMAIN f : f[x] \in V
    BY PartialFacts
  <1>3. DOMAIN g \subseteq K /\ g = [x \in DOMAIN g |-> g[x]] /\ \A x \in DOMAIN g : g[x] \in V
    BY <1>1, <1>2
  <1> HIDE DEF g
  <1>4. g \in Partial(K, V)
    BY <1>3, IsPartial
  <1> QED BY <1>1, <1>4 DEF g

\* What fits a smaller heap fits a larger one.
LEMMA PartialGrows ==
    ASSUME NEW K, NEW V, NEW W, V \subseteq W
    PROVE  Partial(K, V) \subseteq Partial(K, W)
  <1> SUFFICES ASSUME NEW f \in Partial(K, V)
               PROVE  f \in Partial(K, W)
    OBVIOUS
  <1> QED BY PartialFacts, IsPartial

LEMMA MapsGrow ==
    ASSUME NEW n \in Nat, NEW m \in Nat, n <= m
    PROVE  Tips(n) \subseteq Tips(m) /\ Index(n) \subseteq Index(m)
  <1>1. New(n) \subseteq New(m)
    BY IdsGrow
  <1>2. Places16(n) \subseteq Places16(m)
    BY <1>1 DEF Places16
  <1>3. Tips(n) \subseteq Tips(m)
    <2>1. [head : New(n), tail : New(n), count : Nat] \subseteq [head : New(m), tail : New(m), count : Nat]
      BY <1>1
    <2> QED BY <2>1, PartialGrows DEF Tips
  <1>4. Partial(Owners \X Nat, Places16(n)) \subseteq Partial(Owners \X Nat, Places16(m))
    BY <1>2, PartialGrows
  <1> QED BY <1>3, <1>4 DEF Index

LEMMA PlaceTyped ==
    ASSUME NEW n \in Nat, NEW page \in New(n), NEW slot \in 0 .. PageCap - 1
    PROVE  /\ PackLoc(page, slot) \in Places16(n) /\ PackLoc(page, slot) \in Nat
           /\ UnpackLoc(PackLoc(page, slot)) = [page |-> page, slot |-> slot]
  <1>1. page \in Nat /\ slot \in Nat /\ slot < SLOTS
    BY CapFacts DEF New, ROOT_PAGES, SLOTS
  <1> QED BY <1>1, PackUnpack DEF Places16

LEMMA PlaceFacts ==
    ASSUME NEW n \in Nat, NEW place \in Places16(n)
    PROVE  /\ place \in Nat
           /\ UnpackLoc(place).page \in New(n) /\ UnpackLoc(place).slot \in 0 .. PageCap - 1
  <1>1. PICK page \in New(n), slot \in 0 .. PageCap - 1 : place = PackLoc(page, slot)
    BY DEF Places16
  <1> QED BY <1>1, PlaceTyped

LEMMA SetLocTyped ==
    ASSUME NEW n \in Nat, NEW idx \in Index(n), NEW c \in Owners, NEW id \in Nat,
           NEW page \in New(n), NEW slot \in 0 .. PageCap - 1
    PROVE  LET j == SetLoc(idx, c, id, page, slot)
           IN  /\ j \in Index(n) /\ Keys(j) = Keys(idx) \cup {<<c, id>>}
               /\ UnpackLoc(j.at[<<c, id>>]) = [page |-> page, slot |-> slot]
               /\ \A k \in Keys(idx) : k # <<c, id>> => j.at[k] = idx.at[k]
  <1> DEFINE j == SetLoc(idx, c, id, page, slot)
             key == <<c, id>>
             loc == PackLoc(page, slot)
  <1>1. page \in Nat /\ slot \in Nat
    BY DEF New, ROOT_PAGES
  <1>2. /\ loc \in Places16(n)
        /\ UnpackLoc(loc) = [page |-> page, slot |-> slot]
    BY PlaceTyped
  <1>3. idx.at \in Partial(Owners \X Nat, Places16(n)) /\ Counted(idx) /\ idx.size \in Nat
    BY DEF Index
  <1>4. Counted(j)
    BY <1>1, <1>3, SetLocCounts
  <1>5. key \in Owners \X Nat
    OBVIOUS
  <1> HIDE DEF key
  <1>6. j.at = Put(idx.at, key, loc) /\ j = [at |-> j.at, size |-> j.size] /\ j.size \in Nat
    BY <1>3 DEF SetLoc, WithLoc, Put, Keys, key
  <1> HIDE DEF j, loc
  <1>7. /\ j.at \in Partial(Owners \X Nat, Places16(n))
        /\ DOMAIN j.at = DOMAIN idx.at \cup {key} /\ j.at[key] = loc
        /\ \A k \in DOMAIN idx.at : k # key => j.at[k] = idx.at[k]
    <2> DEFINE K == Owners \X Nat
               V == Places16(n)
               old == idx.at
    <2>1. old \in Partial(K, V) /\ key \in K /\ loc \in V
      BY <1>2, <1>3, <1>5
    <2>2. j.at = Put(old, key, loc)
      BY <1>6
    <2> HIDE DEF K, V, old
    <2>3. Put(old, key, loc) \in Partial(K, V)
      BY <2>1, PutTyped
    <2>4. j.at = [x \in DOMAIN old \cup {key} |-> IF x = key THEN loc ELSE old[x]]
      BY <2>2 DEF Put
    <2>5. /\ DOMAIN j.at = DOMAIN old \cup {key} /\ j.at[key] = loc
          /\ \A k \in DOMAIN old : k # key => j.at[k] = old[k]
      BY <2>4
    <2> QED BY <2>2, <2>3, <2>5 DEF K, V, old
  <1>8. j \in Index(n)
    BY <1>4, <1>6, <1>7 DEF Index
  <1> QED BY <1>2, <1>7, <1>8 DEF j, key, Keys

LEMMA DeleteChatTyped ==
    ASSUME NEW n \in Nat, NEW idx \in Index(n), NEW c
    PROVE  DeleteChat(idx, c) \in Index(n)
  <1> DEFINE j == DeleteChat(idx, c)
  <1>1. idx.at \in Partial(Owners \X Nat, Places16(n)) /\ Counted(idx)
    BY DEF Index
  <1>2. Counted(j)
    BY <1>1, DeleteChatCounts
  <1>3. j.at = Without(idx.at, KeysOf(idx, c))
    BY DEF DeleteChat, Without, Keys
  <1> HIDE DEF j
  <1>4. j.at \in Partial(Owners \X Nat, Places16(n))
    <2> DEFINE K == Owners \X Nat
               V == Places16(n)
               old == idx.at
               gone == KeysOf(idx, c)
    <2>1. old \in Partial(K, V) /\ j.at = Without(old, gone)
      BY <1>1, <1>3
    <2> HIDE DEF K, V, old, gone
    <2>2. Without(old, gone) \in Partial(K, V)
      BY <2>1, WithoutTyped
    <2>3. j.at \in Partial(K, V)
      BY <2>1, <2>2
    <2> QED BY <2>3 DEF K, V
  <1>5. j = [at |-> j.at, size |-> j.size] /\ j.size \in Nat
    BY <1>2, FS_CardinalityType DEF Counted
  <1> QED BY <1>2, <1>4, <1>5 DEF Index, j

LEMMA NewIndexTyped ==
    ASSUME NEW n \in Nat
    PROVE  NewIndex \in Index(n) /\ Keys(NewIndex) = {}
  <1>1. NewIndex.at = <<>> /\ NewIndex.size = 0 /\ NewIndex = [at |-> NewIndex.at, size |-> NewIndex.size]
    BY DEF NewIndex
  <1>2. Keys(NewIndex) = {}
    BY <1>1 DEF Keys
  <1>3. Counted(NewIndex)
    BY <1>1, <1>2, FS_EmptySet DEF Counted
  <1>4. NewIndex.at \in Partial(Owners \X Nat, Places16(n))
    BY <1>1, EmptyPartial
  <1> QED BY <1>1, <1>2, <1>3, <1>4 DEF Index

-----------------------------------------------------------------------------
(* Recursion, with names for hypothesis and conclusion. *)

Steppable(V, a, n, step) == a \in V /\ n \in Nat /\ step \in [1 .. n -> [V -> V]]
Steps(V, a, n, step, f) ==
    /\ f \in [0 .. n -> V] /\ f[0] = a
    /\ \A i \in 1 .. n : f[i] = step[i][f[i - 1]]

LEMMA StepsExist ==
    ASSUME NEW V, NEW a, NEW n, NEW step, Steppable(V, a, n, step)
    PROVE  \E f : Steps(V, a, n, step, f)
  BY Recursion DEF Steps, Steppable

-----------------------------------------------------------------------------
(* Walks, and what open derives from the file. *)

LEMMA ChainTyped ==
    ASSUME NEW n \in Nat, n >= ROOT_PAGES, NEW heap \in Heap(n), NEW head \in New(n)
    PROVE  /\ Chain(heap, head) \in Seq(New(n)) /\ Chain(heap, head) # <<>>
           /\ Chain(heap, head)[1] = head
  <1> DEFINE chain == Chain(heap, head)
  <1>1. DOMAIN heap = Ids(n) /\ head \in DOMAIN heap /\ head # 0
    BY HeapFacts, IdFacts
  <1>2. Linked(heap)
    BY HeapLinked
  <1>3. WalkFrom(heap, head, chain)
    BY <1>1, <1>2, ChainFacts
  <1>4. /\ ToSet(chain) \subseteq DOMAIN heap \ {0}
        /\ \A k \in DOMAIN chain : chain[k] \in ToSet(chain)
    BY <1>1, <1>2, ChainReaches
  <1> HIDE DEF chain
  <1>5. chain \in Seq(DOMAIN heap) /\ chain # <<>> /\ chain[1] = head
    BY <1>3 DEF WalkFrom, Walks
  <1>6. \A k \in 1 .. Len(chain) : chain[k] \in New(n)
    <2>1. DOMAIN chain = 1 .. Len(chain)
      BY <1>5
    <2>2. DOMAIN heap \ {0} = New(n)
      BY <1>1, IdFacts
    <2> QED BY <1>4, <2>1, <2>2
  <1>7. chain \in Seq(New(n))
    BY <1>5, <1>6
  <1> QED BY <1>5, <1>7 DEF chain

LEMMA ReadTyped ==
    ASSUME NEW n \in Nat, n >= ROOT_PAGES, NEW heap \in Heap(n), NEW head \in New(n)
    PROVE  ReadChain(heap, head) \in Seq(Message)
  <1> DEFINE chain == Chain(heap, head)
             len == Len(chain)
             part(k) == heap[chain[k]].rows
             W == Seq(Message)
             step == [k \in 1 .. len |-> [v \in W |-> v \o part(k)]]
             nil == <<>>
             Sofar(k, g) == IF k = 0 THEN <<>> ELSE g[k - 1] \o part(k)
             rows == CHOOSE g : g = [k \in 0 .. len |-> Sofar(k, g)]
  <1>1. len \in Nat /\ \A k \in 1 .. len : chain[k] \in New(n)
    <2>1. chain \in Seq(New(n))
      BY ChainTyped
    <2> HIDE DEF chain
    <2> QED BY <2>1
  <1>2. ReadChain(heap, head) = rows[len]
    BY DEF ReadChain
  <1> HIDE DEF chain, len
  <1>3. \A k \in 1 .. len : part(k) \in W
    BY <1>1, HeapFacts, IdFacts
  <1> HIDE DEF part
  <1>4. step \in [1 .. len -> [W -> W]] /\ nil \in W
    BY <1>3
  <1>5. \E f : Steps(W, nil, len, step, f)
    <2> HIDE DEF W, step, nil
    <2>1. Steppable(W, nil, len, step)
      BY <1>1, <1>4 DEF Steppable
    <2> QED BY <2>1, StepsExist
  <1>6. \E f : f = [k \in 0 .. len |-> Sofar(k, f)]
    <2>1. PICK f : Steps(W, nil, len, step, f)
      BY <1>5
    <2>2. f \in [0 .. len -> W] /\ f[0] = nil /\ \A k \in 1 .. len : f[k] = step[k][f[k - 1]]
      BY <2>1 DEF Steps
    <2>3. \A k \in 0 .. len : f[k] = Sofar(k, f)
      <3> TAKE k \in 0 .. len
      <3>1. CASE k = 0
        BY <2>2, <3>1
      <3>2. CASE k # 0
        <4>1. k \in 1 .. len /\ f[k - 1] \in W
          BY <1>1, <2>2, <3>2
        <4> QED BY <2>2, <3>2, <4>1
      <3> QED BY <3>1, <3>2
    <2>4. f = [k \in 0 .. len |-> f[k]]
      BY <2>2
    <2> HIDE DEF Sofar
    <2> QED BY <2>3, <2>4
  <1>7. rows = [k \in 0 .. len |-> Sofar(k, rows)]
    <2> HIDE DEF Sofar
    <2> QED BY <1>6, Zenon
  <1> HIDE DEF rows
  <1>8. rows[0] = <<>> /\ \A k \in 1 .. len : rows[k] = rows[k - 1] \o part(k)
    <2>1. \A k \in 0 .. len : rows[k] = Sofar(k, rows)
      <3> HIDE DEF Sofar
      <3> QED BY <1>7
    <2>2. 0 \in 0 .. len /\ \A k \in 1 .. len : k \in 0 .. len /\ k # 0
      BY <1>1
    <2>3. Sofar(0, rows) = <<>> /\ \A k \in 1 .. len : Sofar(k, rows) = rows[k - 1] \o part(k)
      BY <2>2
    <2> HIDE DEF Sofar, part
    <2> QED BY <2>1, <2>2, <2>3
  <1> DEFINE Typed == {k \in Nat : k <= len => rows[k] \in W}
  <1>9. 0 \in Typed
    <2>1. <<>> \in W
      OBVIOUS
    <2> HIDE DEF W
    <2> QED BY <1>8, <2>1
  <1>10. \A k \in Nat : k \in Typed => k + 1 \in Typed
    <2> TAKE k \in Nat
    <2>1. ASSUME k \in Typed, k + 1 <= len
          PROVE  rows[k + 1] \in W
      <3>1. k + 1 \in 1 .. len /\ (k + 1) - 1 = k /\ rows[k] \in W
        BY <1>1, <2>1
      <3>2. rows[k + 1] = rows[k] \o part(k + 1) /\ part(k + 1) \in W
        BY <1>3, <1>8, <3>1
      <3> QED BY <3>1, <3>2
    <2> QED BY <2>1
  <1> HIDE DEF Typed
  <1>11. \A k \in Nat : k \in Typed
    BY <1>9, <1>10, NatSetInduction
  <1> QED BY <1>1, <1>2, <1>11 DEF Typed

LEMMA LastOfTyped ==
    ASSUME NEW rows \in Seq(Message), NEW k \in Nat
    PROVE  LastOf(rows, k) \in Seq(Message) /\ Len(LastOf(rows, k)) <= k
  BY DEF LastOf

LEMMA PushTyped ==
    ASSUME NEW old \in Seq(Message), NEW m \in Message
    PROVE  PushRing(old, m) \in Seq(Message) /\ Len(PushRing(old, m)) <= RingMax
  <1>1. Append(old, m) \in Seq(Message) /\ RingMax \in Nat
    BY CapFacts
  <1> QED BY <1>1, LastOfTyped DEF PushRing

\* The least and the greatest of some pages
LEMMA PagesBounds ==
    ASSUME NEW n \in Nat, n >= ROOT_PAGES, NEW ids \in SUBSET New(n), ids # {}
    PROVE  /\ Min(ids) \in ids /\ Max(ids) \in ids
           /\ Min(ids) \in New(n) /\ Max(ids) \in New(n)
           /\ \A k \in ids : Min(ids) <= k /\ k <= Max(ids)
  <1>1. ids \in SUBSET Nat /\ \A k \in ids : k <= n
    BY DEF New, ROOT_PAGES
  <1>2. \E m \in ids : \A k \in ids : m <= k
    BY <1>1, Smallest
  <1>3. \E m \in ids : \A k \in ids : m >= k
    <2>1. \E m \in ids : \A k \in ids : k <= m
      BY <1>1, Largest
    <2> QED BY <1>1, <2>1
  <1>4. Min(ids) \in ids /\ \A k \in ids : Min(ids) <= k
    BY <1>2 DEF Min
  <1>5. Max(ids) \in ids /\ \A k \in ids : Max(ids) >= k
    BY <1>3 DEF Max
  <1> QED BY <1>1, <1>4, <1>5

LEMMA PlacesFinite ==
    ASSUME NEW n \in Nat, n >= ROOT_PAGES, NEW heap \in Heap(n), NEW ids \in SUBSET New(n)
    PROVE  /\ IsFiniteSet(Places(heap, ids))
           /\ \A at \in Places(heap, ids) :
                 /\ at[1] \in ids /\ at[1] \in New(n) /\ at[2] \in DOMAIN heap[at[1]].rows
                 /\ at[2] - 1 \in 0 .. PageCap - 1
                 /\ heap[at[1]].rows[at[2]] \in Message
  <1> DEFINE all == New(n) \X (1 .. PageCap)
  <1>1. \A id \in New(n) : /\ DOMAIN heap[id].rows \subseteq 1 .. PageCap
                           /\ heap[id].rows \in Seq(Message)
    <2> TAKE id \in New(n)
    <2> DEFINE rows == heap[id].rows
    <2>1. rows \in Seq(Message) /\ Len(rows) <= PageCap
      BY HeapFacts, IdFacts
    <2> HIDE DEF rows
    <2>2. DOMAIN rows = 1 .. Len(rows) /\ Len(rows) \in Nat
      BY <2>1
    <2> QED BY <2>1, <2>2, CapFacts DEF rows
  <1>2. Places(heap, ids) \subseteq all
    BY <1>1 DEF Places
  <1>3. IsFiniteSet(New(n)) /\ IsFiniteSet(1 .. PageCap)
    BY FS_Interval, CapFacts DEF New, ROOT_PAGES
  <1>4. IsFiniteSet(all)
    BY <1>3, FS_Product
  <1> HIDE DEF all
  <1>5. IsFiniteSet(Places(heap, ids))
    BY <1>2, <1>4, FS_Subset
  <1>6. ASSUME NEW at \in Places(heap, ids)
        PROVE  /\ at[1] \in ids /\ at[1] \in New(n) /\ at[2] \in DOMAIN heap[at[1]].rows
               /\ at[2] - 1 \in 0 .. PageCap - 1
               /\ heap[at[1]].rows[at[2]] \in Message
    <2>1. PICK id \in ids : at \in {id} \X DOMAIN heap[id].rows
      BY DEF Places
    <2>2. at[1] = id /\ at[2] \in DOMAIN heap[id].rows /\ id \in New(n)
      BY <2>1
    <2>3. at[2] \in 1 .. PageCap
      BY <1>1, <2>2
    <2>4. heap[id].rows[at[2]] \in Message
      BY <1>1, <2>2
    <2> QED BY <2>1, <2>2, <2>3, <2>4, CapFacts
  <1> QED BY <1>5, <1>6

LEMMA TipsOfTyped ==
    ASSUME NEW n \in Nat, n >= ROOT_PAGES, NEW heap \in Heap(n)
    PROVE  /\ TipsOf(heap) \in Tips(n)
           /\ \A c \in DOMAIN TipsOf(heap) :
                 /\ TipsOf(heap)[c].tail \in ChatPagesOf(heap, c)
                 /\ TipsOf(heap)[c].head \in ChatPagesOf(heap, c)
  <1> DEFINE t == TipsOf(heap)
  <1>1. DOMAIN heap \ {Super} = New(n)
    BY HeapFacts, IdFacts DEF Super
  <1>2. ChatsOn(heap) \subseteq Owners
    BY <1>1, HeapFacts DEF ChatsOn
  <1>3. ASSUME NEW c \in ChatsOn(heap)
        PROVE  /\ t[c] \in [head : New(n), tail : New(n), count : Nat]
               /\ t[c].tail \in ChatPagesOf(heap, c) /\ t[c].head \in ChatPagesOf(heap, c)
    <2> DEFINE ids == ChatPagesOf(heap, c)
    <2>1. ids \in SUBSET New(n) /\ ids # {}
      BY <1>1 DEF ChatPagesOf, ChatsOn
    <2>2. t[c] = Tip(Min(ids), Max(ids), MessagesOn(heap, ids))
      BY DEF TipsOf
    <2> HIDE DEF ids, t
    <2>3. Min(ids) \in ids /\ Max(ids) \in ids /\ Min(ids) \in New(n) /\ Max(ids) \in New(n)
      BY <2>1, PagesBounds
    <2>4. MessagesOn(heap, ids) \in Nat
      BY <2>1, PlacesFinite, FS_CardinalityType DEF MessagesOn
    <2> QED BY <2>2, <2>3, <2>4 DEF Tip, ids
  <1>4. DOMAIN t = ChatsOn(heap) /\ t = [c \in DOMAIN t |-> t[c]]
    BY DEF TipsOf
  <1> HIDE DEF t
  <1>5. t \in Tips(n)
    BY <1>2, <1>3, <1>4, IsPartial DEF Tips
  <1> QED BY <1>3, <1>4, <1>5 DEF t

LEMMA RelinkTyped ==
    ASSUME NEW n \in Nat, n >= ROOT_PAGES, NEW heap \in Heap(n)
    PROVE  /\ Relink(heap) \in Heap(n) /\ Relink(heap)[0] = heap[0]
           /\ \A p \in New(n) : /\ Relink(heap)[p].rows = heap[p].rows
                                /\ Relink(heap)[p].at32 = heap[p].at32
                                /\ Relink(heap)[p].ty = heap[p].ty
  <1> DEFINE g == Relink(heap)
             Later(id) == {j \in ChatPagesOf(heap, heap[id].at32) : j > id}
             Next1(id) == IF Later(id) = {} THEN 0 ELSE Min(Later(id))
  <1>1. DOMAIN heap = Ids(n) /\ \A p \in Ids(n) : heap[p] \in PageSet(n)
    BY HeapFacts
  <1>2. g = [id \in Ids(n) |-> IF id # 0 /\ heap[id].ty = "chat"
                               THEN [heap[id] EXCEPT !.next = Next1(id)] ELSE heap[id]]
    BY <1>1 DEF Relink, Super
  <1>3. \A id \in New(n) : Next1(id) \in Ids(n)
    <2> TAKE id \in New(n)
    <2>1. Later(id) \in SUBSET New(n)
      BY <1>1, IdFacts DEF ChatPagesOf, Super
    <2> HIDE DEF Later
    <2>2. CASE Later(id) = {}
      BY <2>2, IdFacts
    <2>3. CASE Later(id) # {}
      BY <2>1, <2>3, PagesBounds, IdFacts
    <2> QED BY <2>2, <2>3
  <1> HIDE DEF g, Next1
  <1>4. g[0] = heap[0]
    BY <1>2, IdFacts
  <1>5. \A p \in New(n) : /\ g[p] \in PageSet(n) /\ g[p].rows = heap[p].rows
                          /\ g[p].at32 = heap[p].at32 /\ g[p].ty = heap[p].ty
    <2> TAKE p \in New(n)
    <2>1. p \in Ids(n) /\ p # 0
      BY IdFacts
    <2>2. heap[p] \in PageSet(n) /\ Next1(p) \in Ids(n)
      BY <1>1, <1>3, <2>1
    <2>3. g[p] = IF heap[p].ty = "chat" THEN [heap[p] EXCEPT !.next = Next1(p)] ELSE heap[p]
      BY <1>2, <2>1
    <2> QED BY <2>2, <2>3 DEF PageSet
  <1>6. g \in [Ids(n) -> PageSet(n)]
    <2>1. \A p \in Ids(n) : g[p] \in PageSet(n)
      BY <1>1, <1>4, <1>5, IdFacts
    <2>2. g = [p \in Ids(n) |-> g[p]]
      BY <1>2
    <2> QED BY <2>1, <2>2
  <1>7. g[0].at32 \in Ids(n) /\ \A p \in New(n) : g[p].at32 \in Owners
    BY <1>4, <1>5, HeapFacts
  <1>8. g \in Heap(n)
    BY <1>6, <1>7, IsHeap
  <1> QED BY <1>4, <1>5, <1>8 DEF g

LEMMA IndexFromHeapTyped ==
    ASSUME NEW n \in Nat, n >= ROOT_PAGES, NEW heap \in Heap(n)
    PROVE  LET idx == IndexFromHeap(heap)
           IN  /\ idx \in Index(n)
               /\ \A k \in Keys(idx) :
                     LET loc == UnpackLoc(idx.at[k])
                     IN  /\ loc.slot + 1 \in DOMAIN heap[loc.page].rows
                         /\ <<heap[loc.page].at32, heap[loc.page].rows[loc.slot + 1].id>> = k
               /\ \A p \in New(n), i \in Nat :
                     heap[p].ty = "chat" /\ i \in DOMAIN heap[p].rows =>
                         <<heap[p].at32, heap[p].rows[i].id>> \in Keys(idx)
  <1> DEFINE idx == IndexFromHeap(heap)
             ids == {id \in DOMAIN heap \ {Super} : heap[id].ty = "chat"}
             places == Places(heap, ids)
             key(at) == <<heap[at[1]].at32, heap[at[1]].rows[at[2]].id>>
             keys == {key(at) : at \in places}
             of(k) == {at \in places : key(at) = k}
             locs(k) == {PackLoc(at[1], at[2] - 1) : at \in of(k)}
  <1>1. ids \in SUBSET New(n) /\ \A p \in New(n) : heap[p].ty = "chat" => p \in ids
    BY HeapFacts, IdFacts DEF Super
  <1>2. idx = [at |-> [k \in keys |-> Max(locs(k))], size |-> Cardinality(keys)]
    BY DEF IndexFromHeap
  <1> HIDE DEF ids, idx
  <1>3. /\ IsFiniteSet(places)
        /\ \A at \in places : /\ at[1] \in New(n) /\ at[2] \in DOMAIN heap[at[1]].rows
                              /\ at[2] - 1 \in 0 .. PageCap - 1
                              /\ heap[at[1]].rows[at[2]] \in Message
    BY <1>1, PlacesFinite
  <1>4. \A p \in New(n), i \in Nat :
            heap[p].ty = "chat" /\ i \in DOMAIN heap[p].rows => <<p, i>> \in places
    BY <1>1 DEF Places
  <1> HIDE DEF places
  <1>5. IsFiniteSet(keys)
    <2> DEFINE f == [at \in places |-> key(at)]
    <2>1. f \in [places -> keys] /\ \A k \in keys : \E at \in places : f[at] = k
      OBVIOUS
    <2> HIDE DEF f, keys
    <2>2. f \in Surjection(places, keys)
      BY <2>1 DEF Surjection
    <2> QED BY <1>3, <2>2, FS_Surjection
  <1>6. keys \subseteq Owners \X Nat
    <2> SUFFICES ASSUME NEW at \in places
                 PROVE  key(at) \in Owners \X Nat
      OBVIOUS
    <2>1. heap[at[1]].at32 \in Owners
      BY <1>3, HeapFacts
    <2>2. heap[at[1]].rows[at[2]].id \in Nat
      BY <1>3 DEF Message
    <2> QED BY <2>1, <2>2
  <1>7. ASSUME NEW k \in keys
        PROVE  \E at \in of(k) : Max(locs(k)) = PackLoc(at[1], at[2] - 1)
    <2> DEFINE top == (n * SLOTS) + SLOTS
               L == locs(k)
    <2>1. L # {}
      OBVIOUS
    <2>2. ASSUME NEW x \in L
          PROVE  x \in Nat /\ x <= top
      <3>1. PICK at \in places : x = PackLoc(at[1], at[2] - 1)
        OBVIOUS
      <3> DEFINE page == at[1]
                 slot == at[2] - 1
      <3>2. page \in New(n) /\ slot \in 0 .. PageCap - 1 /\ x = PackLoc(page, slot)
        BY <1>3, <3>1
      <3> HIDE DEF page, slot
      <3>3. page \in Nat /\ page <= n /\ slot \in Nat /\ slot < 65536
        BY <3>2, CapFacts DEF New, ROOT_PAGES, SLOTS
      <3>4. slot % 65536 = slot
        BY <3>3, Small
      <3>5. x = (page * 65536) + slot
        BY <3>2, <3>4 DEF PackLoc, SLOTS
      <3> QED BY <3>3, <3>5 DEF SLOTS
    <2>3. top \in Nat
      BY DEF SLOTS
    <2> HIDE DEF L, top
    <2>4. \E m \in L : \A y \in L : y <= m
      <3>1. L \in SUBSET Nat /\ \A y \in L : y <= top
        BY <2>2
      <3> QED BY <2>1, <2>3, <3>1, Largest
    <2>5. \E m \in L : \A y \in L : m >= y
      BY <2>2, <2>4
    <2>6. Max(L) \in L
      BY <2>5 DEF Max
    <2> QED BY <2>6 DEF L
  <1>8. ASSUME NEW k \in keys
        PROVE  LET loc == UnpackLoc(idx.at[k])
               IN  /\ idx.at[k] \in Places16(n) /\ idx.at[k] \in Nat
                   /\ loc.slot + 1 \in DOMAIN heap[loc.page].rows
                   /\ <<heap[loc.page].at32, heap[loc.page].rows[loc.slot + 1].id>> = k
    <2>1. PICK at \in of(k) : Max(locs(k)) = PackLoc(at[1], at[2] - 1)
      BY <1>7
    <2> DEFINE page == at[1]
               slot == at[2] - 1
    <2>2. at \in places /\ key(at) = k
      OBVIOUS
    <2>3. page \in New(n) /\ slot \in 0 .. PageCap - 1 /\ at[2] \in DOMAIN heap[page].rows
      BY <1>3, <2>2
    <2>4. idx.at[k] = PackLoc(page, slot)
      BY <1>2, <2>1
    <2>5. slot + 1 = at[2]
      <3>1. at[2] \in Nat
        <4>1. heap[page].rows \in Seq(Message)
          BY <2>3, HeapFacts, IdFacts
        <4> QED BY <2>3, <4>1
      <3> QED BY <3>1
    <2>6. <<heap[page].at32, heap[page].rows[slot + 1].id>> = k
      BY <2>2, <2>5
    <2> HIDE DEF page, slot
    <2>7. /\ PackLoc(page, slot) \in Places16(n) /\ PackLoc(page, slot) \in Nat
          /\ UnpackLoc(PackLoc(page, slot)) = [page |-> page, slot |-> slot]
      BY <2>3, PlaceTyped
    <2> QED BY <2>3, <2>4, <2>5, <2>6, <2>7
  <1>9. /\ Keys(idx) = keys /\ idx = [at |-> idx.at, size |-> idx.size]
        /\ idx.at = [k \in Keys(idx) |-> idx.at[k]] /\ idx.size = Cardinality(keys)
    BY <1>2 DEF Keys
  <1>10. Cardinality(keys) \in Nat
    BY <1>5, FS_CardinalityType
  <1>11. Counted(idx)
    <2>1. \A k \in keys : k = <<k[1], k[2]>>
      OBVIOUS
    <2>2. \A k \in keys : idx.at[k] \in Nat
      BY <1>8
    <2> HIDE DEF keys
    <2> QED BY <1>5, <1>9, <2>1, <2>2 DEF Counted
  <1>12. idx.at \in Partial(Owners \X Nat, Places16(n))
    <2>1. DOMAIN idx.at = keys /\ \A k \in keys : idx.at[k] \in Places16(n)
      BY <1>8, <1>9 DEF Keys
    <2> HIDE DEF keys
    <2> QED BY <1>6, <1>9, <2>1, IsPartial DEF Keys
  <1>13. idx \in Index(n)
    BY <1>9, <1>10, <1>11, <1>12 DEF Index
  <1>14. \A p \in New(n), i \in Nat :
             heap[p].ty = "chat" /\ i \in DOMAIN heap[p].rows =>
                 <<heap[p].at32, heap[p].rows[i].id>> \in keys
    <2> TAKE p \in New(n), i \in Nat
    <2> HAVE heap[p].ty = "chat" /\ i \in DOMAIN heap[p].rows
    <2>1. <<p, i>> \in places
      BY <1>4
    <2>2. key(<<p, i>>) = <<heap[p].at32, heap[p].rows[i].id>>
      OBVIOUS
    <2> QED BY <2>1, <2>2
  <1> QED BY <1>8, <1>9, <1>13, <1>14 DEF idx

-----------------------------------------------------------------------------
(* The operations on the engine's state. *)

LEMMA Ensured ==
    ASSUME NEW n \in Nat, n >= ROOT_PAGES, NEW s \in Store(n), NEW id \in New(n)
    PROVE  EnsurePageCount(s, id + 1) = s
  <1>1. s.disk \in Heap(n)
    BY DEF Store
  <1>2. SizePages(s.disk) = n
    BY <1>1, SizeOf, HeapFacts
  <1>3. (id + 1) - SizePages(s.disk) <= 0
    BY <1>2 DEF New, ROOT_PAGES
  <1> QED BY <1>3 DEF EnsurePageCount

LEMMA EngineParts ==
    ASSUME NEW n \in Nat, NEW e \in Engine(n)
    PROVE  /\ e = [s |-> e.s, tips |-> e.tips, index |-> e.index, ring |-> e.ring]
           /\ e.s = [mem |-> e.s.mem, disk |-> e.s.disk] /\ e.s \in Store(n)
           /\ e.s.mem \in Heap(n) /\ e.s.disk \in Heap(n)
           /\ e.tips \in Tips(n) /\ e.index \in Index(n) /\ e.ring \in Rings
  BY DEF Engine, Store

LEMMA TipFacts ==
    ASSUME NEW n \in Nat, NEW t \in Tips(n), NEW c \in DOMAIN t
    PROVE  /\ c \in Owners /\ t[c].head \in New(n) /\ t[c].tail \in New(n) /\ t[c].count \in Nat
           /\ t[c] = Tip(t[c].head, t[c].tail, t[c].count)
  <1> DEFINE R == [head : New(n), tail : New(n), count : Nat]
  <1>1. t \in Partial(Owners, R)
    BY DEF Tips
  <1> HIDE DEF R
  <1>2. c \in Owners /\ t[c] \in R
    BY <1>1 DEF Partial
  <1> QED BY <1>2 DEF Tip, R

LEMMA PutTip ==
    ASSUME NEW n \in Nat, NEW t \in Tips(n), NEW c \in Owners,
           NEW head \in New(n), NEW tail \in New(n), NEW count \in Nat
    PROVE  LET u == Put(t, c, Tip(head, tail, count))
           IN  /\ u \in Tips(n) /\ DOMAIN u = DOMAIN t \cup {c}
               /\ u[c] = Tip(head, tail, count)
               /\ \A d : d \in DOMAIN t /\ d # c => u[d] = t[d]
  <1> DEFINE tip == Tip(head, tail, count)
             R == [head : New(n), tail : New(n), count : Nat]
  <1>1. tip \in R /\ t \in Partial(Owners, R)
    BY DEF Tip, Tips
  <1> HIDE DEF tip, R
  <1>2. Put(t, c, tip) \in Partial(Owners, R)
    BY <1>1, PutTyped
  <1>3. Put(t, c, tip) = [d \in DOMAIN t \cup {c} |-> IF d = c THEN tip ELSE t[d]]
    BY DEF Put
  <1> QED BY <1>2, <1>3 DEF tip, R, Tips

LEMMA PutRing ==
    ASSUME NEW r \in Rings, NEW c \in Owners, NEW rows \in Seq(Message), Len(rows) <= RingMax
    PROVE  Put(r, c, rows) \in Rings
  <1> DEFINE R == {rr \in Seq(Message) : Len(rr) <= RingMax}
  <1>1. rows \in R /\ r \in Partial(Owners, R)
    BY DEF Rings
  <1> HIDE DEF R
  <1>2. Put(r, c, rows) \in Partial(Owners, R)
    BY <1>1, PutTyped
  <1> QED BY <1>2 DEF R, Rings

\* What apply_wal(LinkChatPage) changes
LinkedOn(s, e, c, id, prev) ==
    LET owned == [s EXCEPT !.mem[id].ty = "chat", !.mem[id].at32 = c]
    IN  [e EXCEPT
           !.s = IF prev = 0 THEN owned ELSE [owned EXCEPT !.mem[prev].next = id],
           !.tips = Put(@, c, IF c \in DOMAIN @ THEN [@[c] EXCEPT !.tail = id]
                                                ELSE Tip(id, id, 0))]

LEMMA LinkFacts ==
    ASSUME NEW n \in Nat, n >= ROOT_PAGES, NEW e \in Engine(n), NEW c \in Owners,
           NEW id \in New(n), NEW prev \in Ids(n)
    PROVE  LET f == ApplyLink(e, c, id, prev)
           IN  /\ f \in Engine(n)
               /\ f.s.disk = e.s.disk /\ f.index = e.index /\ f.ring = e.ring
               /\ f.s.mem[id].ty = "chat" /\ f.s.mem[id].at32 = c
               /\ \A p \in Ids(n) : /\ f.s.mem[p].rows = e.s.mem[p].rows
                                    /\ p # id => /\ f.s.mem[p].ty = e.s.mem[p].ty
                                                 /\ f.s.mem[p].at32 = e.s.mem[p].at32
               /\ DOMAIN f.tips = DOMAIN e.tips \cup {c} /\ f.tips[c].tail = id
               /\ \A d : d \in DOMAIN e.tips /\ d # c => f.tips[d] = e.tips[d]
               /\ \A p \in Ids(n) : p # prev => f.s.mem[p].next = e.s.mem[p].next
               /\ prev # 0 => f.s.mem[prev].next = id
               /\ f.tips[c] = IF c \in DOMAIN e.tips
                              THEN Tip(e.tips[c].head, id, e.tips[c].count) ELSE Tip(id, id, 0)
  <1> DEFINE s == e.s
             page == [s.mem[id] EXCEPT !.ty = "chat", !.at32 = c]
             mem1 == [s.mem EXCEPT ![id] = page]
             owned == [s EXCEPT !.mem[id].ty = "chat", !.mem[id].at32 = c]
             mem2 == IF prev = 0 THEN mem1 ELSE [mem1 EXCEPT ![prev].next = id]
             t == Put(e.tips, c, IF c \in DOMAIN e.tips THEN [e.tips[c] EXCEPT !.tail = id]
                                 ELSE Tip(id, id, 0))
             f == ApplyLink(e, c, id, prev)
  <1>1. /\ s \in Store(n) /\ s = [mem |-> s.mem, disk |-> s.disk]
        /\ s.mem \in Heap(n) /\ s.disk \in Heap(n) /\ e.tips \in Tips(n)
        /\ e.index \in Index(n) /\ e.ring \in Rings
        /\ e = [s |-> s, tips |-> e.tips, index |-> e.index, ring |-> e.ring]
    BY EngineParts
  <1>2. EnsurePageCount(s, id + 1) = s
    BY <1>1, Ensured
  <1>3. f = [e EXCEPT !.s = IF prev = 0 THEN owned ELSE [owned EXCEPT !.mem[prev].next = id],
                      !.tips = t]
    <2>1. f = LinkedOn(EnsurePageCount(s, id + 1), e, c, id, prev)
      BY DEF ApplyLink, LinkedOn
    <2>2. f = LinkedOn(s, e, c, id, prev)
      <3> HIDE DEF f, s
      <3> QED BY <1>2, <2>1
    <2> HIDE DEF f
    <2> QED BY <2>2 DEF LinkedOn
  <1>4. DOMAIN s.mem = Ids(n) /\ id \in Ids(n) /\ id # 0
    BY <1>1, HeapFacts, IdFacts
  <1>5. owned = [mem |-> mem1, disk |-> s.disk]
    <2>1. mem1 = [[s.mem EXCEPT ![id].ty = "chat"] EXCEPT ![id].at32 = c]
      BY <1>4
    <2> HIDE DEF s, mem1, page
    <2>2. owned.disk = s.disk /\ owned.mem = mem1
      BY <1>1, <2>1
    <2>3. owned = [s EXCEPT !.mem[id].ty = "chat", !.mem[id].at32 = c]
      OBVIOUS
    <2>4. s = [mem |-> s.mem, disk |-> s.disk]
      BY <1>1
    <2> HIDE DEF owned
    <2>5. owned = [mem |-> owned.mem, disk |-> owned.disk]
      BY ONLY <2>3, <2>4
    <2> QED BY <2>2, <2>5
  <1>6. f = [s |-> [mem |-> mem2, disk |-> s.disk], tips |-> t, index |-> e.index, ring |-> e.ring]
    <2> HIDE DEF owned, t, mem1, s, f
    <2>1. CASE prev = 0
      BY <1>1, <1>3, <1>5, <2>1
    <2>2. CASE prev # 0
      <3>1. [owned EXCEPT !.mem[prev].next = id] = [mem |-> mem2, disk |-> s.disk]
        BY <1>5, <2>2
      <3> HIDE DEF mem2
      <3> QED BY <1>1, <1>3, <2>2, <3>1
    <2> QED BY <2>1, <2>2
  <1>7. /\ page \in PageSet(n) /\ page.ty = "chat" /\ page.at32 = c /\ page.rows = s.mem[id].rows
        /\ page.next = s.mem[id].next
    <2>1. s.mem[id] \in PageSet(n)
      BY <1>1, <1>4, HeapFacts
    <2> HIDE DEF s
    <2> QED BY <2>1 DEF PageSet
  <1> HIDE DEF page, s, owned, f
  <1>8. /\ mem1 \in Heap(n) /\ mem1[id] = page
        /\ \A p \in Ids(n) : p # id => mem1[p] = s.mem[p]
    BY <1>1, <1>7, HeapChanges
  <1> HIDE DEF mem1
  <1>9. mem2 \in Heap(n) /\ \A p \in Ids(n) : /\ mem2[p].rows = mem1[p].rows
                                              /\ mem2[p].ty = mem1[p].ty
                                              /\ mem2[p].at32 = mem1[p].at32
                                              /\ p # prev => mem2[p].next = mem1[p].next
                                              /\ p = prev /\ p # 0 => mem2[p].next = id
    <2>1. CASE prev = 0
      BY <1>8, <2>1
    <2>2. CASE prev # 0
      <3> DEFINE last == [mem1[prev] EXCEPT !.next = id]
      <3>1. prev \in New(n)
        BY <2>2, IdFacts
      <3>2. mem1[prev] \in PageSet(n) /\ mem1[prev].at32 \in Owners
        BY <1>8, <3>1, HeapFacts
      <3>3. /\ last \in PageSet(n) /\ last.at32 = mem1[prev].at32 /\ last.ty = mem1[prev].ty
            /\ last.rows = mem1[prev].rows /\ last.next = id
        BY <1>4, <3>2 DEF PageSet
      <3>4. mem2 = [mem1 EXCEPT ![prev] = last]
        BY <2>2
      <3> HIDE DEF last, mem2
      <3>5. /\ [mem1 EXCEPT ![prev] = last] \in Heap(n) /\ [mem1 EXCEPT ![prev] = last][prev] = last
            /\ \A p \in Ids(n) : p # prev => [mem1 EXCEPT ![prev] = last][p] = mem1[p]
        BY <1>8, <3>1, <3>2, <3>3, HeapChanges
      <3> QED BY <3>3, <3>4, <3>5
    <2> QED BY <2>1, <2>2
  <1> HIDE DEF mem2
  <1>10. /\ t \in Tips(n) /\ DOMAIN t = DOMAIN e.tips \cup {c} /\ t[c].tail = id
         /\ \A d : d \in DOMAIN e.tips /\ d # c => t[d] = e.tips[d]
         /\ t[c] = IF c \in DOMAIN e.tips
                   THEN Tip(e.tips[c].head, id, e.tips[c].count) ELSE Tip(id, id, 0)
    <2>1. CASE c \in DOMAIN e.tips
      <3> DEFINE old == e.tips[c]
      <3>1. old = Tip(old.head, old.tail, old.count) /\ old.head \in New(n) /\ old.count \in Nat
        BY <1>1, <2>1, TipFacts
      <3>2. t = Put(e.tips, c, [old EXCEPT !.tail = id])
        BY <2>1
      <3> HIDE DEF old, t
      <3>3. [old EXCEPT !.tail = id] = Tip(old.head, id, old.count)
        BY <3>1 DEF Tip
      <3>4. Tip(old.head, id, old.count).tail = id
        BY DEF Tip
      <3>5. LET u == Put(e.tips, c, Tip(old.head, id, old.count))
            IN  /\ u \in Tips(n) /\ DOMAIN u = DOMAIN e.tips \cup {c}
                /\ u[c] = Tip(old.head, id, old.count)
                /\ \A d : d \in DOMAIN e.tips /\ d # c => u[d] = e.tips[d]
        BY <1>1, <3>1, PutTip, SMTT(30)
      <3>6. t = Put(e.tips, c, Tip(old.head, id, old.count))
        BY <3>2, <3>3
      <3> QED BY <2>1, <3>4, <3>5, <3>6 DEF old
    <2>2. CASE c \notin DOMAIN e.tips
      <3>1. t = Put(e.tips, c, Tip(id, id, 0)) /\ Tip(id, id, 0).tail = id
        BY <2>2 DEF Tip
      <3> HIDE DEF t
      <3>2. LET u == Put(e.tips, c, Tip(id, id, 0))
            IN  /\ u \in Tips(n) /\ DOMAIN u = DOMAIN e.tips \cup {c}
                /\ u[c] = Tip(id, id, 0)
                /\ \A d : d \in DOMAIN e.tips /\ d # c => u[d] = e.tips[d]
        <4> DEFINE z == 0
        <4>1. z \in Nat /\ id \in New(n) /\ e.tips \in Tips(n)
          BY <1>1
        <4> HIDE DEF z
        <4>a. \A x \in New(n), y \in New(n) : LET u == Put(e.tips, c, Tip(x, y, z))
              IN  /\ u \in Tips(n) /\ DOMAIN u = DOMAIN e.tips \cup {c}
                  /\ u[c] = Tip(x, y, z)
                  /\ \A d : d \in DOMAIN e.tips /\ d # c => u[d] = e.tips[d]
          BY <4>1, PutTip
        <4>2. LET u == Put(e.tips, c, Tip(id, id, z))
              IN  /\ u \in Tips(n) /\ DOMAIN u = DOMAIN e.tips \cup {c}
                  /\ u[c] = Tip(id, id, z)
                  /\ \A d : d \in DOMAIN e.tips /\ d # c => u[d] = e.tips[d]
          BY <4>1, <4>a
        <4> QED BY <4>2 DEF z
      <3> QED BY <2>2, <3>1, <3>2
    <2> QED BY <2>1, <2>2
  <1> HIDE DEF t
  <1>11. f \in Engine(n)
    BY <1>1, <1>6, <1>9, <1>10 DEF Engine, Store
  <1>12. \A p \in Ids(n) : /\ mem2[p].rows = s.mem[p].rows
                           /\ p # id => mem2[p].ty = s.mem[p].ty /\ mem2[p].at32 = s.mem[p].at32
                           /\ p # prev => mem2[p].next = s.mem[p].next
    BY <1>7, <1>8, <1>9
  <1>14. prev # 0 => mem2[prev].next = id
    BY <1>9
  <1>13. mem2[id].ty = "chat" /\ mem2[id].at32 = c
    BY <1>4, <1>7, <1>8, <1>9
  <1> QED BY <1>6, <1>10, <1>11, <1>12, <1>13, <1>14 DEF f, s

\* Some slot of a page that holds a message
LEMMA SlotFacts ==
    ASSUME NEW n \in Nat, NEW page \in PageSet(n), NEW id, SlotOf(page, id) # {}
    PROVE  /\ Min(SlotOf(page, id)) \in DOMAIN page.rows
           /\ page.rows[Min(SlotOf(page, id))].id = id
           /\ Min(SlotOf(page, id)) - 1 \in 0 .. PageCap - 1
  <1> DEFINE slots == SlotOf(page, id)
  <1>1. page.rows \in Seq(Message) /\ Len(page.rows) \in Nat /\ Len(page.rows) <= PageCap
    BY DEF PageSet, Rows
  <1>2. \A k \in slots : k \in DOMAIN page.rows /\ page.rows[k].id = id
    BY DEF SlotOf
  <1>3. slots \in SUBSET Nat /\ slots # {}
    BY <1>1, <1>2
  <1>4. \E m \in slots : \A k \in slots : m <= k
    BY <1>3, Smallest
  <1>5. Min(slots) \in slots
    BY <1>4 DEF Min
  <1> HIDE DEF slots
  <1>6. Min(slots) \in 1 .. Len(page.rows)
    BY <1>1, <1>2, <1>5
  <1> QED BY <1>1, <1>2, <1>5, <1>6, CapFacts DEF slots

LEMMA SeqExtends ==
    ASSUME NEW S, NEW rows \in Seq(S), NEW m \in S
    PROVE  /\ Append(rows, m) \in Seq(S) /\ Len(Append(rows, m)) = Len(rows) + 1
           /\ Append(rows, m)[Len(rows) + 1] = m
           /\ \A k \in 1 .. Len(rows) : Append(rows, m)[k] = rows[k]
  OBVIOUS

\* What apply_wal(InsertTuple) changes: the page, and the index and the tip unless the
\* page is full.
Settled(n, e, f, id, c, m) ==
    LET old == e.s.mem[id]
        new == f.s.mem[id]
    IN  /\ f \in Engine(n) /\ f.s.disk = e.s.disk /\ f.ring = e.ring
        /\ \A p \in Ids(n) : p # id => f.s.mem[p] = e.s.mem[p]
        /\ IF old.ty = "free" \/ old.rows = <<>>
           THEN new.ty = "chat" /\ new.at32 = c
           ELSE new.ty = old.ty /\ new.at32 = old.at32
        /\ new.rows = IF SlotOf(old, m.id) = {} /\ HasRoom(old)
                      THEN Append(old.rows, m) ELSE old.rows
Located(n, e, f, id, c, m) ==
    /\ \E slot \in 0 .. PageCap - 1 :
          /\ slot + 1 \in DOMAIN f.s.mem[id].rows /\ f.s.mem[id].rows[slot + 1].id = m.id
          /\ f.index = SetLoc(e.index, c, m.id, id, slot)
    /\ DOMAIN f.tips = DOMAIN e.tips \cup {c}
    /\ f.tips[c].tail = IF c \in DOMAIN e.tips THEN Max({e.tips[c].tail, id}) ELSE id
    /\ \A d : d \in DOMAIN e.tips /\ d # c => f.tips[d] = e.tips[d]

InsertedOn(s, e, id, c, m) ==
    LET page == IF s.mem[id].ty = "free" \/ s.mem[id].rows = <<>>
                THEN [s.mem[id] EXCEPT !.ty = "chat", !.at32 = c] ELSE s.mem[id]
        there == SlotOf(page, m.id)
        fits == there = {} /\ HasRoom(page)
        tip == IF c \in DOMAIN e.tips THEN e.tips[c] ELSE Tip(id, id, 0)
    IN  IF there = {} /\ ~fits
        THEN [e EXCEPT !.s = [s EXCEPT !.mem[id] = page]]
        ELSE [e EXCEPT
                !.s = [s EXCEPT !.mem[id] = IF fits THEN Insert(page, m) ELSE page],
                !.index = SetLoc(@, c, m.id, id,
                                 IF fits THEN Len(page.rows) ELSE Min(there) - 1),
                !.tips = Put(@, c, Tip(tip.head, Max({tip.tail, id}),
                                       tip.count + IF fits THEN 1 ELSE 0))]

LEMMA MaxOfTwo == \A a, b \in Nat : Max({a, b}) \in {a, b} /\ a <= Max({a, b}) /\ b <= Max({a, b})
  <1> SUFFICES ASSUME NEW a \in Nat, NEW b \in Nat
               PROVE  Max({a, b}) \in {a, b} /\ a <= Max({a, b}) /\ b <= Max({a, b})
    OBVIOUS
  <1>1. \E x \in {a, b} : \A y \in {a, b} : x >= y
    OBVIOUS
  <1> QED BY <1>1 DEF Max

LEMMA InsertFacts ==
    ASSUME NEW n \in Nat, n >= ROOT_PAGES, NEW e \in Engine(n), NEW c \in Owners,
           NEW id \in New(n), NEW m \in Message
    PROVE  LET f == ApplyInsert(e, id, c, m)
               old == e.s.mem[id]
           IN  /\ Settled(n, e, f, id, c, m)
               /\ IF SlotOf(old, m.id) = {} /\ ~HasRoom(old)
                  THEN f.index = e.index /\ f.tips = e.tips
                  ELSE Located(n, e, f, id, c, m)
  <1> DEFINE s == e.s
             f == ApplyInsert(e, id, c, m)
             old == s.mem[id]
             page == IF old.ty = "free" \/ old.rows = <<>>
                     THEN [old EXCEPT !.ty = "chat", !.at32 = c] ELSE old
             there == SlotOf(page, m.id)
             fits == there = {} /\ HasRoom(page)
             tip == IF c \in DOMAIN e.tips THEN e.tips[c] ELSE Tip(id, id, 0)
             new == IF fits THEN Insert(page, m) ELSE page
             mem1 == [s.mem EXCEPT ![id] = new]
             slot == IF fits THEN Len(page.rows) ELSE Min(there) - 1
             tips1 == Put(e.tips, c, Tip(tip.head, Max({tip.tail, id}),
                                        tip.count + IF fits THEN 1 ELSE 0))
             index1 == SetLoc(e.index, c, m.id, id, slot)
  <1>1. /\ s \in Store(n) /\ s = [mem |-> s.mem, disk |-> s.disk]
        /\ s.mem \in Heap(n) /\ s.disk \in Heap(n) /\ e.tips \in Tips(n)
        /\ e.index \in Index(n) /\ e.ring \in Rings
        /\ e = [s |-> s, tips |-> e.tips, index |-> e.index, ring |-> e.ring]
    BY EngineParts
  <1>2. f = InsertedOn(s, e, id, c, m)
    <2>1. EnsurePageCount(s, id + 1) = s
      BY <1>1, Ensured
    <2>2. f = InsertedOn(EnsurePageCount(s, id + 1), e, id, c, m)
      BY DEF ApplyInsert, InsertedOn
    <2> HIDE DEF f, s
    <2> QED BY <2>1, <2>2
  <1>3. id \in Ids(n) /\ id \in Nat /\ old \in PageSet(n) /\ old.at32 \in Owners
    BY <1>1, HeapFacts, IdFacts
  <1>4. /\ page \in PageSet(n) /\ page.at32 \in Owners /\ page.rows = old.rows
        /\ IF old.ty = "free" \/ old.rows = <<>>
           THEN page.ty = "chat" /\ page.at32 = c
           ELSE page.ty = old.ty /\ page.at32 = old.at32
    <2> HIDE DEF old
    <2> QED BY <1>3 DEF PageSet
  <1>5. there = SlotOf(old, m.id) /\ (HasRoom(page) <=> HasRoom(old))
    <2> HIDE DEF page, old
    <2> QED BY <1>4 DEF SlotOf, HasRoom
  <1>6. f = IF there = {} /\ ~fits
            THEN [e EXCEPT !.s = [s EXCEPT !.mem[id] = page]]
            ELSE [e EXCEPT !.s = [s EXCEPT !.mem[id] = new], !.index = index1, !.tips = tips1]
    <2> HIDE DEF f
    <2> QED BY <1>2 DEF InsertedOn
  <1> HIDE DEF f, s
  <1>7. f = [s |-> [mem |-> mem1, disk |-> s.disk],
             tips |-> IF there = {} /\ ~fits THEN e.tips ELSE tips1,
             index |-> IF there = {} /\ ~fits THEN e.index ELSE index1,
             ring |-> e.ring]
    <2>1. [s EXCEPT !.mem[id] = new] = [mem |-> mem1, disk |-> s.disk]
      <3> HIDE DEF new
      <3> QED BY <1>1
    <2>2. there = {} /\ ~fits => new = page
      OBVIOUS
    <2> HIDE DEF mem1, new, tips1, index1, fits, there, page, old
    <2> QED BY <1>1, <1>6, <2>1, <2>2
  <1>8. /\ new \in PageSet(n) /\ new.at32 = page.at32 /\ new.ty = page.ty
        /\ new.rows = IF fits THEN Append(page.rows, m) ELSE page.rows
    <2> HIDE DEF page, old, there
    <2>1. CASE fits
      BY <1>4, <2>1, InsertTyped
    <2>2. CASE ~fits
      BY <1>4, <2>2
    <2> QED BY <2>1, <2>2
  <1>9. fits \/ there # {} =>
           /\ slot \in 0 .. PageCap - 1
           /\ slot + 1 \in DOMAIN new.rows /\ new.rows[slot + 1].id = m.id
    <2>1. CASE fits
      <3>1. slot = Len(page.rows) /\ new.rows = Append(page.rows, m)
        BY <1>8, <2>1
      <3>2. page.rows \in Seq(Message)
        <4> HIDE DEF page
        <4> QED BY <1>4 DEF PageSet, Rows
      <3>3. Len(page.rows) \in 0 .. PageCap - 1
        <4> HIDE DEF page
        <4> QED BY <1>4, <2>1, InsertTyped
      <3>4. new.rows \in Seq(Message) /\ slot + 1 \in 1 .. Len(new.rows) /\ new.rows[slot + 1] = m
        <4> DEFINE rows == page.rows
        <4>1. slot = Len(rows) /\ new.rows = Append(rows, m) /\ rows \in Seq(Message)
          BY <3>1, <3>2
        <4> HIDE DEF rows, slot, new
        <4> QED BY <4>1, SeqExtends
      <3> HIDE DEF slot, new, page
      <3> QED BY <3>1, <3>3, <3>4
    <2>2. CASE ~fits /\ there # {}
      <3>1. slot = Min(there) - 1 /\ new = page
        BY <2>2
      <3> HIDE DEF slot, new, page
      <3>2. /\ Min(there) \in DOMAIN page.rows /\ page.rows[Min(there)].id = m.id
            /\ Min(there) - 1 \in 0 .. PageCap - 1
        BY <1>4, <2>2, SlotFacts
      <3>3. Min(there) \in Nat
        <4>1. page.rows \in Seq(Message)
          BY <1>4 DEF PageSet, Rows
        <4> QED BY <3>2, <4>1
      <3>4. slot + 1 = Min(there)
        BY <3>1, <3>3
      <3> HIDE DEF there
      <3> QED BY <3>1, <3>2, <3>4
    <2> QED BY <2>1, <2>2
  <1>10. fits \/ there # {} => index1 \in Index(n)
    <2> HIDE DEF slot, new, fits, there
    <2>1. m.id \in Nat
      BY DEF Message
    <2> QED BY <1>1, <1>9, <2>1, SetLocTyped
  <1>11. /\ tips1 \in Tips(n) /\ DOMAIN tips1 = DOMAIN e.tips \cup {c}
         /\ tips1[c].tail = Max({tip.tail, id})
         /\ \A d : d \in DOMAIN e.tips /\ d # c => tips1[d] = e.tips[d]
    <2> DEFINE last == Max({tip.tail, id})
               count == tip.count + IF fits THEN 1 ELSE 0
    <2>1. tip.head \in New(n) /\ tip.tail \in New(n) /\ tip.count \in Nat
      <3>1. CASE c \in DOMAIN e.tips
        BY <1>1, <3>1, TipFacts
      <3>2. CASE c \notin DOMAIN e.tips
        <4>1. Tip(id, id, 0).head = id /\ Tip(id, id, 0).tail = id /\ Tip(id, id, 0).count = 0
          BY DEF Tip
        <4> QED BY <3>2, <4>1
      <3> QED BY <3>1, <3>2
    <2> HIDE DEF fits, tip
    <2>2. last \in New(n) /\ count \in Nat
      <3>1. tip.tail \in Nat
        BY <2>1, IdFacts
      <3>2. last \in {tip.tail, id}
        BY <3>1, <1>3, MaxOfTwo
      <3> QED BY <2>1, <3>2
    <2>3. tips1 = Put(e.tips, c, Tip(tip.head, last, count))
      OBVIOUS
    <2> HIDE DEF tips1
    <2>4. last = Max({tip.tail, id})
      OBVIOUS
    <2> HIDE DEF last, count
    <2>5. LET u == Put(e.tips, c, Tip(tip.head, last, count))
          IN  /\ u \in Tips(n) /\ DOMAIN u = DOMAIN e.tips \cup {c}
              /\ u[c] = Tip(tip.head, last, count)
              /\ \A d : d \in DOMAIN e.tips /\ d # c => u[d] = e.tips[d]
      <3>1. \A x \in New(n), y \in New(n), z \in Nat :
              LET u == Put(e.tips, c, Tip(x, y, z))
              IN  /\ u \in Tips(n) /\ DOMAIN u = DOMAIN e.tips \cup {c}
                  /\ u[c] = Tip(x, y, z)
                  /\ \A d : d \in DOMAIN e.tips /\ d # c => u[d] = e.tips[d]
        BY <1>1, PutTip
      <3> QED BY <2>1, <2>2, <3>1
    <2>6. Tip(tip.head, last, count).tail = last
      BY DEF Tip
    <2> QED BY <2>3, <2>4, <2>5, <2>6
  <1>12. mem1 \in Heap(n) /\ mem1[id] = new /\ \A p \in Ids(n) : p # id => mem1[p] = s.mem[p]
    <2> HIDE DEF new
    <2> QED BY <1>1, <1>4, <1>8, HeapChanges
  <1>13. tip.tail = IF c \in DOMAIN e.tips THEN e.tips[c].tail ELSE id
    BY DEF Tip
  <1>14. (there = {} /\ ~fits) <=> (SlotOf(old, m.id) = {} /\ ~HasRoom(old))
    <2> HIDE DEF there, page, old
    <2> QED BY <1>5
  <1>15. fits <=> (SlotOf(old, m.id) = {} /\ HasRoom(old))
    <2> HIDE DEF there, page, old
    <2> QED BY <1>5
  <1>16. Max({tip.tail, id}) = IF c \in DOMAIN e.tips THEN Max({e.tips[c].tail, id}) ELSE id
    <2> HIDE DEF tip
    <2>1. Max({id, id}) = id
      BY <1>3, MaxOfTwo
    <2> QED BY <1>13, <2>1
  <1> HIDE DEF mem1, new, tips1, index1, fits, there, page, old, tip
  <1>17. f \in Engine(n)
    <2>1. [mem |-> mem1, disk |-> s.disk] \in Store(n)
      BY <1>1, <1>12 DEF Store
    <2>2. CASE there = {} /\ ~fits
      BY <1>1, <1>7, <2>1, <2>2 DEF Engine
    <2>3. CASE fits \/ there # {}
      BY <1>1, <1>7, <1>10, <1>11, <2>1, <2>3 DEF Engine
    <2> QED BY <2>2, <2>3
  <1>18. f.s.disk = s.disk /\ f.s.mem = mem1 /\ f.ring = e.ring
    BY <1>7
  <1>19. Settled(n, e, f, id, c, m)
    <2>1. f.s.mem[id] = new /\ new.rows = (IF fits THEN Append(old.rows, m) ELSE old.rows)
      BY <1>4, <1>8, <1>12, <1>18
    <2>2. /\ f.s.mem[id].ty = page.ty /\ f.s.mem[id].at32 = page.at32
          /\ e.s.mem[id] = old /\ e.s = s
      BY <1>8, <2>1 DEF old, s
    <2>3. f.s.mem[id].rows = IF SlotOf(old, m.id) = {} /\ HasRoom(old)
                             THEN Append(old.rows, m) ELSE old.rows
      BY <1>15, <2>1
    <2>4. \A p \in Ids(n) : p # id => f.s.mem[p] = e.s.mem[p]
      BY <1>12, <1>18, <2>2
    <2> QED BY <1>4, <1>17, <1>18, <2>2, <2>3, <2>4 DEF Settled
  <1>20. there = {} /\ ~fits => f.index = e.index /\ f.tips = e.tips
    BY <1>7
  <1>21. fits \/ there # {} => Located(n, e, f, id, c, m)
    <2> SUFFICES ASSUME fits \/ there # {} PROVE Located(n, e, f, id, c, m)
      OBVIOUS
    <2>1. f.index = index1 /\ f.tips = tips1 /\ f.s.mem[id] = new
      BY <1>7, <1>12, <1>18
    <2>2. /\ slot \in 0 .. PageCap - 1 /\ slot + 1 \in DOMAIN f.s.mem[id].rows
          /\ f.s.mem[id].rows[slot + 1].id = m.id
      BY <1>9, <2>1
    <2>3. f.index = SetLoc(e.index, c, m.id, id, slot)
      BY <2>1 DEF index1
    <2> HIDE DEF slot
    <2> QED BY <1>11, <1>16, <2>1, <2>2, <2>3 DEF Located
  <1> QED BY <1>14, <1>19, <1>20, <1>21 DEF f, old, s

-----------------------------------------------------------------------------
(* trim_chat_local. *)

LEMMA NextChanges ==
    ASSUME NEW n \in Nat, n >= ROOT_PAGES, NEW heap \in Heap(n), NEW id \in New(n),
           NEW next \in Ids(n)
    PROVE  LET g == [heap EXCEPT ![id].next = next]
           IN  /\ g \in Heap(n) /\ g[id].next = next
               /\ \A p \in Ids(n) : /\ g[p].rows = heap[p].rows /\ g[p].ty = heap[p].ty
                                    /\ g[p].at32 = heap[p].at32
                                    /\ p # id => g[p].next = heap[p].next
  <1> DEFINE page == [heap[id] EXCEPT !.next = next]
             g == [heap EXCEPT ![id].next = next]
  <1>1. heap[id] \in PageSet(n) /\ heap[id].at32 \in Owners /\ id \in DOMAIN heap
    BY HeapFacts, IdFacts
  <1>2. /\ page \in PageSet(n) /\ page.at32 = heap[id].at32 /\ page.rows = heap[id].rows
        /\ page.ty = heap[id].ty /\ page.next = next
    BY <1>1 DEF PageSet
  <1>3. g = [heap EXCEPT ![id] = page]
    OBVIOUS
  <1> HIDE DEF page, g
  <1>4. /\ [heap EXCEPT ![id] = page] \in Heap(n) /\ [heap EXCEPT ![id] = page][id] = page
        /\ \A p \in Ids(n) : p # id => [heap EXCEPT ![id] = page][p] = heap[p]
    BY <1>1, <1>2, HeapChanges
  <1>5. /\ g[id].next = next
        /\ \A p \in Ids(n) : /\ g[p].rows = heap[p].rows /\ g[p].ty = heap[p].ty
                             /\ g[p].at32 = heap[p].at32
                             /\ p # id => g[p].next = heap[p].next
    BY <1>2, <1>3, <1>4
  <1>6. g \in Heap(n)
    BY <1>3, <1>4
  <1> QED BY <1>5, <1>6 DEF g

\* Where the rewriting puts a message, once it has a page with room
Rewritten(e, c, m, at) ==
    [e EXCEPT
       !.s = [at.s EXCEPT !.mem[at.id] = Insert(@, m)],
       !.index = SetLoc(@, c, m.id, at.id, Len(at.s.mem[at.id].rows)),
       !.tips[c] = Tip(@.head, at.id, @.count + 1)]

RewrittenAs(e, c, m, k, at) ==
    LET f == Rewritten(e, c, m, at)
    IN  /\ f \in Engine(k) /\ DOMAIN f.tips = DOMAIN e.tips
        /\ f.s.mem = [at.s.mem EXCEPT ![at.id] = Insert(at.s.mem[at.id], m)]
        /\ f.tips = [e.tips EXCEPT ![c] = Tip(e.tips[c].head, at.id, e.tips[c].count + 1)]
        /\ f.ring = e.ring

LEMMA RewrittenTyped ==
    ASSUME NEW n \in Nat, n >= ROOT_PAGES, NEW e \in Engine(n), NEW c \in DOMAIN e.tips,
           NEW m \in Message, NEW k \in Nat, n <= k, NEW at,
           at.s \in Store(k), at.id \in New(k), HasRoom(at.s.mem[at.id])
    PROVE  RewrittenAs(e, c, m, k, at)
  <1> DEFINE s == at.s
             id == at.id
             tip == e.tips[c]
             page == Insert(s.mem[id], m)
             mem1 == [s.mem EXCEPT ![id] = page]
             index1 == SetLoc(e.index, c, m.id, id, Len(s.mem[id].rows))
             tips1 == [e.tips EXCEPT ![c] = Tip(tip.head, id, tip.count + 1)]
  <1>1. /\ s \in Store(k) /\ s = [mem |-> s.mem, disk |-> s.disk]
        /\ s.mem \in Heap(k) /\ s.disk \in Heap(k) /\ k >= ROOT_PAGES
    BY DEF Store, ROOT_PAGES
  <1>2. /\ e.tips \in Tips(n) /\ e.index \in Index(n) /\ e.ring \in Rings
        /\ e = [s |-> e.s, tips |-> e.tips, index |-> e.index, ring |-> e.ring]
    BY EngineParts
  <1>3. e.tips \in Tips(k) /\ e.index \in Index(k)
    BY <1>2, MapsGrow
  <1>4. id \in Ids(k) /\ s.mem[id] \in PageSet(k) /\ s.mem[id].at32 \in Owners
    <2>1. id \in New(k)
      OBVIOUS
    <2> HIDE DEF id, s
    <2>2. id \in Ids(k)
      BY <1>1, <2>1, IdFacts
    <2> QED BY <1>1, <2>1, <2>2, HeapFacts
  <1>5. Rewritten(e, c, m, at) = [s |-> [mem |-> mem1, disk |-> s.disk], tips |-> tips1,
                                  index |-> index1, ring |-> e.ring]
    <2>1. [s EXCEPT !.mem[id] = Insert(@, m)] = [mem |-> mem1, disk |-> s.disk]
      BY <1>1
    <2>2. tips1 = [e.tips EXCEPT ![c] = Tip(@.head, id, @.count + 1)]
      OBVIOUS
    <2>3. Rewritten(e, c, m, at) = [e EXCEPT !.s = [s EXCEPT !.mem[id] = Insert(@, m)],
                                             !.index = index1, !.tips = tips1]
      <3> DEFINE s2 == [at.s EXCEPT !.mem[at.id] = Insert(@, m)]
                 t2 == [e.tips EXCEPT ![c] = Tip(@.head, at.id, @.count + 1)]
                 i2 == SetLoc(e.index, c, m.id, at.id, Len(at.s.mem[at.id].rows))
      <3>1. Rewritten(e, c, m, at) = [e EXCEPT !.s = s2, !.index = i2, !.tips = t2]
        BY DEF Rewritten
      <3>2. s2 = [s EXCEPT !.mem[id] = Insert(@, m)]
        OBVIOUS
      <3>3. i2 = index1
        OBVIOUS
      <3>4. t2 = tips1
        OBVIOUS
      <3> HIDE DEF index1, tips1, s2, t2, i2
      <3> QED BY <3>1, <3>2, <3>3, <3>4
    <2> HIDE DEF mem1, index1, tips1, tip, s, id
    <2> QED BY <1>2, <2>1, <2>3
  <1>6. /\ page \in PageSet(k) /\ page.at32 = s.mem[id].at32
        /\ Len(s.mem[id].rows) \in 0 .. PageCap - 1
    <2> DEFINE old == s.mem[id]
    <2>1. old \in PageSet(k) /\ HasRoom(old)
      BY <1>4
    <2> HIDE DEF old, s, id
    <2>2. /\ Insert(old, m) \in PageSet(k) /\ Insert(old, m).at32 = old.at32
          /\ Len(old.rows) \in 0 .. PageCap - 1
      BY <1>1, <2>1, InsertTyped
    <2> QED BY <2>2 DEF old
  <1>7. mem1 \in Heap(k)
    <2> HIDE DEF page, s, id
    <2>1. id \in New(k)
      BY DEF id
    <2> QED BY <1>1, <1>4, <1>6, <2>1, HeapChanges
  <1>8. c \in Owners
    BY <1>3, TipFacts
  <1>9. index1 \in Index(k)
    <2>1. m.id \in Nat /\ id \in New(k)
      BY DEF Message
    <2> HIDE DEF s, id
    <2> QED BY <1>3, <1>6, <1>8, <2>1, SetLocTyped
  <1>10. tips1 \in Tips(k) /\ DOMAIN tips1 = DOMAIN e.tips
    <2> DEFINE head == tip.head
               count == tip.count + 1
               u == Put(e.tips, c, Tip(head, id, count))
    <2>1. head \in New(k) /\ count \in Nat /\ id \in New(k)
      <3>1. tip.head \in New(k) /\ tip.count \in Nat
        BY <1>3, TipFacts
      <3> QED BY <3>1
    <2>2. e.tips = [x \in DOMAIN e.tips |-> e.tips[x]]
      BY <1>3, PartialFacts DEF Tips
    <2>3. tips1 = u
      <3>1. tips1 = [x \in DOMAIN e.tips |-> IF x = c THEN Tip(head, id, count) ELSE e.tips[x]]
        <4> HIDE DEF tip, head, count, id
        <4>1. tips1 = [e.tips EXCEPT ![c] = Tip(head, id, count)]
          BY DEF head, count
        <4> HIDE DEF tips1
        <4> QED BY <2>2, <4>1
      <3>2. DOMAIN e.tips \cup {c} = DOMAIN e.tips
        OBVIOUS
      <3> HIDE DEF tips1, head, count, id
      <3> QED BY <3>1, <3>2 DEF Put
    <2> HIDE DEF tips1, head, count, id, tip
    <2>4. \A x \in New(k), y \in New(k), z \in Nat :
              Put(e.tips, c, Tip(x, y, z)) \in Tips(k)
      BY <1>3, <1>8, PutTip
    <2>5. u \in Tips(k)
      BY <2>1, <2>4
    <2>6. DOMAIN u = DOMAIN e.tips
      BY DEF Put
    <2> QED BY <2>3, <2>5, <2>6
  <1>12. /\ mem1 = [at.s.mem EXCEPT ![at.id] = Insert(at.s.mem[at.id], m)]
         /\ tips1 = [e.tips EXCEPT ![c] = Tip(e.tips[c].head, at.id, e.tips[c].count + 1)]
    OBVIOUS
  <1> HIDE DEF mem1, index1, tips1, s
  <1>11. [mem |-> mem1, disk |-> s.disk] \in Store(k)
    BY <1>1, <1>7 DEF Store
  <1> HIDE DEF tip, id, page
  <1> DEFINE f == Rewritten(e, c, m, at)
  <1>13. /\ f = [s |-> [mem |-> mem1, disk |-> s.disk], tips |-> tips1, index |-> index1,
                ring |-> e.ring]
    BY <1>5
  <1> HIDE DEF f
  <1>14. f \in Engine(k) /\ DOMAIN f.tips = DOMAIN e.tips
    BY <1>2, <1>9, <1>10, <1>11, <1>13 DEF Engine
  <1>15. f.s.mem = mem1 /\ f.tips = tips1 /\ f.ring = e.ring
    BY <1>13
  <1>16. /\ f.s.mem = [at.s.mem EXCEPT ![at.id] = Insert(at.s.mem[at.id], m)]
         /\ f.tips = [e.tips EXCEPT ![c] = Tip(e.tips[c].head, at.id, e.tips[c].count + 1)]
    BY <1>12, <1>15
  <1> QED BY <1>14, <1>15, <1>16 DEF f, RewrittenAs

LEMMA RewriteTyped ==
    ASSUME NEW n \in Nat, n >= ROOT_PAGES, NEW e \in Engine(n), NEW c \in DOMAIN e.tips,
           NEW m \in Message
    PROVE  \E k \in {n, n + 1} : /\ Rewrite(e, c, m) \in Engine(k)
                                 /\ DOMAIN Rewrite(e, c, m).tips = DOMAIN e.tips
  <1> DEFINE at == RewriteTarget(e, c)
             tail == e.tips[c].tail
             a == AllocChatPage(e.s, c)
  <1>1. Rewrite(e, c, m) = Rewritten(e, c, m, at)
    BY DEF Rewrite, Rewritten
  <1>2. e.s \in Store(n) /\ e.tips \in Tips(n) /\ e.s.mem \in Heap(n)
    BY EngineParts
  <1>3. tail \in New(n) /\ c \in Owners
    BY <1>2, TipFacts
  <1>4. \E k \in {n, n + 1} : at.s \in Store(k) /\ at.id \in New(k) /\ HasRoom(at.s.mem[at.id])
    <2>1. CASE HasRoom(e.s.mem[tail])
      BY <1>2, <1>3, <2>1 DEF RewriteTarget
    <2>2. CASE ~HasRoom(e.s.mem[tail])
      <3> DEFINE s == [a.s EXCEPT !.mem[tail].next = a.id]
      <3>1. at.id = a.id /\ at.s = s
        BY <2>2 DEF RewriteTarget
      <3>2. PICK k \in {n, n + 1} :
                a.id \in New(k) /\ a.s \in Store(k) /\ a.s.mem[a.id] = ChatPage(c)
        BY <1>2, <1>3, AllocFacts
      <3> HIDE DEF a, at
      <3>3. k \in Nat /\ k >= ROOT_PAGES /\ tail \in New(k) /\ a.id \in Ids(k)
        <4>1. k \in Nat /\ k >= ROOT_PAGES /\ n <= k
          BY DEF ROOT_PAGES
        <4> QED BY <1>3, <3>2, <4>1, IdsGrow, IdFacts
      <3>4. a.s = [mem |-> a.s.mem, disk |-> a.s.disk] /\ a.s.mem \in Heap(k) /\ a.s.disk \in Heap(k)
        BY <3>2 DEF Store
      <3> DEFINE mem1 == [a.s.mem EXCEPT ![tail].next = a.id]
      <3> HIDE DEF tail
      <3>5. s = [mem |-> mem1, disk |-> a.s.disk]
        BY <3>4
      <3> HIDE DEF s
      <3>6. mem1 \in Heap(k) /\ \A p \in Ids(k) : mem1[p].rows = a.s.mem[p].rows
        BY <3>3, <3>4, NextChanges
      <3> HIDE DEF mem1
      <3>7. s \in Store(k) /\ s.mem = mem1
        BY <3>4, <3>5, <3>6 DEF Store
      <3>8. mem1[a.id].rows = <<>>
        <4>1. mem1[a.id].rows = ChatPage(c).rows
          BY <3>2, <3>3, <3>6
        <4> QED BY <1>3, <4>1, ChatPageTyped
      <3>9. HasRoom(s.mem[a.id])
        BY <3>7, <3>8, CapFacts DEF HasRoom
      <3> QED BY <3>1, <3>2, <3>7, <3>9
    <2> QED BY <2>1, <2>2
  <1> HIDE DEF at
  <1>5. PICK k \in {n, n + 1} : at.s \in Store(k) /\ at.id \in New(k) /\ HasRoom(at.s.mem[at.id])
    BY <1>4
  <1>6. k \in Nat /\ n <= k
    OBVIOUS
  <1>7. /\ Rewritten(e, c, m, at) \in Engine(k)
        /\ DOMAIN Rewritten(e, c, m, at).tips = DOMAIN e.tips
    <2>1. RewrittenAs(e, c, m, k, at)
      BY <1>5, <1>6, RewrittenTyped
    <2> QED BY <2>1 DEF RewrittenAs
  <1> QED BY <1>1, <1>7

\* The two loops of trim_chat_local
Freed(s, chain) ==
    LET free[k \in 0 .. Len(chain)] ==
            IF k = 0 THEN s ELSE FreePage(free[k - 1], chain[k])
    IN  free[Len(chain)]
Remade(start, c, kept) ==
    LET done[k \in 0 .. Len(kept)] ==
            IF k = 0 THEN start ELSE Rewrite(done[k - 1], c, kept[k])
    IN  done[Len(kept)]

FreeSteps(n, s, chain, f) ==
    /\ f \in [0 .. Len(chain) -> Store(n)] /\ f[0] = s
    /\ \A k \in 1 .. Len(chain) : f[k] = FreePage(f[k - 1], chain[k])

LEMMA FreedUnfolds ==
    ASSUME NEW n \in Nat, n >= ROOT_PAGES, NEW s \in Store(n), NEW chain \in Seq(New(n))
    PROVE  \E f : FreeSteps(n, s, chain, f) /\ Freed(s, chain) = f[Len(chain)]
  <1> DEFINE len == Len(chain)
             W == Store(n)
             Next1(k, v) == FreePage(v, chain[k])
             step == [k \in 1 .. len |-> [v \in W |-> Next1(k, v)]]
             Sofar(k, g) == IF k = 0 THEN s ELSE FreePage(g[k - 1], chain[k])
             rows == CHOOSE g : g = [k \in 0 .. len |-> Sofar(k, g)]
  <1>1. len \in Nat /\ \A k \in 1 .. len : chain[k] \in New(n)
    OBVIOUS
  <1>2. Freed(s, chain) = rows[len]
    BY DEF Freed
  <1> HIDE DEF len
  <1>3. \A k \in 1 .. len, v \in W : Next1(k, v) \in W
    BY <1>1, FreePageTyped
  <1>4. step \in [1 .. len -> [W -> W]]
    <2> HIDE DEF Next1, W
    <2> QED BY <1>3
  <1>5. \E f : Steps(W, s, len, step, f)
    <2> HIDE DEF W, step
    <2>1. Steppable(W, s, len, step)
      BY <1>1, <1>4 DEF Steppable, W
    <2> QED BY <2>1, StepsExist
  <1>6. \E f : f = [k \in 0 .. len |-> Sofar(k, f)]
    <2>1. PICK f : Steps(W, s, len, step, f)
      BY <1>5
    <2>2. f \in [0 .. len -> W] /\ f[0] = s /\ \A k \in 1 .. len : f[k] = step[k][f[k - 1]]
      BY <2>1 DEF Steps
    <2>3. \A k \in 0 .. len : f[k] = Sofar(k, f)
      <3> TAKE k \in 0 .. len
      <3>1. CASE k = 0
        BY <2>2, <3>1
      <3>2. CASE k # 0
        <4>1. k \in 1 .. len /\ f[k - 1] \in W
          BY <1>1, <2>2, <3>2
        <4>2. f[k] = Next1(k, f[k - 1])
          <5> HIDE DEF Next1, W
          <5> QED BY <2>2, <4>1
        <4> QED BY <3>2, <4>2
      <3> QED BY <3>1, <3>2
    <2>4. f = [k \in 0 .. len |-> f[k]]
      BY <2>2
    <2> HIDE DEF Sofar
    <2> QED BY <2>3, <2>4
  <1>7. rows = [k \in 0 .. len |-> Sofar(k, rows)]
    <2> HIDE DEF Sofar
    <2> QED BY <1>6, Zenon
  <1> HIDE DEF rows
  <1>8. rows[0] = s /\ \A k \in 1 .. len : rows[k] = Next1(k, rows[k - 1])
    <2>1. \A k \in 0 .. len : rows[k] = Sofar(k, rows)
      <3> HIDE DEF Sofar
      <3> QED BY <1>7
    <2>2. 0 \in 0 .. len /\ \A k \in 1 .. len : k \in 0 .. len /\ k # 0
      BY <1>1
    <2>3. Sofar(0, rows) = s /\ \A k \in 1 .. len : Sofar(k, rows) = Next1(k, rows[k - 1])
      BY <2>2
    <2> HIDE DEF Sofar, Next1
    <2> QED BY <2>1, <2>2, <2>3
  <1> DEFINE Good == {k \in Nat : k <= len => rows[k] \in W}
  <1> HIDE DEF W, Next1
  <1>9. 0 \in Good
    BY <1>8 DEF W
  <1>10. \A k \in Nat : k \in Good => k + 1 \in Good
    <2> TAKE k \in Nat
    <2>1. ASSUME k \in Good, k + 1 <= len
          PROVE  rows[k + 1] \in W
      <3>1. k + 1 \in 1 .. len /\ (k + 1) - 1 = k /\ rows[k] \in W
        BY <1>1, <2>1
      <3> QED BY <1>3, <1>8, <3>1
    <2> QED BY <2>1
  <1> HIDE DEF Good
  <1>11. \A k \in Nat : k \in Good
    BY <1>9, <1>10, NatSetInduction
  <1>12. rows \in [0 .. len -> W]
    <2>1. \A k \in 0 .. len : rows[k] \in W
      BY <1>1, <1>11 DEF Good
    <2>2. rows = [k \in 0 .. len |-> rows[k]]
      <3> HIDE DEF Sofar
      <3> QED BY <1>7
    <2> QED BY <2>1, <2>2
  <1>13. FreeSteps(n, s, chain, rows)
    BY <1>8, <1>12 DEF FreeSteps, len, W, Next1
  <1> QED BY <1>2, <1>13 DEF len

LEMMA FreedTyped ==
    ASSUME NEW n \in Nat, n >= ROOT_PAGES, NEW s \in Store(n), NEW chain \in Seq(New(n))
    PROVE  Freed(s, chain) \in Store(n)
  <1>1. PICK f : FreeSteps(n, s, chain, f) /\ Freed(s, chain) = f[Len(chain)]
    BY FreedUnfolds
  <1>2. Len(chain) \in 0 .. Len(chain)
    OBVIOUS
  <1> QED BY <1>1, <1>2 DEF FreeSteps

\* Engines with at least n pages and a tip for chat c
Engines(n, c) ==
    UNION {{e \in Engine(k) : c \in DOMAIN e.tips} : k \in {i \in Nat : n <= i}}

RemakeSteps(n, start, c, kept, f) ==
    /\ f \in [0 .. Len(kept) -> Engines(n, c)] /\ f[0] = start
    /\ \A k \in 1 .. Len(kept) : f[k] = Rewrite(f[k - 1], c, kept[k])

LEMMA RemadeUnfolds ==
    ASSUME NEW n \in Nat, n >= ROOT_PAGES, NEW c, NEW start \in Engines(n, c),
           NEW kept \in Seq(Message)
    PROVE  \E f : RemakeSteps(n, start, c, kept, f) /\ Remade(start, c, kept) = f[Len(kept)]
  <1> DEFINE len == Len(kept)
             W == Engines(n, c)
             Next1(k, v) == Rewrite(v, c, kept[k])
             step == [k \in 1 .. len |-> [v \in W |-> Next1(k, v)]]
             Sofar(k, g) == IF k = 0 THEN start ELSE Rewrite(g[k - 1], c, kept[k])
             rows == CHOOSE g : g = [k \in 0 .. len |-> Sofar(k, g)]
  <1>1. len \in Nat /\ \A k \in 1 .. len : kept[k] \in Message
    OBVIOUS
  <1>2. Remade(start, c, kept) = rows[len]
    BY DEF Remade
  <1> HIDE DEF len
  <1>3. ASSUME NEW k \in 1 .. len, NEW v \in W
        PROVE  Next1(k, v) \in W
    <2>1. PICK i \in Nat : n <= i /\ v \in Engine(i) /\ c \in DOMAIN v.tips
      BY DEF Engines
    <2>2. i >= ROOT_PAGES /\ kept[k] \in Message
      BY <1>1, <2>1 DEF ROOT_PAGES
    <2>3. PICK j \in {i, i + 1} : /\ Rewrite(v, c, kept[k]) \in Engine(j)
                                  /\ DOMAIN Rewrite(v, c, kept[k]).tips = DOMAIN v.tips
      BY <2>1, <2>2, RewriteTyped
    <2>4. j \in Nat /\ n <= j
      BY <2>1
    <2> QED BY <2>1, <2>3, <2>4 DEF Engines
  <1>4. step \in [1 .. len -> [W -> W]]
    <2> HIDE DEF Next1, W
    <2> QED BY <1>3
  <1>5. \E f : Steps(W, start, len, step, f)
    <2> HIDE DEF W, step
    <2>1. Steppable(W, start, len, step)
      BY <1>1, <1>4 DEF Steppable, W
    <2> QED BY <2>1, StepsExist
  <1>6. \E f : f = [k \in 0 .. len |-> Sofar(k, f)]
    <2>1. PICK f : Steps(W, start, len, step, f)
      BY <1>5
    <2>2. f \in [0 .. len -> W] /\ f[0] = start /\ \A k \in 1 .. len : f[k] = step[k][f[k - 1]]
      BY <2>1 DEF Steps
    <2>3. \A k \in 0 .. len : f[k] = Sofar(k, f)
      <3> TAKE k \in 0 .. len
      <3>1. CASE k = 0
        BY <2>2, <3>1
      <3>2. CASE k # 0
        <4>1. k \in 1 .. len /\ f[k - 1] \in W
          BY <1>1, <2>2, <3>2
        <4>2. f[k] = Next1(k, f[k - 1])
          <5> HIDE DEF Next1, W
          <5> QED BY <2>2, <4>1
        <4> QED BY <3>2, <4>2
      <3> QED BY <3>1, <3>2
    <2>4. f = [k \in 0 .. len |-> f[k]]
      BY <2>2
    <2> HIDE DEF Sofar
    <2> QED BY <2>3, <2>4
  <1>7. rows = [k \in 0 .. len |-> Sofar(k, rows)]
    <2> HIDE DEF Sofar
    <2> QED BY <1>6, Zenon
  <1> HIDE DEF rows
  <1>8. rows[0] = start /\ \A k \in 1 .. len : rows[k] = Next1(k, rows[k - 1])
    <2>1. \A k \in 0 .. len : rows[k] = Sofar(k, rows)
      <3> HIDE DEF Sofar
      <3> QED BY <1>7
    <2>2. 0 \in 0 .. len /\ \A k \in 1 .. len : k \in 0 .. len /\ k # 0
      BY <1>1
    <2>3. Sofar(0, rows) = start /\ \A k \in 1 .. len : Sofar(k, rows) = Next1(k, rows[k - 1])
      BY <2>2
    <2> HIDE DEF Sofar, Next1
    <2> QED BY <2>1, <2>2, <2>3
  <1> DEFINE Good == {k \in Nat : k <= len => rows[k] \in W}
  <1> HIDE DEF W, Next1
  <1>9. 0 \in Good
    BY <1>8 DEF W
  <1>10. \A k \in Nat : k \in Good => k + 1 \in Good
    <2> TAKE k \in Nat
    <2>1. ASSUME k \in Good, k + 1 <= len
          PROVE  rows[k + 1] \in W
      <3>1. k + 1 \in 1 .. len /\ (k + 1) - 1 = k /\ rows[k] \in W
        BY <1>1, <2>1
      <3> QED BY <1>3, <1>8, <3>1
    <2> QED BY <2>1
  <1> HIDE DEF Good
  <1>11. \A k \in Nat : k \in Good
    BY <1>9, <1>10, NatSetInduction
  <1>12. rows \in [0 .. len -> W]
    <2>1. \A k \in 0 .. len : rows[k] \in W
      BY <1>1, <1>11 DEF Good
    <2>2. rows = [k \in 0 .. len |-> rows[k]]
      <3> HIDE DEF Sofar
      <3> QED BY <1>7
    <2> QED BY <2>1, <2>2
  <1>13. RemakeSteps(n, start, c, kept, rows)
    BY <1>8, <1>12 DEF RemakeSteps, len, W, Next1
  <1> QED BY <1>2, <1>13 DEF len

LEMMA RemadeTyped ==
    ASSUME NEW n \in Nat, n >= ROOT_PAGES, NEW c, NEW start \in Engines(n, c),
           NEW kept \in Seq(Message)
    PROVE  Remade(start, c, kept) \in Engines(n, c)
  <1>1. PICK f : RemakeSteps(n, start, c, kept, f) /\ Remade(start, c, kept) = f[Len(kept)]
    BY RemadeUnfolds
  <1>2. Len(kept) \in 0 .. Len(kept)
    OBVIOUS
  <1> QED BY <1>1, <1>2 DEF RemakeSteps

\* What trim_chat_keep_last leaves is an engine, with as many pages or more.
LEMMA TrimTyped ==
    ASSUME NEW n \in Nat, n >= ROOT_PAGES, NEW e \in Engine(n), NEW c \in Owners,
           NEW keep \in Nat
    PROVE  \E k \in Nat : n <= k /\ TrimChat(e, c, keep) \in Engine(k)
  <1> DEFINE tip   == e.tips[c]
             all   == ReadChain(e.s.mem, tip.head)
             kept  == Kept(all, keep)
             chain == Chain(e.s.mem, tip.head)
             freed == [e EXCEPT !.s = Freed(e.s, chain), !.index = DeleteChat(e.index, c)]
             a     == AllocChatPage(freed.s, c)
             start == [freed EXCEPT !.s = a.s, !.tips = Put(freed.tips, c, Tip(a.id, a.id, 0))]
             done  == Remade(start, c, kept)
  <1>1. TrimChat(e, c, keep) =
            IF c \notin DOMAIN e.tips \/ tip.count <= keep THEN e
            ELSE IF kept = <<>>
                 THEN [freed EXCEPT !.tips = Without(freed.tips, {c}), !.ring = Without(freed.ring, {c})]
                 ELSE [done EXCEPT !.ring = Put(done.ring, c, LastOf(kept, RingMax))]
    BY DEF TrimChat, Freed, Remade
  <1> SUFFICES ASSUME c \in DOMAIN e.tips
               PROVE  \E k \in Nat : n <= k /\ TrimChat(e, c, keep) \in Engine(k)
    <2> HIDE DEF tip, kept, freed, done
    <2>1. CASE c \in DOMAIN e.tips
      BY <2>1
    <2>2. CASE c \notin DOMAIN e.tips
      <3>1. TrimChat(e, c, keep) = e
        BY <1>1, <2>2
      <3> QED BY <3>1
    <2> QED BY <2>1, <2>2
  <1>2. /\ e.s \in Store(n) /\ e.s.mem \in Heap(n) /\ e.tips \in Tips(n)
        /\ e.index \in Index(n) /\ e.ring \in Rings
        /\ e = [s |-> e.s, tips |-> e.tips, index |-> e.index, ring |-> e.ring]
    BY EngineParts
  <1>3. tip.head \in New(n)
    BY <1>2, TipFacts
  <1> HIDE DEF tip
  <1>4. chain \in Seq(New(n)) /\ all \in Seq(Message)
    BY <1>2, <1>3, ChainTyped, ReadTyped
  <1> HIDE DEF chain, all
  <1>5. kept \in Seq(Message) /\ Len(kept) <= keep
    BY <1>4, LastOfTyped DEF Kept
  <1> HIDE DEF kept
  <1>6. Freed(e.s, chain) \in Store(n) /\ DeleteChat(e.index, c) \in Index(n)
    BY <1>2, <1>4, FreedTyped, DeleteChatTyped
  <1>7. /\ freed.s \in Store(n) /\ freed.tips = e.tips /\ freed.ring = e.ring
        /\ freed.index \in Index(n)
        /\ freed = [s |-> freed.s, tips |-> freed.tips, index |-> freed.index, ring |-> freed.ring]
    <2> DEFINE s == Freed(e.s, chain)
               i == DeleteChat(e.index, c)
    <2>1. freed = [e EXCEPT !.s = s, !.index = i]
      OBVIOUS
    <2> HIDE DEF s, i, freed
    <2>2. freed = [s |-> s, tips |-> e.tips, index |-> i, ring |-> e.ring]
      BY <1>2, <2>1
    <2> QED BY <1>6, <2>2 DEF s, i
  <1> HIDE DEF freed
  <1>8. [freed EXCEPT !.tips = Without(freed.tips, {c}), !.ring = Without(freed.ring, {c})] \in Engine(n)
    <2> DEFINE R == [head : New(n), tail : New(n), count : Nat]
               Q == {r \in Seq(Message) : Len(r) <= RingMax}
    <2>1. e.tips \in Partial(Owners, R) /\ e.ring \in Partial(Owners, Q)
      BY <1>2 DEF Tips, Rings
    <2> HIDE DEF R, Q
    <2>2. Without(e.tips, {c}) \in Partial(Owners, R)
      BY <2>1, WithoutTyped
    <2>3. Without(e.ring, {c}) \in Partial(Owners, Q)
      BY <2>1, WithoutTyped
    <2>4. Without(freed.tips, {c}) \in Tips(n) /\ Without(freed.ring, {c}) \in Rings
      BY <1>7, <2>2, <2>3 DEF R, Q, Tips, Rings
    <2> QED BY <1>7, <2>4 DEF Engine
  <1>9. PICK m \in {n, n + 1} : a.id \in New(m) /\ a.s \in Store(m) /\ a.s.mem[a.id] = ChatPage(c)
    BY <1>7, AllocFacts
  <1> HIDE DEF a
  <1>10. m \in Nat /\ n <= m /\ m >= ROOT_PAGES
    BY DEF ROOT_PAGES
  <1>11. start \in Engine(m) /\ c \in DOMAIN start.tips
    <2> DEFINE t == Put(freed.tips, c, Tip(a.id, a.id, 0))
    <2>1. freed.tips \in Tips(m) /\ freed.index \in Index(m)
      BY <1>2, <1>7, <1>10, MapsGrow
    <2>2. \A x \in New(m), y \in New(m), z \in Nat : Put(freed.tips, c, Tip(x, y, z)) \in Tips(m)
      BY <1>10, <2>1, PutTip
    <2>3. t \in Tips(m) /\ c \in DOMAIN t
      <3>1. 0 \in Nat
        OBVIOUS
      <3>2. t \in Tips(m)
        BY <1>9, <2>2, <3>1
      <3>3. c \in DOMAIN t
        BY DEF Put
      <3> QED BY <3>2, <3>3
    <2> HIDE DEF t
    <2>4. start = [s |-> a.s, tips |-> t, index |-> freed.index, ring |-> freed.ring]
      <3>1. start = [freed EXCEPT !.s = a.s, !.tips = t]
        BY DEF t
      <3> HIDE DEF start
      <3> QED BY <1>7, <3>1
    <2> QED BY <1>2, <1>7, <1>9, <2>1, <2>3, <2>4 DEF Engine
  <1> HIDE DEF start
  <1>12. done \in Engines(n, c)
    <2>1. start \in Engines(n, c)
      BY <1>10, <1>11 DEF Engines
    <2> QED BY <1>5, <2>1, RemadeTyped
  <1> HIDE DEF done
  <1>13. PICK k \in Nat : n <= k /\ done \in Engine(k)
    BY <1>12 DEF Engines
  <1>14. [done EXCEPT !.ring = Put(done.ring, c, LastOf(kept, RingMax))] \in Engine(k)
    <2> DEFINE r == Put(done.ring, c, LastOf(kept, RingMax))
    <2>1. /\ done = [s |-> done.s, tips |-> done.tips, index |-> done.index, ring |-> done.ring]
          /\ done.s \in Store(k) /\ done.tips \in Tips(k) /\ done.index \in Index(k)
          /\ done.ring \in Rings
      BY <1>13, EngineParts
    <2>2. LastOf(kept, RingMax) \in Seq(Message) /\ Len(LastOf(kept, RingMax)) <= RingMax
      BY <1>5, CapFacts, LastOfTyped
    <2>3. r \in Rings
      BY <2>1, <2>2, PutRing
    <2> HIDE DEF r
    <2>4. [done EXCEPT !.ring = r] = [s |-> done.s, tips |-> done.tips, index |-> done.index, ring |-> r]
      BY <2>1
    <2>5. [done EXCEPT !.ring = r] \in Engine(k)
      BY <2>1, <2>3, <2>4 DEF Engine
    <2> QED BY <2>5 DEF r
  <1>15. n <= n
    OBVIOUS
  <1> QED BY <1>1, <1>8, <1>13, <1>14, <1>15

-----------------------------------------------------------------------------
(* The invariant: the engine, the log, the snapshot and the running call    *)
(* agree on how many pages there are.                                       *)

CallType(n) == [chat : Owners, msg : Message, big : BOOLEAN, page : Ids(n), prev : Ids(n)]
LinkRecs(n)   == [ty : {"link"}, chat : Chats, page : New(n), prev : Ids(n)]
InsertRecs(n) == [ty : {"insert"}, chat : Chats, page : New(n), msg : Message]
TrimRecs      == [ty : {"trim"}, chat : Chats, keep : Nat]
Recs(n) == LinkRecs(n) \cup InsertRecs(n) \cup TrimRecs

\* An append that has a page has one with room.
CallOK(n, ph, cl, m, t) ==
    /\ cl \in CallType(n)
    /\ ph \in {"link", "insert"} => cl.chat \in Chats /\ cl.page \in New(n)
    /\ ph = "link" => m[cl.page].rows = <<>>
    /\ ph = "insert" => HasRoom(m[cl.page]) /\ cl.chat \in DOMAIN t
SnapOK(n, sn) ==
    /\ sn = [aligned |-> sn.aligned, entries |-> sn.entries]
    /\ sn.entries = {} \/ \E idx \in Index(n) : sn.entries = SaveIndex(idx)
Files(n, w, sn, lo) == w \in Seq(Recs(n)) /\ SnapOK(n, sn) /\ lo \subseteq Ids(n)

Space(n) == disk \in Heap(n) /\ IF phase = "closed" THEN NoView ELSE E \in Engine(n)

CountsOK ==
    /\ phase \in Phases /\ closing \in BOOLEAN
    /\ covered \in 0 .. Len(wal) /\ replayed \in 0 .. Len(wal)
    /\ phase # "replay" => replayed = 0
    /\ failed \subseteq Message
    /\ setup \in Setups /\ did \in [Bounded -> Nat]
    /\ \A what \in Bounded : did[what] <= setup[what]

Sized(n) ==
    /\ n \in Nat /\ n >= ROOT_PAGES
    /\ Space(n) /\ CallOK(n, phase, call, mem, tips) /\ Files(n, wal, snap, lost)
Typed == CountsOK /\ \E n \in Nat : Sized(n)

LEMMA FilesGrow ==
    ASSUME NEW n \in Nat, NEW k \in Nat, n <= k, NEW w, NEW sn, NEW lo, Files(n, w, sn, lo)
    PROVE  Files(k, w, sn, lo)
  <1>1. Ids(n) \subseteq Ids(k) /\ New(n) \subseteq New(k)
    BY IdsGrow
  <1>2. Recs(n) \subseteq Recs(k)
    <2>1. LinkRecs(n) \subseteq LinkRecs(k)
      BY <1>1 DEF LinkRecs
    <2>2. InsertRecs(n) \subseteq InsertRecs(k)
      BY <1>1 DEF InsertRecs
    <2> QED BY <2>1, <2>2 DEF Recs
  <1>3. Index(n) \subseteq Index(k)
    BY MapsGrow
  <1>4. w \in Seq(Recs(n)) => w \in Seq(Recs(k))
    BY <1>2
  <1> QED BY <1>1, <1>3, <1>4 DEF Files, SnapOK

LEMMA CallGrows ==
    ASSUME NEW n \in Nat, NEW k \in Nat, n <= k, NEW cl, cl \in CallType(n)
    PROVE  cl \in CallType(k)
  BY IdsGrow DEF CallType

LEMMA NoCallOK ==
    ASSUME NEW n \in Nat, NEW ph, ph \notin {"link", "insert"}, NEW m, NEW t
    PROVE  CallOK(n, ph, NoCall, m, t)
  <1>1. NoMessage \in Message
    BY DEF NoMessage, Message
  <1>2. 0 \in Ids(n) /\ 0 \in Owners
    BY DEF Ids, Owners
  <1>3. NoCall \in CallType(n)
    BY <1>1, <1>2 DEF NoCall, CallType
  <1> QED BY <1>3 DEF CallOK

\* Without an append under way, only the call's type matters.
LEMMA IdleCallOK ==
    ASSUME NEW n \in Nat, NEW k \in Nat, n <= k, NEW p, NEW ph, ph \notin {"link", "insert"},
           NEW cl, NEW m, NEW t, NEW m1, NEW t1, CallOK(n, p, cl, m, t)
    PROVE  CallOK(k, ph, cl, m1, t1)
  <1>1. cl \in CallType(k)
    BY CallGrows DEF CallOK
  <1> QED BY <1>1 DEF CallOK

LEMMA LogGrows ==
    ASSUME NEW n \in Nat, NEW w, NEW sn, NEW lo, Files(n, w, sn, lo), NEW r \in Recs(n)
    PROVE  /\ Files(n, Append(w, r), sn, lo) /\ Len(Append(w, r)) = Len(w) + 1 /\ Len(w) \in Nat
  BY DEF Files

LEMMA RecFacts ==
    ASSUME NEW n \in Nat, NEW c \in Chats, NEW id \in New(n)
    PROVE  /\ \A prev \in Ids(n) : Link(c, id, prev) \in Recs(n)
           /\ \A m \in Message : InsertRec(c, id, m) \in Recs(n)
           /\ \A keep \in Nat : Trim(c, keep) \in Recs(n)
  BY DEF Link, InsertRec, Trim, Recs, LinkRecs, InsertRecs, TrimRecs

LEMMA SnapLoads ==
    ASSUME NEW n \in Nat, NEW idx \in Index(n)
    PROVE  LoadIndex(SaveIndex(idx)) \in Index(n)
  BY SnapshotRestores DEF Index

LEMMA EmptyEngine ==
    /\ EmptyHeap \in Heap(ROOT_PAGES) /\ ROOT_PAGES \in Nat /\ ROOT_PAGES >= ROOT_PAGES
  <1>1. ROOT_PAGES \in Nat /\ ROOT_PAGES >= ROOT_PAGES
    BY DEF ROOT_PAGES
  <1>2. Ids(ROOT_PAGES) = {0} /\ New(ROOT_PAGES) = {}
    BY DEF Ids, New, ROOT_PAGES
  <1>3. EmptyHeap = [p \in {0} |-> Alloc("super")]
    BY DEF EmptyHeap, Super
  <1>4. Alloc("super") \in PageSet(ROOT_PAGES) /\ Alloc("super").at32 = 0
    BY <1>1, AllocTyped DEF Alloc
  <1> HIDE DEF ROOT_PAGES
  <1> QED BY <1>1, <1>2, <1>3, <1>4 DEF Heap

LEMMA SetupFacts ==
    ASSUME NEW s \in Setups
    PROVE  /\ s.keeps \subseteq Nat /\ s.ids \subseteq Nat
           /\ \A what \in Bounded : s[what] \in Nat
  <1>1. s \in SetupType
    BY ChatEngineAssumption
  <1> QED BY <1>1 DEF SetupType, Bounded

LEMMA BecomesIs ==
    ASSUME NEW n \in Nat, NEW e \in Engine(n), Becomes(e)
    PROVE  /\ E' = e /\ E' \in Engine(n) /\ disk' \in Heap(n)
           /\ mem' = e.s.mem /\ disk' = e.s.disk /\ tips' = e.tips /\ index' = e.index /\ ring' = e.ring
  BY EngineParts DEF Becomes, E

LEMMA EngineNow ==
    ASSUME NEW n \in Nat, E \in Engine(n)
    PROVE  /\ [mem |-> mem, disk |-> disk] \in Store(n)
           /\ mem \in Heap(n) /\ disk \in Heap(n)
           /\ tips \in Tips(n) /\ index \in Index(n) /\ ring \in Rings
           /\ E.s = [mem |-> mem, disk |-> disk] /\ E.tips = tips /\ E.index = index /\ E.ring = ring
  BY DEF E, Engine, Store

\* The counters
LEMMA DoesOK ==
    ASSUME CountsOK, NEW what \in Bounded, Does(what)
    PROVE  did' \in [Bounded -> Nat] /\ \A w \in Bounded : did'[w] <= setup[w]
  <1>1. setup[what] \in Nat
    BY SetupFacts DEF CountsOK
  <1> QED BY <1>1 DEF CountsOK, Does, May

LEMMA EngineNext ==
    ASSUME NEW n \in Nat, mem' \in Heap(n), disk' \in Heap(n), tips' \in Tips(n),
           index' \in Index(n), ring' \in Rings
    PROVE  E' \in Engine(n)
  BY DEF E, Engine, Store

LEMMA NextTyped ==
    ASSUME NEW k \in Nat, k >= ROOT_PAGES, CountsOK',
           disk' \in Heap(k), phase' # "closed", E' \in Engine(k),
           CallOK(k, phase', call', mem', tips'), Files(k, wal', snap', lost')
    PROVE  Typed'
  BY DEF Typed, Sized, Space

LEMMA NoRings == <<>> \in Rings
  BY EmptyPartial DEF Rings

LEMMA WarmTyped ==
    ASSUME NEW n \in Nat, n >= ROOT_PAGES, NEW e \in Engine(n)
    PROVE  /\ WarmRings(e) \in Rings
           /\ \A c \in DOMAIN e.tips : RefilledRing(e, c) \in Rings
  <1> DEFINE R == {rr \in Seq(Message) : Len(rr) <= RingMax}
             row(c) == LastOf(ReadChain(e.s.mem, e.tips[c].head), RingMax)
             rings == WarmRings(e)
  <1>1. e.s.mem \in Heap(n) /\ e.tips \in Tips(n) /\ e.ring \in Rings
    BY EngineParts
  <1>2. \A c \in DOMAIN e.tips : c \in Owners /\ e.tips[c].head \in New(n)
    BY <1>1, TipFacts
  <1>3. ASSUME NEW c \in DOMAIN e.tips
        PROVE  row(c) \in R
    <2>1. ReadChain(e.s.mem, e.tips[c].head) \in Seq(Message)
      BY <1>1, <1>2, ReadTyped
    <2> QED BY <2>1, CapFacts, LastOfTyped
  <1>4. rings = [c \in DOMAIN e.tips |-> row(c)]
    BY DEF WarmRings
  <1>5. \A c \in DOMAIN e.tips : RefilledRing(e, c) = Put(e.ring, c, row(c))
    BY DEF RefilledRing
  <1> HIDE DEF row, rings
  <1>6. rings \in Rings
    <2> HIDE DEF R
    <2>1. DOMAIN rings = DOMAIN e.tips /\ \A c \in DOMAIN rings : rings[c] \in R
      BY <1>3, <1>4
    <2>2. rings = [c \in DOMAIN rings |-> rings[c]]
      BY <1>4
    <2>3. rings \in Partial(Owners, R)
      BY <1>2, <2>1, <2>2, IsPartial
    <2> QED BY <2>3 DEF R, Rings
  <1>7. ASSUME NEW c \in DOMAIN e.tips
        PROVE  RefilledRing(e, c) \in Rings
    BY <1>1, <1>2, <1>3, <1>5, PutRing
  <1> QED BY <1>6, <1>7 DEF rings

LEMMA ApplyTyped ==
    ASSUME NEW n \in Nat, n >= ROOT_PAGES, NEW e \in Engine(n), NEW r \in Recs(n)
    PROVE  \E k \in Nat : n <= k /\ Apply(e, r) \in Engine(k)
  <1>1. n <= n /\ Chats \subseteq Owners
    BY DEF Owners
  <1>2. CASE r \in LinkRecs(n)
    <2>1. Apply(e, r) = ApplyLink(e, r.chat, r.page, r.prev)
      BY <1>2 DEF Apply, LinkRecs
    <2>2. r.chat \in Owners /\ r.page \in New(n) /\ r.prev \in Ids(n)
      BY <1>1, <1>2 DEF LinkRecs
    <2>3. ApplyLink(e, r.chat, r.page, r.prev) \in Engine(n)
      BY <2>2, LinkFacts
    <2> QED BY <1>1, <2>1, <2>3
  <1>3. CASE r \in InsertRecs(n)
    <2>1. Apply(e, r) = ApplyInsert(e, r.page, r.chat, r.msg)
      BY <1>3 DEF Apply, InsertRecs
    <2>2. r.chat \in Owners /\ r.page \in New(n) /\ r.msg \in Message
      BY <1>1, <1>3 DEF InsertRecs
    <2>3. ApplyInsert(e, r.page, r.chat, r.msg) \in Engine(n)
      BY <2>2, InsertFacts DEF Settled
    <2> QED BY <1>1, <2>1, <2>3
  <1>4. CASE r \in TrimRecs
    <2>1. Apply(e, r) = TrimChat(e, r.chat, r.keep)
      BY <1>4 DEF Apply, TrimRecs
    <2>2. r.chat \in Owners /\ r.keep \in Nat
      BY <1>1, <1>4 DEF TrimRecs
    <2> QED BY <2>1, <2>2, TrimTyped
  <1> QED BY <1>2, <1>3, <1>4 DEF Recs

LEMMA TipMoves ==
    ASSUME NEW n \in Nat, NEW t \in Tips(n), NEW c \in DOMAIN t, NEW id \in New(n)
    PROVE  LET u == [t EXCEPT ![c] = Tip(t[c].head, id, t[c].count + 1)]
           IN  u \in Tips(n) /\ DOMAIN u = DOMAIN t
  <1> DEFINE head == t[c].head
             count == t[c].count + 1
             u == [t EXCEPT ![c] = Tip(head, id, count)]
  <1>1. c \in Owners /\ head \in New(n) /\ count \in Nat
    <2>1. t[c].head \in New(n) /\ t[c].count \in Nat /\ c \in Owners
      BY TipFacts
    <2> QED BY <2>1
  <1>2. t = [x \in DOMAIN t |-> t[x]]
    BY PartialFacts DEF Tips
  <1> HIDE DEF head, count
  <1>3. u = [x \in DOMAIN t |-> IF x = c THEN Tip(head, id, count) ELSE t[x]]
    BY <1>2
  <1>4. DOMAIN t \cup {c} = DOMAIN t
    OBVIOUS
  <1>5. u = Put(t, c, Tip(head, id, count))
    <2> HIDE DEF u
    <2> QED BY <1>3, <1>4 DEF Put
  <1>6. \A x \in New(n), y \in New(n), z \in Nat : Put(t, c, Tip(x, y, z)) \in Tips(n)
    BY <1>1, PutTip
  <1>7. DOMAIN u = DOMAIN t
    OBVIOUS
  <1> HIDE DEF u
  <1>8. u \in Tips(n)
    BY <1>1, <1>5, <1>6
  <1> QED BY <1>7, <1>8 DEF u, head, count

-----------------------------------------------------------------------------
(* One lemma per action. *)

LEMMA OpenTyped == ASSUME Typed, Open PROVE Typed'
  <1>1. PICK n : Sized(n)
    BY DEF Typed
  <1>2. n \in Nat /\ n >= ROOT_PAGES /\ disk \in Heap(n) /\ Files(n, wal, snap, lost)
    BY <1>1 DEF Sized, Space
  <1>3. ring = <<>>
    BY <1>1 DEF Sized, Space, Open, NoView
  <1>4. index' \in Index(n)
    <2>1. CASE snap.aligned /\ snap.entries # {}
      <3>1. PICK idx \in Index(n) : snap.entries = SaveIndex(idx)
        BY <1>2, <2>1 DEF Files, SnapOK
      <3>2. index' = LoadIndex(SaveIndex(idx))
        BY <2>1, <3>1 DEF Open
      <3> QED BY <1>2, <3>2, SnapLoads
    <2>2. CASE ~(snap.aligned /\ snap.entries # {})
      <3>1. index' = IndexFromHeap(disk)
        BY <2>2 DEF Open
      <3>2. IndexFromHeap(disk) \in Index(n)
        BY <1>2, IndexFromHeapTyped
      <3> QED BY <3>1, <3>2
    <2> QED BY <2>1, <2>2
  <1>5. mem' \in Heap(n) /\ disk' \in Heap(n) /\ tips' \in Tips(n) /\ ring' \in Rings
    BY <1>2, <1>3, RelinkTyped, TipsOfTyped, NoRings DEF Open, dirVars
  <1>6. CountsOK' /\ phase' = "replay"
    BY DEF Typed, CountsOK, Open, dirVars, pastVars, failVars, Phases
  <1>7. CallOK(n, phase', call', mem', tips') /\ Files(n, wal', snap', lost')
    <2>1. call' = call /\ wal' = wal /\ snap' = snap /\ lost' = lost
      BY DEF Open, dirVars, pastVars, failVars
    <2>2. CallOK(n, phase, call, mem, tips) /\ n <= n
      BY <1>1, <1>2 DEF Sized
    <2>3. CallOK(n, "replay", call, mem', tips')
      BY <1>2, <2>2, IdleCallOK
    <2> QED BY <1>2, <1>6, <2>1, <2>3
  <1>8. E' \in Engine(n)
    BY <1>2, <1>4, <1>5, EngineNext
  <1> QED BY <1>2, <1>5, <1>6, <1>7, <1>8, NextTyped

\* What is known of an engine that is not closed
LEMMA Running ==
    ASSUME Typed, phase # "closed"
    PROVE  \E n \in Nat :
              /\ n >= ROOT_PAGES /\ E \in Engine(n) /\ CallOK(n, phase, call, mem, tips)
              /\ Files(n, wal, snap, lost)
  BY DEF Typed, Sized, Space

LEMMA ReplayTyped == ASSUME Typed, Replay PROVE Typed'
  <1>1. PICK n \in Nat : /\ n >= ROOT_PAGES /\ E \in Engine(n)
                         /\ CallOK(n, phase, call, mem, tips) /\ Files(n, wal, snap, lost)
    BY Running DEF Replay
  <1> DEFINE e == IF replayed < covered THEN E ELSE Apply(E, wal[replayed + 1])
  <1>2. \E k \in Nat : n <= k /\ e \in Engine(k)
    <2>1. CASE replayed < covered
      BY <1>1, <2>1
    <2>2. CASE ~(replayed < covered)
      <3>1. wal \in Seq(Recs(n)) /\ replayed + 1 \in 1 .. Len(wal)
        BY <1>1 DEF Files, Replay, Typed, CountsOK
      <3>2. wal[replayed + 1] \in Recs(n)
        BY <3>1
      <3>3. \E k \in Nat : n <= k /\ Apply(E, wal[replayed + 1]) \in Engine(k)
        BY <1>1, <3>2, ApplyTyped
      <3> QED BY <2>2, <3>3
    <2> QED BY <2>1, <2>2
  <1>3. PICK k \in Nat : n <= k /\ e \in Engine(k)
    BY <1>2
  <1>4. Becomes(e) /\ phase = "replay" /\ phase' = phase
    BY DEF Replay
  <1> HIDE DEF e
  <1>5. k >= ROOT_PAGES
    BY <1>1, <1>3 DEF ROOT_PAGES
  <1>6. E' \in Engine(k) /\ disk' \in Heap(k)
    BY <1>3, <1>4, BecomesIs
  <1>7. CountsOK'
    <2>1. Len(wal) \in Nat
      BY <1>1 DEF Files
    <2> QED BY <2>1 DEF Typed, CountsOK, Replay, pastVars, failVars
  <1>8. Files(k, wal', snap', lost')
    <2>1. wal' = wal /\ snap' = snap /\ lost' = lost
      BY DEF Replay, pastVars, failVars
    <2> QED BY <1>1, <1>3, <2>1, FilesGrow
  <1>9. CallOK(k, phase', call', mem', tips')
    <2>1. call' = call
      BY DEF Replay
    <2>2. CallOK(k, phase, call, mem', tips')
      BY <1>1, <1>3, <1>4, IdleCallOK
    <2> QED BY <1>4, <2>1, <2>2
  <1> QED BY <1>4, <1>5, <1>6, <1>7, <1>8, <1>9, NextTyped

LEMMA OpenedTyped == ASSUME Typed, Opened PROVE Typed'
  <1>1. PICK n \in Nat : /\ n >= ROOT_PAGES /\ E \in Engine(n)
                         /\ CallOK(n, phase, call, mem, tips) /\ Files(n, wal, snap, lost)
    BY Running DEF Opened
  <1>2. /\ ring' = WarmRings(E) /\ mem' = mem /\ disk' = disk /\ tips' = tips /\ index' = index
        /\ wal' = wal /\ snap' = snap /\ lost' = lost /\ call' = call /\ phase' = "open"
    BY DEF Opened, dirVars, pastVars, failVars
  <1>3. ring' \in Rings
    BY <1>1, <1>2, WarmTyped
  <1>4. E' \in Engine(n) /\ disk' \in Heap(n)
    BY <1>1, <1>2, <1>3, EngineNow, EngineNext
  <1>5. CountsOK'
    BY DEF Typed, CountsOK, Opened, dirVars, pastVars, failVars, Phases
  <1>6. CallOK(n, phase', call', mem', tips')
    <2>1. n <= n
      OBVIOUS
    <2>2. CallOK(n, "open", call, mem', tips')
      BY <1>1, <2>1, IdleCallOK
    <2> QED BY <1>2, <2>2
  <1> QED BY <1>1, <1>2, <1>4, <1>5, <1>6, NextTyped

LEMMA RecentTyped ==
    ASSUME Typed, NEW c \in Chats, NEW want \in Wants, Recent(c, want) PROVE Typed'
  <1>1. PICK n \in Nat : /\ n >= ROOT_PAGES /\ E \in Engine(n)
                         /\ CallOK(n, phase, call, mem, tips) /\ Files(n, wal, snap, lost)
    BY Running DEF Recent
  <1>2. /\ ring' = RefilledRing(E, c) /\ mem' = mem /\ disk' = disk /\ tips' = tips /\ index' = index
        /\ wal' = wal /\ snap' = snap /\ lost' = lost /\ call' = call /\ phase' = phase
        /\ phase = "open" /\ c \in DOMAIN E.tips
    BY DEF Recent, dirVars, pastVars, failVars, Refills
  <1>3. ring' \in Rings
    BY <1>1, <1>2, WarmTyped
  <1>4. E' \in Engine(n) /\ disk' \in Heap(n)
    BY <1>1, <1>2, <1>3, EngineNow, EngineNext
  <1>5. CountsOK'
    BY DEF Typed, CountsOK, Recent, dirVars, pastVars, failVars, Phases
  <1>6. CallOK(n, phase', call', mem', tips')
    BY <1>1, <1>2
  <1> QED BY <1>1, <1>2, <1>4, <1>5, <1>6, NextTyped

\* EXCEPT-free form of what AppendInsert and AppendFails do to a page
LEMMA FillPage ==
    ASSUME NEW n \in Nat, n >= ROOT_PAGES, NEW heap \in Heap(n), NEW id \in New(n),
           NEW m \in Message, HasRoom(heap[id])
    PROVE  LET page == Insert(heap[id], m)
               g == [heap EXCEPT ![id] = page]
           IN  /\ g \in Heap(n) /\ g[id] = page /\ page.rows = Append(heap[id].rows, m)
               /\ \A p \in Ids(n) : p # id => g[p] = heap[p]
               /\ page.ty = heap[id].ty /\ page.at32 = heap[id].at32
               /\ Len(page.rows) - 1 = Len(heap[id].rows)
               /\ Len(heap[id].rows) \in 0 .. PageCap - 1
  <1> DEFINE old == heap[id]
             page == Insert(old, m)
  <1>1. old \in PageSet(n) /\ old.at32 \in Owners /\ HasRoom(old)
    BY HeapFacts, IdFacts
  <1> HIDE DEF old
  <1>2. /\ page \in PageSet(n) /\ page.rows = Append(old.rows, m) /\ page.at32 = old.at32
        /\ page.ty = old.ty /\ Len(page.rows) = Len(old.rows) + 1
        /\ Len(old.rows) \in 0 .. PageCap - 1
    BY <1>1, InsertTyped
  <1> HIDE DEF page
  <1> DEFINE g == [heap EXCEPT ![id] = page]
  <1>3. g \in Heap(n) /\ g[id] = page /\ \A p \in Ids(n) : p # id => g[p] = heap[p]
    BY <1>1, <1>2, HeapChanges
  <1>4. Len(page.rows) - 1 = Len(old.rows)
    BY <1>2
  <1> HIDE DEF g
  <1> QED BY <1>2, <1>3, <1>4 DEF g, page, old

LEMMA AppendStartTyped ==
    ASSUME Typed, NEW c \in Chats, AppendStart(c) PROVE Typed'
  <1>1. PICK n \in Nat : /\ n >= ROOT_PAGES /\ E \in Engine(n)
                         /\ CallOK(n, phase, call, mem, tips) /\ Files(n, wal, snap, lost)
    BY Running DEF AppendStart
  <1>2. PICK id \in Choose(c), big \in {FALSE} \cup {May("bigs")} :
        LET m == [id |-> id, body |-> did.appends + 1]
            prev == IF c \in DOMAIN tips THEN tips[c].tail ELSE 0
            fits == prev # 0 /\ HasRoom(mem[prev]) /\ ~big
            a == AllocChatPage(E.s, c)
        IN  /\ did' = [did EXCEPT !.appends = @ + 1, !.bigs = @ + IF big THEN 1 ELSE 0]
            /\ IF fits
               THEN
                 /\ phase' = "insert"
                 /\ call' = [chat |-> c, msg |-> m, big |-> big, page |-> prev, prev |-> 0]
                 /\ UNCHANGED <<mem, disk>>
               ELSE
                 /\ phase' = "link"
                 /\ call' = [chat |-> c, msg |-> m, big |-> big, page |-> a.id, prev |-> prev]
                 /\ mem' = a.s.mem /\ disk' = a.s.disk
    BY DEF AppendStart
  <1> DEFINE m == [id |-> id, body |-> did.appends + 1]
             prev == IF c \in DOMAIN tips THEN tips[c].tail ELSE 0
             fits == prev # 0 /\ HasRoom(mem[prev]) /\ ~big
             a == AllocChatPage(E.s, c)
  <1>3. /\ tips' = tips /\ index' = index /\ ring' = ring /\ wal' = wal /\ snap' = snap
        /\ lost' = lost /\ failed' = failed /\ setup' = setup /\ covered' = covered
        /\ replayed' = replayed /\ closing' = closing /\ phase = "open" /\ May("appends")
    BY DEF AppendStart, failVars
  <1>4. did \in [Bounded -> Nat] /\ setup \in Setups
    BY DEF Typed, CountsOK
  <1>5. m \in Message
    <2>1. Choose(c) \subseteq Nat
      BY <1>4, SetupFacts DEF Choose, Bounded
    <2>2. did.appends \in Nat
      BY <1>4 DEF Bounded
    <2> QED BY <2>1, <2>2 DEF Message
  <1>6. big \in BOOLEAN
    <2>1. May("bigs") \in BOOLEAN
      BY DEF May
    <2>2. big = FALSE \/ big = May("bigs")
      BY Zenon
    <2> QED BY <2>1, <2>2, Zenon
  <1>7. /\ mem \in Heap(n) /\ disk \in Heap(n) /\ tips \in Tips(n) /\ index \in Index(n)
        /\ ring \in Rings /\ E.s \in Store(n)
    BY <1>1, EngineNow
  <1>8. c \in Owners
    BY DEF Owners
  <1>9. prev \in Ids(n) /\ (prev # 0 => prev \in New(n) /\ c \in DOMAIN tips)
    <2>1. CASE c \in DOMAIN tips
      BY <1>1, <1>7, <2>1, TipFacts, IdFacts
    <2>2. CASE c \notin DOMAIN tips
      BY <1>1, <2>2, IdFacts
    <2> QED BY <2>1, <2>2
  <1>10. CountsOK'
    <2>1. did' = [did EXCEPT !.appends = @ + 1, !.bigs = @ + IF big THEN 1 ELSE 0]
      BY <1>2
    <2>2. big => May("bigs")
      OBVIOUS
    <2>3. setup["appends"] \in Nat /\ setup["bigs"] \in Nat
      BY <1>4, SetupFacts DEF Bounded
    <2>4. did["appends"] < setup["appends"] /\ (big => did["bigs"] < setup["bigs"])
      BY <1>3, <2>2 DEF May
    <2>5. did' \in [Bounded -> Nat] /\ \A what \in Bounded : did'[what] <= setup[what]
      <3>1. /\ did'["appends"] = did["appends"] + 1
            /\ did'["bigs"] = did["bigs"] + IF big THEN 1 ELSE 0
            /\ \A what \in Bounded \ {"appends", "bigs"} : did'[what] = did[what]
            /\ DOMAIN did' = Bounded /\ did' = [what \in Bounded |-> did'[what]]
        BY <1>4, <2>1 DEF Bounded
      <3>2. \A what \in Bounded : did[what] \in Nat /\ did[what] <= setup[what]
        BY <1>4 DEF Typed, CountsOK
      <3>3. \A what \in Bounded : did'[what] \in Nat /\ did'[what] <= setup[what]
        <4> TAKE what \in Bounded
        <4>1. CASE what = "appends"
          BY <2>3, <2>4, <3>1, <3>2, <4>1
        <4>2. CASE what = "bigs"
          BY <2>3, <2>4, <3>1, <3>2, <4>2
        <4>3. CASE what \notin {"appends", "bigs"}
          BY <3>1, <3>2, <4>3
        <4> QED BY <4>1, <4>2, <4>3
      <3> QED BY <3>1, <3>3
    <2>6. phase' \in {"insert", "link"}
      BY <1>2
    <2>7. CountsOK
      BY DEF Typed
    <2> QED BY <1>3, <2>5, <2>6, <2>7 DEF CountsOK, Phases
  <1>11. CASE fits
    <2>1. /\ phase' = "insert" /\ mem' = mem /\ disk' = disk
          /\ call' = [chat |-> c, msg |-> m, big |-> big, page |-> prev, prev |-> 0]
      BY <1>2, <1>11
    <2>2. prev \in New(n) /\ HasRoom(mem[prev]) /\ c \in DOMAIN tips /\ 0 \in Ids(n)
      BY <1>1, <1>9, <1>11, IdFacts
    <2> HIDE DEF prev, m, fits, a
    <2>3. CallOK(n, phase', call', mem', tips')
      BY <1>3, <1>5, <1>6, <1>8, <1>9, <2>1, <2>2 DEF CallOK, CallType
    <2>4. E' \in Engine(n) /\ disk' \in Heap(n)
      BY <1>3, <1>7, <2>1, EngineNext
    <2> QED BY <1>1, <1>3, <1>10, <2>1, <2>3, <2>4, NextTyped
  <1>12. CASE ~fits
    <2>1. /\ phase' = "link" /\ mem' = a.s.mem /\ disk' = a.s.disk
          /\ call' = [chat |-> c, msg |-> m, big |-> big, page |-> a.id, prev |-> prev]
      BY <1>2, <1>12
    <2>2. PICK k \in {n, n + 1} : a.id \in New(k) /\ a.s \in Store(k) /\ a.s.mem[a.id] = ChatPage(c)
      BY <1>1, <1>7, <1>8, AllocFacts
    <2> HIDE DEF prev, m, fits, a
    <2>3. k \in Nat /\ n <= k /\ k >= ROOT_PAGES
      BY <1>1 DEF ROOT_PAGES
    <2>4. mem' \in Heap(k) /\ disk' \in Heap(k)
      BY <2>1, <2>2 DEF Store
    <2>5. tips' \in Tips(k) /\ index' \in Index(k) /\ ring' \in Rings
      BY <1>3, <1>7, <2>3, MapsGrow
    <2>6. E' \in Engine(k)
      BY <2>3, <2>4, <2>5, EngineNext
    <2>7. mem'[a.id].rows = <<>>
      BY <1>8, <2>1, <2>2, <2>3, ChatPageTyped
    <2>8. prev \in Ids(k) /\ a.id \in Ids(k)
      BY <1>1, <1>9, <2>2, <2>3, IdsGrow, IdFacts
    <2>9. CallOK(k, phase', call', mem', tips')
      BY <1>5, <1>6, <1>8, <2>1, <2>2, <2>7, <2>8 DEF CallOK, CallType
    <2>10. Files(k, wal', snap', lost')
      BY <1>1, <1>3, <2>3, FilesGrow
    <2> QED BY <1>10, <2>1, <2>3, <2>4, <2>6, <2>9, <2>10, NextTyped
  <1> QED BY <1>11, <1>12

LEMMA AppendLinkTyped == ASSUME Typed, AppendLink PROVE Typed'
  <1>1. PICK n \in Nat : /\ n >= ROOT_PAGES /\ E \in Engine(n)
                         /\ CallOK(n, phase, call, mem, tips) /\ Files(n, wal, snap, lost)
    BY Running DEF AppendLink
  <1> DEFINE c == call.chat
             id == call.page
             prev == call.prev
             e == ApplyLink(E, c, id, prev)
  <1>2. c \in Chats /\ c \in Owners /\ id \in New(n) /\ prev \in Ids(n) /\ mem[id].rows = <<>>
    BY <1>1 DEF CallOK, CallType, AppendLink, Owners
  <1>3. /\ phase' = "insert" /\ call' = call /\ snap' = snap /\ lost' = lost
        /\ wal' = Append(wal, Link(c, id, prev)) /\ Becomes(e)
    BY DEF AppendLink, pastVars, failVars
  <1>4. CountsOK'
    <2>1. Len(wal') = Len(wal) + 1 /\ Len(wal) \in Nat
      BY <1>1, <1>3 DEF Files
    <2> HIDE DEF c, id, prev, e
    <2> QED BY <1>3, <2>1 DEF Typed, CountsOK, AppendLink, pastVars, failVars, Phases
  <1> HIDE DEF c, id, prev, e
  <1>5. e \in Engine(n)
    BY <1>1, <1>2, LinkFacts DEF e
  <1>6. e.s.mem[id].rows = <<>> /\ c \in DOMAIN e.tips
    <2>1. id \in Ids(n)
      BY <1>1, <1>2, IdFacts
    <2>2. e.s.mem[id].rows = E.s.mem[id].rows /\ DOMAIN e.tips = DOMAIN E.tips \cup {c}
      BY <1>1, <1>2, <2>1, LinkFacts DEF e
    <2>3. E.s.mem = mem
      BY <1>1, EngineNow
    <2> QED BY <1>2, <2>2, <2>3
  <1>7. /\ E' \in Engine(n) /\ disk' \in Heap(n) /\ mem' = e.s.mem /\ tips' = e.tips
    BY <1>3, <1>5, BecomesIs
  <1>8. HasRoom(mem'[id])
    BY <1>6, <1>7, CapFacts DEF HasRoom
  <1>9. CallOK(n, phase', call', mem', tips')
    BY <1>1, <1>2, <1>3, <1>6, <1>7, <1>8 DEF CallOK, c, id, prev
  <1>10. Files(n, wal', snap', lost')
    BY <1>1, <1>2, <1>3, RecFacts, LogGrows
  <1> QED BY <1>1, <1>3, <1>4, <1>7, <1>9, <1>10, NextTyped

LEMMA AppendTooLargeTyped == ASSUME Typed, AppendTooLarge PROVE Typed'
  <1>1. PICK n \in Nat : /\ n >= ROOT_PAGES /\ E \in Engine(n)
                         /\ CallOK(n, phase, call, mem, tips) /\ Files(n, wal, snap, lost)
    BY Running DEF AppendTooLarge
  <1> DEFINE c == call.chat
             id == call.page
             prev == call.prev
             linked == ApplyLink(E, c, id, prev)
             a == AllocChatPage(linked.s, c)
  <1>2. c \in Chats /\ c \in Owners /\ id \in New(n) /\ prev \in Ids(n) /\ mem[id].rows = <<>>
        /\ call.msg \in Message /\ call.big \in BOOLEAN
    BY <1>1 DEF CallOK, CallType, AppendTooLarge, Owners
  <1>3. /\ phase = "link" /\ snap' = snap /\ lost' = lost /\ wal' = Append(wal, Link(c, id, prev))
        /\ covered' = covered /\ replayed' = replayed /\ closing' = closing /\ failed' = failed
        /\ setup' = setup /\ did' = did
        /\ IF prev = 0
           THEN /\ Becomes([linked EXCEPT !.s = a.s])
                /\ call' = [call EXCEPT !.page = a.id, !.prev = id]
                /\ phase' = phase
           ELSE Becomes(linked) /\ call' = NoCall /\ phase' = "open"
    BY DEF AppendTooLarge, pastVars, failVars
  <1>4. linked \in Engine(n)
    BY <1>1, <1>2, LinkFacts
  <1>5. Files(n, wal', snap', lost') /\ Len(wal') = Len(wal) + 1 /\ Len(wal) \in Nat
    BY <1>1, <1>2, <1>3, RecFacts, LogGrows
  <1> HIDE DEF c, id, prev, linked, a
  <1>6. CountsOK'
    <2>1. phase' \in {"link", "open"}
      BY <1>3
    <2> QED BY <1>3, <1>5, <2>1 DEF Typed, CountsOK, Phases
  <1>7. CASE prev # 0
    <2>1. E' \in Engine(n) /\ disk' \in Heap(n)
      BY <1>3, <1>4, <1>7, BecomesIs
    <2>2. CallOK(n, phase', call', mem', tips')
      BY <1>3, <1>7, NoCallOK
    <2> QED BY <1>1, <1>3, <1>5, <1>6, <1>7, <2>1, <2>2, NextTyped
  <1>8. CASE prev = 0
    <2> DEFINE e == [linked EXCEPT !.s = a.s]
    <2>1. Becomes(e) /\ call' = [call EXCEPT !.page = a.id, !.prev = id] /\ phase' = "link"
      BY <1>3, <1>8
    <2>2. /\ linked.s \in Store(n) /\ linked.tips \in Tips(n) /\ linked.index \in Index(n)
          /\ linked.ring \in Rings
          /\ linked = [s |-> linked.s, tips |-> linked.tips, index |-> linked.index,
                       ring |-> linked.ring]
      BY <1>4, EngineParts
    <2>3. PICK k \in {n, n + 1} : a.id \in New(k) /\ a.s \in Store(k) /\ a.s.mem[a.id] = ChatPage(c)
      BY <1>1, <1>2, <2>2, AllocFacts DEF a
    <2>4. k \in Nat /\ n <= k /\ k >= ROOT_PAGES
      BY <1>1 DEF ROOT_PAGES
    <2>5. e = [s |-> a.s, tips |-> linked.tips, index |-> linked.index, ring |-> linked.ring]
      BY <2>2
    <2> HIDE DEF e
    <2>6. e \in Engine(k) /\ e.s = a.s
      BY <2>2, <2>3, <2>4, <2>5, MapsGrow DEF Engine
    <2>7. E' \in Engine(k) /\ disk' \in Heap(k) /\ mem' = a.s.mem
      BY <2>1, <2>4, <2>6, BecomesIs
    <2>8. mem'[a.id].rows = <<>>
      BY <1>2, <2>3, <2>4, <2>7, ChatPageTyped
    <2> DEFINE msg == call.msg
               big == call.big
               new == a.id
    <2>9. call' = [chat |-> c, msg |-> msg, big |-> big, page |-> new, prev |-> id]
      <3>1. call = [chat |-> c, msg |-> msg, big |-> big, page |-> id, prev |-> prev]
        BY <1>1 DEF CallOK, CallType, c, id, prev
      <3>2. call' = [call EXCEPT !.page = new, !.prev = id]
        BY <2>1
      <3> HIDE DEF msg, big, new
      <3> QED BY ONLY <3>1, <3>2
    <2>10. id \in Ids(k) /\ new \in Ids(k) /\ new \in New(k)
      <3>1. id \in New(k)
        BY <1>2, <2>4, IdsGrow
      <3> QED BY <2>3, <2>4, <3>1, IdFacts
    <2>11. CallOK(k, phase', call', mem', tips')
      <3>1. mem'[new].rows = <<>> /\ msg \in Message /\ big \in BOOLEAN
        BY <1>2, <2>8
      <3> HIDE DEF msg, big, new
      <3>2. call' \in CallType(k)
        BY <1>2, <2>9, <2>10, <3>1 DEF CallType
      <3>3. call'.chat = c /\ call'.page = new
        BY <2>9
      <3>4. phase' = "link"
        BY <2>1
      <3> QED BY <1>2, <2>10, <3>1, <3>2, <3>3, <3>4 DEF CallOK
    <2>12. Files(k, wal', snap', lost')
      BY <1>5, <2>4, FilesGrow
    <2> QED BY <1>6, <2>1, <2>4, <2>7, <2>11, <2>12, NextTyped
  <1> QED BY <1>7, <1>8

LEMMA AppendInsertTyped == ASSUME Typed, AppendInsert PROVE Typed'
  <1>1. PICK n \in Nat : /\ n >= ROOT_PAGES /\ E \in Engine(n)
                         /\ CallOK(n, phase, call, mem, tips) /\ Files(n, wal, snap, lost)
    BY Running DEF AppendInsert
  <1> DEFINE c == call.chat
             id == call.page
             m == call.msg
             page == Insert(mem[id], m)
             old == IF c \in DOMAIN ring THEN ring[c] ELSE <<>>
  <1>2. /\ c \in Chats /\ c \in Owners /\ id \in New(n) /\ m \in Message
        /\ HasRoom(mem[id]) /\ c \in DOMAIN tips
    BY <1>1 DEF CallOK, CallType, AppendInsert, Owners
  <1>3. /\ phase' = "open" /\ call' = NoCall /\ mem' = [mem EXCEPT ![id] = page]
        /\ wal' = Append(wal, InsertRec(c, id, m))
        /\ tips' = [tips EXCEPT ![c] = Tip(tips[c].head, id, tips[c].count + 1)]
        /\ index' = SetLoc(index, c, m.id, id, Len(page.rows) - 1)
        /\ ring' = Put(ring, c, PushRing(old, m))
        /\ disk' = disk /\ covered' = covered /\ snap' = snap /\ replayed' = replayed
        /\ closing' = closing /\ failed' = failed /\ lost' = lost /\ setup' = setup /\ did' = did
    BY DEF AppendInsert, failVars
  <1>4. /\ mem \in Heap(n) /\ disk \in Heap(n) /\ tips \in Tips(n) /\ index \in Index(n)
        /\ ring \in Rings
    BY <1>1, EngineNow
  <1>5. old \in Seq(Message)
    <2>1. CASE c \in DOMAIN ring
      <3> DEFINE R == {rr \in Seq(Message) : Len(rr) <= RingMax}
      <3>1. ring \in Partial(Owners, R)
        BY <1>4 DEF Rings
      <3> HIDE DEF R
      <3>2. ring[c] \in R
        BY <2>1, <3>1 DEF Partial
      <3> QED BY <2>1, <3>2 DEF R
    <2>2. CASE c \notin DOMAIN ring
      BY <2>2
    <2> QED BY <2>1, <2>2
  <1> HIDE DEF c, id, m, old
  <1>6. ring' \in Rings
    <2>1. PushRing(old, m) \in Seq(Message) /\ Len(PushRing(old, m)) <= RingMax
      BY <1>2, <1>5, PushTyped
    <2> QED BY <1>2, <1>3, <1>4, <2>1, PutRing
  <1>7. /\ [mem EXCEPT ![id] = page] \in Heap(n)
        /\ Len(page.rows) - 1 \in 0 .. PageCap - 1
    BY <1>1, <1>2, <1>4, FillPage
  <1> HIDE DEF page
  <1>8. tips' \in Tips(n)
    BY <1>2, <1>3, <1>4, TipMoves
  <1>9. index' \in Index(n)
    <2>1. m.id \in Nat
      BY <1>2 DEF Message
    <2> QED BY <1>2, <1>3, <1>4, <1>7, <2>1, SetLocTyped
  <1>10. E' \in Engine(n) /\ disk' \in Heap(n)
    BY <1>3, <1>4, <1>6, <1>7, <1>8, <1>9, EngineNext
  <1>11. Files(n, wal', snap', lost') /\ Len(wal') = Len(wal) + 1 /\ Len(wal) \in Nat
    BY <1>1, <1>2, <1>3, RecFacts, LogGrows
  <1>12. CountsOK'
    BY <1>3, <1>11 DEF Typed, CountsOK, Phases, AppendInsert
  <1>13. CallOK(n, phase', call', mem', tips')
    BY <1>3, NoCallOK
  <1> QED BY <1>1, <1>3, <1>10, <1>11, <1>12, <1>13, NextTyped

LEMMA AppendFailsTyped == ASSUME Typed, AppendFails PROVE Typed'
  <1>1. PICK n \in Nat : /\ n >= ROOT_PAGES /\ E \in Engine(n)
                         /\ CallOK(n, phase, call, mem, tips) /\ Files(n, wal, snap, lost)
    BY Running DEF AppendFails
  <1> DEFINE c == call.chat
             id == call.page
             m == call.msg
             record == IF phase = "link" THEN Link(c, id, call.prev) ELSE InsertRec(c, id, m)
  <1>2. /\ c \in Chats /\ id \in New(n) /\ m \in Message /\ call.prev \in Ids(n)
        /\ (phase = "insert" => HasRoom(mem[id]))
    BY <1>1 DEF CallOK, CallType, AppendFails
  <1>3. /\ phase' = "open" /\ call' = NoCall /\ wal' \in {wal, Append(wal, record)}
        /\ IF phase = "link"
           THEN lost' = lost \cup {id} /\ mem' = mem /\ failed' = failed
           ELSE /\ mem' = [mem EXCEPT ![id] = Insert(mem[id], m)]
                /\ failed' = failed \cup {m}
                /\ lost' = lost
        /\ disk' = disk /\ covered' = covered /\ snap' = snap /\ replayed' = replayed
        /\ closing' = closing /\ tips' = tips /\ index' = index /\ ring' = ring
        /\ setup' = setup /\ Does("fails") /\ phase \in {"link", "insert"}
    BY DEF AppendFails
  <1>4. /\ mem \in Heap(n) /\ disk \in Heap(n) /\ tips \in Tips(n) /\ index \in Index(n)
        /\ ring \in Rings
    BY <1>1, EngineNow
  <1>5. record \in Recs(n)
    BY <1>2, RecFacts
  <1> HIDE DEF record, c, id, m
  <1>6. /\ wal' \in Seq(Recs(n)) /\ Len(wal') \in Nat /\ Len(wal) <= Len(wal') /\ Len(wal) \in Nat
        /\ SnapOK(n, snap) /\ lost \subseteq Ids(n)
    BY <1>1, <1>3, <1>5 DEF Files
  <1>7. mem' \in Heap(n)
    <2>1. CASE phase = "link"
      BY <1>3, <1>4, <2>1
    <2>2. CASE phase = "insert"
      BY <1>1, <1>2, <1>3, <1>4, <2>2, FillPage
    <2> QED BY <1>3, <2>1, <2>2
  <1>8. lost' \subseteq Ids(n)
    BY <1>1, <1>2, <1>3, <1>6, IdFacts
  <1>9. E' \in Engine(n) /\ disk' \in Heap(n)
    BY <1>3, <1>4, <1>7, EngineNext
  <1>10. Files(n, wal', snap', lost')
    BY <1>3, <1>6, <1>8 DEF Files
  <1>11. CountsOK'
    <2>1. did' \in [Bounded -> Nat] /\ \A w \in Bounded : did'[w] <= setup[w]
      BY <1>3, DoesOK DEF Typed, Bounded
    <2>2. failed' \subseteq Message
      BY <1>2, <1>3 DEF Typed, CountsOK
    <2>3. CountsOK
      BY DEF Typed
    <2>4. covered' \in 0 .. Len(wal') /\ replayed' \in 0 .. Len(wal') /\ replayed' = 0
      BY <1>3, <1>6, <2>3 DEF CountsOK
    <2> QED BY <1>3, <2>1, <2>2, <2>3, <2>4 DEF CountsOK, Phases
  <1>12. CallOK(n, phase', call', mem', tips')
    BY <1>3, NoCallOK
  <1> QED BY <1>1, <1>3, <1>9, <1>10, <1>11, <1>12, NextTyped

LEMMA TrimStepTyped ==
    ASSUME Typed, NEW c \in Chats, NEW keep, TrimKeepLast(c, keep) PROVE Typed'
  <1>1. PICK n \in Nat : /\ n >= ROOT_PAGES /\ E \in Engine(n)
                         /\ CallOK(n, phase, call, mem, tips) /\ Files(n, wal, snap, lost)
    BY Running DEF TrimKeepLast
  <1>2. /\ phase = "open" /\ phase' = phase /\ wal' = Append(wal, Trim(c, keep)) /\ call' = call
        /\ snap' = snap /\ lost' = lost /\ covered' = covered /\ replayed' = replayed
        /\ closing' = closing /\ failed' = failed /\ setup' = setup /\ Does("trims")
        /\ Becomes(TrimChat(E, c, keep)) /\ keep \in setup.keeps
    BY DEF TrimKeepLast, failVars
  <1>3. keep \in Nat /\ c \in Owners
    BY <1>2, SetupFacts DEF Typed, CountsOK, Owners
  <1> DEFINE e == TrimChat(E, c, keep)
  <1>4. PICK k \in Nat : n <= k /\ e \in Engine(k)
    BY <1>1, <1>3, TrimTyped
  <1>5. Becomes(e)
    BY <1>2
  <1> HIDE DEF e
  <1>6. E' \in Engine(k) /\ disk' \in Heap(k) /\ k >= ROOT_PAGES
    BY <1>1, <1>4, <1>5, BecomesIs DEF ROOT_PAGES
  <1>7. Files(n, wal', snap', lost') /\ Len(wal') = Len(wal) + 1 /\ Len(wal) \in Nat
    <2>1. Trim(c, keep) \in Recs(n)
      BY <1>3 DEF Recs, TrimRecs, Trim
    <2> QED BY <1>1, <1>2, <2>1, LogGrows
  <1>8. Files(k, wal', snap', lost')
    BY <1>4, <1>7, FilesGrow
  <1>9. CountsOK'
    <2>1. did' \in [Bounded -> Nat] /\ \A w \in Bounded : did'[w] <= setup[w]
      BY <1>2, DoesOK DEF Typed, Bounded
    <2> QED BY <1>2, <1>7, <2>1 DEF Typed, CountsOK
  <1>10. CallOK(k, phase', call', mem', tips')
    <2>1. CallOK(k, "open", call, mem', tips')
      BY <1>1, <1>2, <1>4, IdleCallOK
    <2> QED BY <1>2, <2>1
  <1> QED BY <1>2, <1>6, <1>8, <1>9, <1>10, NextTyped

LEMMA EvictTyped == ASSUME Typed, NEW id \in DOMAIN mem, Evict(id) PROVE Typed'
  <1>1. PICK n \in Nat : /\ n >= ROOT_PAGES /\ E \in Engine(n)
                         /\ CallOK(n, phase, call, mem, tips) /\ Files(n, wal, snap, lost)
    BY Running DEF Evict
  <1>2. /\ phase' = phase /\ call' = call /\ wal' = wal /\ snap' = snap /\ lost' = lost
        /\ mem' = mem /\ tips' = tips /\ index' = index /\ ring' = ring
        /\ covered' = covered /\ replayed' = replayed /\ closing' = closing
        /\ failed' = failed /\ setup' = setup /\ Does("evicts")
        /\ disk' = [disk EXCEPT ![id] = mem[id]] /\ phase # "closed"
    BY DEF Evict, viewVars, failVars
  <1>3. /\ mem \in Heap(n) /\ disk \in Heap(n) /\ tips \in Tips(n) /\ index \in Index(n)
        /\ ring \in Rings
    BY <1>1, EngineNow
  <1>4. disk' \in Heap(n)
    <2>1. /\ id \in Ids(n) /\ disk \in [Ids(n) -> PageSet(n)] /\ mem \in [Ids(n) -> PageSet(n)]
          /\ \A p \in New(n) : disk[p].at32 \in Owners /\ mem[p].at32 \in Owners
          /\ disk[0].at32 \in Ids(n) /\ mem[0].at32 \in Ids(n)
      BY <1>1, <1>3, HeapFacts
    <2>2. disk' \in [Ids(n) -> PageSet(n)]
      BY <1>2, <2>1
    <2>3. \A p \in Ids(n) : disk'[p] = IF p = id THEN mem[p] ELSE disk[p]
      BY <1>2, <2>1
    <2>4. 0 \in Ids(n) /\ New(n) \subseteq Ids(n)
      BY <1>1, IdFacts
    <2> QED BY <1>1, <2>1, <2>2, <2>3, <2>4, IsHeap
  <1>5. E' \in Engine(n)
    BY <1>2, <1>3, <1>4, EngineNext
  <1>6. CountsOK'
    <2>1. did' \in [Bounded -> Nat] /\ \A w \in Bounded : did'[w] <= setup[w]
      BY <1>2, DoesOK DEF Typed, Bounded
    <2> QED BY <1>2, <2>1 DEF Typed, CountsOK
  <1>7. CallOK(n, phase', call', mem', tips') /\ Files(n, wal', snap', lost')
    BY <1>1, <1>2
  <1> QED BY <1>1, <1>2, <1>4, <1>5, <1>6, <1>7, NextTyped

LEMMA CkptFlushTyped == ASSUME Typed, CkptFlush PROVE Typed'
  <1>1. PICK n \in Nat : /\ n >= ROOT_PAGES /\ E \in Engine(n)
                         /\ CallOK(n, phase, call, mem, tips) /\ Files(n, wal, snap, lost)
    BY Running DEF CkptFlush
  <1>2. /\ phase' = "flushed" /\ call' = call /\ wal' = wal /\ snap' = snap /\ lost' = lost
        /\ mem' = mem /\ tips' = tips /\ index' = index /\ ring' = ring /\ disk' = mem
        /\ covered' = covered /\ replayed' = replayed /\ closing' \in BOOLEAN
        /\ failed' = failed /\ setup' = setup /\ Does("ckpts") /\ phase = "open"
    BY DEF CkptFlush, viewVars, failVars, Flushed
  <1>3. /\ mem \in Heap(n) /\ tips \in Tips(n) /\ index \in Index(n) /\ ring \in Rings
    BY <1>1, EngineNow
  <1>4. E' \in Engine(n) /\ disk' \in Heap(n)
    BY <1>2, <1>3, EngineNext
  <1>5. CountsOK'
    <2>1. did' \in [Bounded -> Nat] /\ \A w \in Bounded : did'[w] <= setup[w]
      BY <1>2, DoesOK DEF Typed, Bounded
    <2> QED BY <1>2, <2>1 DEF Typed, CountsOK, Phases
  <1>6. CallOK(n, phase', call', mem', tips') /\ Files(n, wal', snap', lost')
    <2>1. n <= n /\ "flushed" \notin {"link", "insert"}
      OBVIOUS
    <2> QED BY <1>1, <1>2, <2>1, IdleCallOK
  <1> QED BY <1>1, <1>2, <1>4, <1>5, <1>6, NextTyped

LEMMA CkptSnapshotTyped == ASSUME Typed, CkptSnapshot PROVE Typed'
  <1>1. PICK n \in Nat : /\ n >= ROOT_PAGES /\ E \in Engine(n)
                         /\ CallOK(n, phase, call, mem, tips) /\ Files(n, wal, snap, lost)
    BY Running DEF CkptSnapshot
  <1>2. /\ phase' = "snapped" /\ call' = call /\ wal' = wal /\ lost' = lost
        /\ snap' = [aligned |-> FALSE, entries |-> SaveIndex(index)]
        /\ mem' = mem /\ tips' = tips /\ index' = index /\ ring' = ring /\ disk' = disk
    BY DEF CkptSnapshot, viewVars, pastVars, failVars
  <1>3. /\ mem \in Heap(n) /\ tips \in Tips(n) /\ index \in Index(n) /\ ring \in Rings
        /\ disk \in Heap(n)
    BY <1>1, EngineNow
  <1>4. E' \in Engine(n) /\ disk' \in Heap(n)
    BY <1>2, <1>3, EngineNext
  <1>5. CountsOK'
    BY DEF Typed, CountsOK, CkptSnapshot, viewVars, pastVars, failVars, Phases
  <1>6. CallOK(n, phase', call', mem', tips')
    <2>1. n <= n /\ "snapped" \notin {"link", "insert"}
      OBVIOUS
    <2> QED BY <1>1, <1>2, <2>1, IdleCallOK
  <1>7. Files(n, wal', snap', lost')
    <2>1. SnapOK(n, snap')
      <3>1. snap'.aligned = FALSE /\ snap'.entries = SaveIndex(index)
        BY <1>2
      <3> QED BY <1>2, <1>3, <3>1 DEF SnapOK
    <2> QED BY <1>1, <1>2, <2>1 DEF Files
  <1> QED BY <1>1, <1>2, <1>4, <1>5, <1>6, <1>7, NextTyped

LEMMA CkptPersistTyped == ASSUME Typed, CkptPersist PROVE Typed'
  <1>1. PICK n \in Nat : /\ n >= ROOT_PAGES /\ E \in Engine(n)
                         /\ CallOK(n, phase, call, mem, tips) /\ Files(n, wal, snap, lost)
    BY Running DEF CkptPersist
  <1>2. /\ phase' = "persisted" /\ call' = call /\ wal' = wal /\ lost' = lost
        /\ snap' = [snap EXCEPT !.aligned = TRUE] /\ covered' = Len(wal)
        /\ mem' = mem /\ tips' = tips /\ index' = index /\ ring' = ring /\ disk' = disk
        /\ replayed' = replayed /\ closing' = closing /\ failed' = failed /\ setup' = setup
        /\ did' = did /\ phase = "snapped"
    BY DEF CkptPersist, viewVars, pastVars, failVars
  <1>3. /\ mem \in Heap(n) /\ tips \in Tips(n) /\ index \in Index(n) /\ ring \in Rings
        /\ disk \in Heap(n)
    BY <1>1, EngineNow
  <1>4. E' \in Engine(n) /\ disk' \in Heap(n)
    BY <1>2, <1>3, EngineNext
  <1>5. CountsOK'
    <2>1. Len(wal) \in Nat
      BY <1>1 DEF Files
    <2> QED BY <1>2, <2>1 DEF Typed, CountsOK, Phases
  <1>6. CallOK(n, phase', call', mem', tips')
    <2>1. n <= n /\ "persisted" \notin {"link", "insert"}
      OBVIOUS
    <2> QED BY <1>1, <1>2, <2>1, IdleCallOK
  <1>7. Files(n, wal', snap', lost')
    <2> DEFINE entries == snap.entries
               aligned == snap.aligned
    <2>1. snap = [aligned |-> aligned, entries |-> entries] /\ snap' = [snap EXCEPT !.aligned = TRUE]
      BY <1>1, <1>2 DEF Files, SnapOK
    <2> HIDE DEF entries, aligned
    <2>2. snap' = [aligned |-> TRUE, entries |-> entries]
      BY ONLY <2>1
    <2>3. snap'.aligned = TRUE /\ snap'.entries = entries
      BY <2>2
    <2>4. entries = {} \/ \E idx \in Index(n) : entries = SaveIndex(idx)
      BY <1>1 DEF Files, SnapOK, entries
    <2>5. SnapOK(n, snap')
      BY <2>2, <2>3, <2>4 DEF SnapOK
    <2> QED BY <1>1, <1>2, <2>5 DEF Files
  <1> QED BY <1>1, <1>2, <1>4, <1>5, <1>6, <1>7, NextTyped

\* The engine is closed, and its files stay.
LEMMA GoneTyped ==
    ASSUME NEW n \in Nat, n >= ROOT_PAGES, Gone, disk' \in Heap(n), Files(n, wal', snap', lost'),
           setup' \in Setups, failed' \subseteq Message,
           did' \in [Bounded -> Nat], \A w \in Bounded : did'[w] <= setup'[w],
           covered' \in 0 .. Len(wal')
    PROVE  Typed'
  <1>1. NoView' /\ phase' = "closed"
    BY DEF Gone, NoView
  <1>2. CallOK(n, phase', call', mem', tips')
    <2>1. call' = NoCall /\ "closed" \notin {"link", "insert"}
      BY DEF Gone
    <2> QED BY <1>1, <2>1, NoCallOK
  <1>3. Len(wal') \in Nat
    BY DEF Files
  <1>4. CountsOK'
    <2>1. replayed' = 0 /\ phase' = "closed"
      BY DEF Gone
    <2>2. replayed' \in 0 .. Len(wal') /\ phase' \in Phases
      BY <1>3, <2>1 DEF Phases
    <2>3. closing' \in BOOLEAN
      BY Zenon DEF Gone
    <2> QED BY <2>1, <2>2, <2>3 DEF CountsOK
  <1> QED BY <1>1, <1>2, <1>4 DEF Typed, Sized, Space

LEMMA CkptRotateTyped == ASSUME Typed, CkptRotate PROVE Typed'
  <1>1. PICK n \in Nat : /\ n >= ROOT_PAGES /\ E \in Engine(n)
                         /\ CallOK(n, phase, call, mem, tips) /\ Files(n, wal, snap, lost)
    BY Running DEF CkptRotate
  <1>2. /\ wal' = <<>> /\ covered' = 0 /\ disk' = disk /\ snap' = snap /\ lost' = lost
        /\ failed' = failed /\ setup' = setup /\ did' = did /\ phase = "persisted"
    BY DEF CkptRotate, pastVars, failVars
  <1>3. /\ mem \in Heap(n) /\ tips \in Tips(n) /\ index \in Index(n) /\ ring \in Rings
        /\ disk \in Heap(n)
    BY <1>1, EngineNow
  <1>4. Files(n, wal', snap', lost') /\ covered' \in 0 .. Len(wal')
    BY <1>1, <1>2 DEF Files
  <1>5. CASE closing
    <2>1. Gone
      BY <1>5 DEF CkptRotate
    <2> QED BY <1>1, <1>2, <1>3, <1>4, <2>1, GoneTyped DEF Typed, CountsOK
  <1>6. CASE ~closing
    <2>1. /\ phase' = "open" /\ mem' = mem /\ tips' = tips /\ index' = index /\ ring' = ring
          /\ replayed' = replayed /\ call' = call /\ closing' = closing
      BY <1>6 DEF CkptRotate, viewVars
    <2>2. E' \in Engine(n) /\ disk' \in Heap(n)
      BY <1>2, <1>3, <2>1, EngineNext
    <2>3. CountsOK'
      BY <1>2, <1>4, <2>1 DEF Typed, CountsOK, Phases
    <2>4. CallOK(n, phase', call', mem', tips')
      <3>1. n <= n /\ "open" \notin {"link", "insert"}
        OBVIOUS
      <3> QED BY <1>1, <2>1, <3>1, IdleCallOK
    <2> QED BY <1>1, <1>4, <2>1, <2>2, <2>3, <2>4, NextTyped
  <1> QED BY <1>5, <1>6

LEMMA CloseSkippedTyped == ASSUME Typed, CloseSkipped PROVE Typed'
  <1>1. PICK n \in Nat : /\ n >= ROOT_PAGES /\ E \in Engine(n)
                         /\ CallOK(n, phase, call, mem, tips) /\ Files(n, wal, snap, lost)
    BY Running DEF CloseSkipped
  <1>2. mem \in Heap(n)
    BY <1>1, EngineNow
  <1>3. /\ wal' = wal /\ covered' = covered /\ disk' = mem /\ snap' = snap /\ lost' = lost
        /\ failed' = failed /\ setup' = setup /\ did' = did /\ Gone
    BY DEF CloseSkipped, pastVars, failVars, Flushed
  <1> QED BY <1>1, <1>2, <1>3, GoneTyped DEF Typed, CountsOK

LEMMA CrashTyped == ASSUME Typed, Crash PROVE Typed'
  <1>1. PICK n \in Nat : /\ n >= ROOT_PAGES /\ E \in Engine(n)
                         /\ CallOK(n, phase, call, mem, tips) /\ Files(n, wal, snap, lost)
    BY Running DEF Crash
  <1>2. disk \in Heap(n)
    BY <1>1, EngineNow
  <1>3. /\ covered' = covered /\ disk' = disk /\ snap' = snap /\ lost' = lost
        /\ failed' = failed /\ setup' = setup /\ Does("crashes") /\ Gone
    BY DEF Crash, failVars
  <1>4. Files(n, wal', snap', lost') /\ covered' \in 0 .. Len(wal')
    <2>1. Len(wal) \in Nat /\ covered \in 0 .. Len(wal)
      BY <1>1 DEF Typed, CountsOK, Files
    <2>2. CASE wal' = wal
      BY <1>1, <1>3, <2>1, <2>2
    <2>3. CASE phase = "insert" /\ wal' = Append(wal, InsertRec(call.chat, call.page, call.msg))
      <3>1. call.chat \in Chats /\ call.page \in New(n) /\ call.msg \in Message
        BY <1>1, <2>3 DEF CallOK, CallType
      <3>2. InsertRec(call.chat, call.page, call.msg) \in Recs(n)
        BY <3>1, RecFacts
      <3>3. Files(n, wal', snap, lost) /\ Len(wal') = Len(wal) + 1
        BY <1>1, <2>3, <3>2, LogGrows
      <3> QED BY <1>3, <2>1, <3>3
    <2> QED BY <2>2, <2>3 DEF Crash
  <1>5. did' \in [Bounded -> Nat] /\ \A w \in Bounded : did'[w] <= setup[w]
    BY <1>3, DoesOK DEF Typed, Bounded
  <1> QED BY <1>1, <1>2, <1>3, <1>4, <1>5, GoneTyped DEF Typed, CountsOK

LEMMA InitTyped == Init => Typed
  <1> SUFFICES ASSUME Init PROVE Typed
    OBVIOUS
  <1> DEFINE n == ROOT_PAGES
  <1>1. disk \in Heap(n) /\ n \in Nat /\ n >= ROOT_PAGES
    BY EmptyEngine DEF Init
  <1>2. Space(n)
    BY <1>1 DEF Space, Init
  <1>3. CallOK(n, phase, call, mem, tips)
    <2>1. phase \notin {"link", "insert"} /\ call = NoCall
      BY DEF Init, NoView
    <2> QED BY <1>1, <2>1, NoCallOK
  <1>4. Files(n, wal, snap, lost)
    <2>1. snap.aligned = FALSE /\ snap.entries = {} /\ snap = [aligned |-> FALSE, entries |-> {}]
      BY DEF Init, NoSnap
    <2> QED BY <2>1 DEF Files, SnapOK, Init
  <1>5. CountsOK
    <2>1. setup \in Setups /\ \A what \in Bounded : setup[what] \in Nat
      BY SetupFacts DEF Init
    <2>2. did \in [Bounded -> Nat] /\ \A what \in Bounded : did[what] = 0
      BY DEF Init
    <2>3. /\ covered \in 0 .. Len(wal) /\ replayed \in 0 .. Len(wal) /\ replayed = 0
          /\ phase \in Phases /\ failed \subseteq Message
      BY DEF Init, NoView, Phases
    <2>4. \A what \in Bounded : did[what] <= setup[what]
      BY <2>1, <2>2
    <2>5. closing \in BOOLEAN
      BY Zenon DEF Init, NoView
    <2> QED BY <2>1, <2>2, <2>3, <2>4, <2>5 DEF CountsOK
  <1> HIDE DEF n
  <1> QED BY <1>1, <1>2, <1>3, <1>4, <1>5 DEF Typed, Sized

LEMMA StepTyped == Typed /\ [Next]_vars => Typed'
  <1> SUFFICES ASSUME Typed, [Next]_vars PROVE Typed'
    OBVIOUS
  <1>1. CASE Next
    BY <1>1, OpenTyped, ReplayTyped, OpenedTyped, RecentTyped, AppendStartTyped, AppendLinkTyped,
       AppendTooLargeTyped, AppendInsertTyped, AppendFailsTyped, TrimStepTyped, EvictTyped,
       CkptFlushTyped, CkptSnapshotTyped, CkptPersistTyped, CkptRotateTyped, CloseSkippedTyped,
       CrashTyped DEF Next
  <1>2. CASE UNCHANGED vars
    <2>1. /\ disk' = disk /\ wal' = wal /\ covered' = covered /\ snap' = snap /\ phase' = phase
          /\ mem' = mem /\ tips' = tips /\ index' = index /\ ring' = ring /\ replayed' = replayed
          /\ call' = call /\ closing' = closing /\ failed' = failed /\ lost' = lost
          /\ setup' = setup /\ did' = did
      BY <1>2 DEF vars
    <2>2. PICK n : Sized(n)
      BY DEF Typed
    <2>3. Space(n)'
      BY <2>1, <2>2 DEF Sized, Space, NoView, E
    <2>4. CountsOK'
      BY <2>1 DEF Typed, CountsOK
    <2> QED BY <2>1, <2>2, <2>3, <2>4 DEF Typed, Sized
  <1> QED BY <1>1, <1>2

LEMMA AlwaysTyped == Spec => []Typed
  <1>1. Init => Typed
    BY InitTyped
  <1>2. Typed /\ [Next]_vars => Typed'
    BY StepTyped
  <1> QED BY <1>1, <1>2, PTL DEF Spec

LEMMA TypedTypes == Typed => TypeOK /\ IndexCounts
  <1> SUFFICES ASSUME Typed PROVE TypeOK /\ IndexCounts
    OBVIOUS
  <1>1. PICK n : Sized(n)
    BY DEF Typed
  <1>2. n \in Nat /\ n >= ROOT_PAGES /\ disk \in Heap(n) /\ Files(n, wal, snap, lost)
    BY <1>1 DEF Sized, Space
  <1>3. PageSet(n) \subseteq Pages
    BY DEF PageSet, Pages, Owners, Ids, Rows, ROOT_PAGES
  <1>4. /\ DOMAIN disk = Ids(n) /\ SizePages(disk) = n /\ \A id \in DOMAIN disk : disk[id] \in Pages
    BY <1>2, <1>3, HeapFacts, SizeOf
  <1>5. DOMAIN disk = {Super} \cup (ROOT_PAGES .. SizePages(disk) - 1)
    BY <1>4 DEF Ids, Super
  <1>6. /\ \A id \in DOMAIN mem : mem[id] \in Pages
        /\ phase # "closed" => DOMAIN mem = DOMAIN disk
        /\ \A c \in DOMAIN tips : c \in Chats \cup {0} /\ tips[c] \in TipType
        /\ \A k \in Keys(index) : LET loc == UnpackLoc(index.at[k])
                                  IN  loc.page \in DOMAIN disk /\ loc.slot \in 0 .. PageCap - 1
        /\ \A c \in DOMAIN ring : ring[c] \in Seq(Message) /\ Len(ring[c]) <= RingMax
        /\ IndexCounts
    <2>1. CASE phase = "closed"
      <3>1. mem = EmptyHeap /\ tips = <<>> /\ index = NewIndex /\ ring = <<>>
        BY <1>1, <2>1 DEF Sized, Space, NoView
      <3>2. mem \in Heap(ROOT_PAGES) /\ ROOT_PAGES \in Nat
        BY <3>1, EmptyEngine
      <3>3. \A id \in DOMAIN mem : mem[id] \in PageSet(ROOT_PAGES)
        BY <3>2, EmptyEngine, HeapFacts
      <3>4. PageSet(ROOT_PAGES) \subseteq Pages
        BY DEF PageSet, Pages, Owners, Ids, Rows, ROOT_PAGES
      <3>5. Counted(NewIndex) /\ Keys(NewIndex) = {}
        BY <1>2, NewIndexTyped DEF Index
      <3>6. DOMAIN tips = {} /\ DOMAIN ring = {}
        BY <3>1
      <3> QED BY <2>1, <3>1, <3>3, <3>4, <3>5, <3>6 DEF IndexCounts, Counted
    <2>2. CASE phase # "closed"
      <3>1. E \in Engine(n)
        BY <1>1, <2>2 DEF Sized, Space
      <3>2. mem \in Heap(n) /\ tips \in Tips(n) /\ index \in Index(n) /\ ring \in Rings
        BY <3>1, <1>2, EngineNow
      <3>3. DOMAIN mem = DOMAIN disk /\ \A id \in DOMAIN mem : mem[id] \in Pages
        BY <1>2, <1>3, <1>4, <3>2, HeapFacts
      <3>4. \A c \in DOMAIN tips : c \in Chats \cup {0} /\ tips[c] \in TipType
        <4> TAKE c \in DOMAIN tips
        <4> DEFINE R == [head : New(n), tail : New(n), count : Nat]
        <4>1. tips \in Partial(Owners, R) /\ R \subseteq TipType
          BY <1>2, <3>2, IdFacts DEF Tips, TipType
        <4> HIDE DEF R
        <4> QED BY <4>1 DEF Partial, Owners
      <3>5. \A k \in Keys(index) :
               index.at[k] \in Places16(n)
        <4>1. index.at \in Partial(Owners \X Nat, Places16(n))
          BY <3>2 DEF Index
        <4> QED BY <4>1, PartialFacts DEF Keys
      <3>6. \A k \in Keys(index) : LET loc == UnpackLoc(index.at[k])
                                   IN  loc.page \in DOMAIN disk /\ loc.slot \in 0 .. PageCap - 1
        BY <1>2, <1>4, <3>5, PlaceFacts, IdFacts
      <3>7. \A c \in DOMAIN ring : ring[c] \in Seq(Message) /\ Len(ring[c]) <= RingMax
        <4> TAKE c \in DOMAIN ring
        <4> DEFINE R == {rr \in Seq(Message) : Len(rr) <= RingMax}
        <4>1. ring \in Partial(Owners, R)
          BY <3>2 DEF Rings
        <4> HIDE DEF R
        <4>2. ring[c] \in R
          BY <4>1 DEF Partial
        <4> QED BY <4>2 DEF R
      <3>8. IndexCounts
        BY <3>2 DEF Index, Counted, IndexCounts
      <3> QED BY <3>3, <3>4, <3>6, <3>7, <3>8
    <2> QED BY <2>1, <2>2
  <1>7. covered \in 0 .. Len(wal) /\ replayed \in 0 .. Len(wal) /\ phase \in Phases
        /\ closing \in BOOLEAN /\ failed \subseteq Message /\ setup \in Setups
    BY DEF Typed, CountsOK
  <1>8. \A what \in Bounded : did[what] \in 0 .. setup[what]
    <2>1. \A what \in Bounded : setup[what] \in Nat
      BY <1>7, SetupFacts
    <2> QED BY <2>1 DEF Typed, CountsOK
  <1>9. lost \subseteq DOMAIN disk
    BY <1>2, <1>4 DEF Files
  <1> QED BY <1>4, <1>5, <1>6, <1>7, <1>8, <1>9 DEF TypeOK

\* Whatever the setups: the pages, the tips, the index, the rings and the log of an engine
\* keep their types, and what they hold are places and pages that exist (engine.rs, open to
\* close, with every death in between).
THEOREM TypeIsOK == Spec => []TypeOK
  BY AlwaysTyped, TypedTypes, PTL

\* The index counts its entries in every reachable state, so save_msg_index neither panics
\* nor leaves a made-up entry behind.
THEOREM IndexIsCounted == Spec => []IndexCounts
  BY AlwaysTyped, TypedTypes, PTL

-----------------------------------------------------------------------------
(* From here on, that acknowledged messages stay readable.  The invariant,  *)
(* Carries, gives every page beyond the roots to one chat and says, for the *)
(* file, the pool and the log together: a page holds messages of begun      *)
(* appends, each once; the page in the file is a beginning of that in the   *)
(* pool; what the log has for a page fits on it; what the file covers of    *)
(* the log is in it; and what is acknowledged is in the file or in the log  *)
(* behind that, and in the index, or will be when the log is replayed.      *)

-----------------------------------------------------------------------------
(* What a page holds. *)

\* The messages of the first b appends
Msgs(b) == {[id |-> i, body |-> i] : i \in 1 .. b}

Fits(S) == \E F : IsFiniteSet(F) /\ Cardinality(F) <= PageCap /\ S \subseteq F
Begins(rows, all) == Len(rows) <= Len(all) /\ \A k \in 1 .. Len(rows) : rows[k] = all[k]
Distinct(rows) == \A j, k \in DOMAIN rows : rows[j] = rows[k] => j = k

LEMMA MsgsFacts ==
    ASSUME NEW b \in Nat, NEW k \in Nat, b <= k
    PROVE  /\ Msgs(b) \subseteq Message /\ Msgs(b) \subseteq Msgs(k)
           /\ [id |-> b + 1, body |-> b + 1] \in Msgs(b + 1)
           /\ [id |-> b + 1, body |-> b + 1] \notin Msgs(b)
           /\ \A m1, m2 \in Msgs(b) : m1.id = m2.id => m1 = m2
  <1>1. 1 .. b \subseteq 1 .. k /\ b + 1 \in 1 .. b + 1 /\ b + 1 \notin 1 .. b /\ 1 .. b \subseteq Nat
    OBVIOUS
  <1>2. \A i : [id |-> i, body |-> i].id = i
    OBVIOUS
  <1>3. Msgs(b) \subseteq Message
    BY <1>1 DEF Msgs, Message
  <1>4. Msgs(b) \subseteq Msgs(k) /\ [id |-> b + 1, body |-> b + 1] \in Msgs(b + 1)
    BY <1>1 DEF Msgs
  <1>5. [id |-> b + 1, body |-> b + 1] \notin Msgs(b)
    BY <1>1, <1>2 DEF Msgs
  <1>6. \A m1, m2 \in Msgs(b) : m1.id = m2.id => m1 = m2
    BY <1>2 DEF Msgs
  <1> QED BY <1>3, <1>4, <1>5, <1>6

LEMMA RowsFacts ==
    ASSUME NEW T, NEW rows \in Seq(T)
    PROVE  /\ Len(rows) \in Nat /\ DOMAIN rows = 1 .. Len(rows)
           /\ \A k \in DOMAIN rows : rows[k] \in ToSet(rows) /\ rows[k] \in T
           /\ \A x \in ToSet(rows) : \E k \in DOMAIN rows : rows[k] = x
           /\ rows = <<>> <=> DOMAIN rows = {}
           /\ rows = <<>> <=> ToSet(rows) = {}
  <1>1. Len(rows) \in Nat /\ DOMAIN rows = 1 .. Len(rows) /\ \A k \in DOMAIN rows : rows[k] \in T
    OBVIOUS
  <1>2. /\ \A k \in DOMAIN rows : rows[k] \in ToSet(rows)
        /\ \A x \in ToSet(rows) : \E k \in DOMAIN rows : rows[k] = x
    BY DEF ToSet
  <1>3. rows = <<>> <=> DOMAIN rows = {}
    <2>1. DOMAIN rows = {} => Len(rows) = 0
      BY <1>1
    <2>2. Len(rows) = 0 => rows = <<>>
      OBVIOUS
    <2>3. rows = <<>> => DOMAIN rows = {}
      OBVIOUS
    <2> QED BY <2>1, <2>2, <2>3
  <1> QED BY <1>1, <1>2, <1>3

LEMMA RowsGrow ==
    ASSUME NEW T, NEW rows \in Seq(T), NEW m \in T
    PROVE  /\ Append(rows, m) \in Seq(T)
           /\ ToSet(Append(rows, m)) = ToSet(rows) \cup {m}
           /\ Begins(rows, Append(rows, m))
           /\ Distinct(rows) /\ m \notin ToSet(rows) => Distinct(Append(rows, m))
  <1> DEFINE all == Append(rows, m)
  <1>1. /\ all \in Seq(T) /\ Len(all) = Len(rows) + 1 /\ all[Len(rows) + 1] = m
        /\ \A k \in 1 .. Len(rows) : all[k] = rows[k]
    BY SeqExtends
  <1>2. Len(rows) \in Nat /\ DOMAIN all = 1 .. Len(rows) + 1 /\ DOMAIN rows = 1 .. Len(rows)
    BY <1>1
  <1> HIDE DEF all
  <1>3. DOMAIN all = DOMAIN rows \cup {Len(rows) + 1}
    BY <1>2
  <1>4. ToSet(all) = ToSet(rows) \cup {m}
    BY <1>1, <1>2, <1>3 DEF ToSet
  <1>5. Begins(rows, all)
    BY <1>1, <1>2 DEF Begins
  <1>6. Distinct(rows) /\ m \notin ToSet(rows) => Distinct(all)
    <2> SUFFICES ASSUME Distinct(rows), m \notin ToSet(rows),
                        NEW j \in DOMAIN all, NEW k \in DOMAIN all, all[j] = all[k]
                 PROVE  j = k
      BY DEF Distinct
    <2>1. \A i \in DOMAIN rows : all[i] = rows[i] /\ all[i] # m
      BY <1>1, <1>2 DEF ToSet
    <2> QED BY <1>1, <1>3, <2>1 DEF Distinct
  <1> QED BY <1>1, <1>4, <1>5, <1>6 DEF all

LEMMA BeginsFacts ==
    ASSUME NEW T, NEW rows \in Seq(T), NEW all \in Seq(T), Begins(rows, all)
    PROVE  /\ ToSet(rows) \subseteq ToSet(all) /\ DOMAIN rows \subseteq DOMAIN all
           /\ \A k \in DOMAIN rows : rows[k] = all[k]
           /\ Distinct(all) => Distinct(rows)
           /\ rows # <<>> => all # <<>>
           /\ \A m \in T : Begins(rows, Append(all, m))
  <1>1. /\ Len(rows) \in Nat /\ DOMAIN rows = 1 .. Len(rows)
        /\ Len(all) \in Nat /\ DOMAIN all = 1 .. Len(all)
    OBVIOUS
  <1>2. DOMAIN rows \subseteq DOMAIN all /\ \A k \in DOMAIN rows : rows[k] = all[k]
    BY <1>1 DEF Begins
  <1>3. ToSet(rows) \subseteq ToSet(all)
    BY <1>2 DEF ToSet
  <1>4. Distinct(all) => Distinct(rows)
    BY <1>2 DEF Distinct
  <1>5. rows # <<>> => all # <<>>
    BY <1>1, <1>2
  <1>6. \A m \in T : Begins(rows, Append(all, m))
    <2> TAKE m \in T
    <2>1. /\ Len(Append(all, m)) = Len(all) + 1
          /\ \A k \in 1 .. Len(all) : Append(all, m)[k] = all[k]
      BY SeqExtends
    <2> QED BY <1>1, <2>1 DEF Begins
  <1> QED BY <1>2, <1>3, <1>4, <1>5, <1>6

LEMMA FitsLess == ASSUME NEW S, Fits(S), NEW R, R \subseteq S PROVE Fits(R)
  BY DEF Fits

\* What a page holds fits on a page.
LEMMA FitsRows ==
    ASSUME NEW T, NEW rows \in Seq(T), Len(rows) <= PageCap
    PROVE  Fits(ToSet(rows))
  <1>1. Len(rows) \in Nat /\ DOMAIN rows = 1 .. Len(rows) /\ rows \in [1 .. Len(rows) -> ToSet(rows)]
    <2>1. Len(rows) \in Nat /\ DOMAIN rows = 1 .. Len(rows) /\ rows = [k \in 1 .. Len(rows) |-> rows[k]]
      OBVIOUS
    <2>2. \A k \in 1 .. Len(rows) : rows[k] \in ToSet(rows)
      BY <2>1 DEF ToSet
    <2> QED BY <2>1, <2>2
  <1> DEFINE S == 1 .. Len(rows)
  <1>2. IsFiniteSet(S) /\ Cardinality(S) = Len(rows)
    <2>1. /\ IsFiniteSet(1 .. Len(rows))
          /\ Cardinality(1 .. Len(rows)) = IF 1 > Len(rows) THEN 0 ELSE Len(rows) - 1 + 1
      BY <1>1, FS_Interval
    <2> QED BY <1>1, <2>1
  <1>3. rows \in Surjection(S, ToSet(rows))
    BY <1>1 DEF Surjection, ToSet
  <1> HIDE DEF S
  <1>4. IsFiniteSet(ToSet(rows)) /\ Cardinality(ToSet(rows)) <= Cardinality(S)
    BY <1>2, <1>3, FS_Surjection
  <1>5. Cardinality(ToSet(rows)) \in Nat
    BY <1>4, FS_CardinalityType
  <1>6. Cardinality(ToSet(rows)) <= PageCap
    BY <1>1, <1>2, <1>4, <1>5, CapFacts
  <1> QED BY <1>4, <1>6 DEF Fits

\* A page whose rows are some of what fits on it, and not all, has room.
LEMMA RoomLeft ==
    ASSUME NEW T, NEW rows \in Seq(T), Distinct(rows), NEW S, Fits(S), ToSet(rows) \subseteq S,
           NEW m \in S, m \notin ToSet(rows)
    PROVE  Len(rows) < PageCap
  <1>1. PICK F : IsFiniteSet(F) /\ Cardinality(F) <= PageCap /\ S \subseteq F
    BY DEF Fits
  <1> DEFINE D == 1 .. Len(rows)
             G == F \ {m}
  <1>2. Len(rows) \in Nat /\ DOMAIN rows = D /\ rows = [k \in D |-> rows[k]]
    OBVIOUS
  <1>3. \A k \in D : rows[k] \in G
    BY <1>1, <1>2 DEF ToSet
  <1>4. /\ IsFiniteSet(G) /\ Cardinality(G) = Cardinality(F) - 1
        /\ Cardinality(F) \in Nat /\ Cardinality(G) \in Nat
    BY <1>1, FS_RemoveElement, FS_CardinalityType
  <1>5. IsFiniteSet(D) /\ Cardinality(D) = Len(rows)
    <2>1. /\ IsFiniteSet(1 .. Len(rows))
          /\ Cardinality(1 .. Len(rows)) = IF 1 > Len(rows) THEN 0 ELSE Len(rows) - 1 + 1
      <3>1. 1 \in Int /\ Len(rows) \in Int
        BY <1>2
      <3> HIDE DEF D
      <3> QED BY <3>1, FS_Interval
    <2> QED BY <1>2, <2>1
  <1>6. rows \in Injection(D, G)
    <2>1. \A i, j \in D : rows[i] = rows[j] => i = j
      BY <1>2 DEF Distinct
    <2>2. rows \in [D -> G]
      BY <1>2, <1>3
    <2> HIDE DEF D, G
    <2> QED BY <1>2, <2>1, <2>2 DEF Injection, IsInjective
  <1> HIDE DEF D, G
  <1>7. Cardinality(D) <= Cardinality(G)
    BY <1>4, <1>6, FS_Injection
  <1> QED BY <1>1, <1>2, <1>4, <1>5, <1>7, CapFacts

-----------------------------------------------------------------------------
(* Pages in the file and in the pool, of an owner each, and the log.  Here  *)
(* n is the number of pages, own their chats, b the number of messages that *)
(* have got into a page, dk the file, vw the pool or, when the engine is    *)
(* closed, what the next open will find, and w the log.                     *)

PageOf(o, page) ==
    /\ page.ty = "chat" /\ page.at32 \in {0, o}
    /\ page.rows # <<>> => page.at32 = o

\* A page d in the file is a beginning of page v in the pool, and with what the log has
\* for it, L, the page is not too full.
Matches(o, b, d, v, L) ==
    /\ PageOf(o, d) /\ PageOf(o, v)
    /\ ToSet(v.rows) \subseteq Msgs(b) /\ Distinct(v.rows)
    /\ Begins(d.rows, v.rows)
    /\ Fits(ToSet(v.rows) \cup L)

LogRows(w, p) == {w[j].msg : j \in {i \in DOMAIN w : w[i].ty = "insert" /\ w[i].page = p}}
PagesOK(n, own, b, dk, vw, w) ==
    /\ dk \in Heap(n) /\ vw \in Heap(n) /\ dk[0].at32 = 0 /\ vw[0].at32 = 0
    /\ \A p \in New(n) : Matches(own[p], b, dk[p], vw[p], LogRows(w, p))

RecOK(own, b, dk, vw, r, onfile, inpool) ==
    /\ r.ty # "trim" /\ own[r.page] = r.chat
    /\ r.ty = "insert" => /\ r.msg \in Msgs(b)
                          /\ onfile => r.msg \in ToSet(dk[r.page].rows)
                          /\ inpool => r.msg \in ToSet(vw[r.page].rows)

\* The first k records are in the file, the first u in the pool.
LogOK(own, b, dk, vw, w, k, u) ==
    \A j \in DOMAIN w : RecOK(own, b, dk, vw, w[j], j <= k, j <= u)

LEMMA PageRows ==
    ASSUME NEW n \in Nat, n >= ROOT_PAGES, NEW heap \in Heap(n), NEW p \in New(n)
    PROVE  /\ heap[p].rows \in Seq(Message) /\ Len(heap[p].rows) <= PageCap
           /\ heap[p] \in PageSet(n) /\ heap[p].at32 \in Owners
  BY HeapFacts, IdFacts

LEMMA MatchesView ==
    ASSUME NEW o, NEW b \in Nat, NEW k \in Nat, b <= k, NEW d, NEW v, NEW L, NEW v2,
           Matches(o, b, d, v, L), v2.rows = v.rows, PageOf(o, v2)
    PROVE  Matches(o, k, d, v2, L)
  BY MsgsFacts DEF Matches

LEMMA MatchesAppend ==
    ASSUME NEW o, NEW b \in Nat, NEW k \in Nat, b <= k, NEW d, NEW v, NEW L, NEW v2, NEW L2,
           Matches(o, b, d, v, L), d.rows \in Seq(Message), v.rows \in Seq(Message),
           NEW m \in Msgs(k), m \notin ToSet(v.rows),
           v2.rows = Append(v.rows, m), PageOf(o, v2), Fits(ToSet(v2.rows) \cup L2)
    PROVE  Matches(o, k, d, v2, L2)
  <1>1. m \in Message /\ Msgs(b) \subseteq Msgs(k)
    <2>1. k <= k
      OBVIOUS
    <2> QED BY <2>1, MsgsFacts
  <1>2. /\ ToSet(v2.rows) = ToSet(v.rows) \cup {m} /\ Distinct(v2.rows)
    BY <1>1, RowsGrow DEF Matches
  <1>3. Begins(d.rows, v2.rows)
    BY <1>1, BeginsFacts DEF Matches
  <1> QED BY <1>1, <1>2, <1>3 DEF Matches

LEMMA BeginsItself == ASSUME NEW rows \in Seq(Message) PROVE Begins(rows, rows)
  BY DEF Begins

LEMMA MatchesFile ==
    ASSUME NEW o, NEW b, NEW d, NEW v, NEW L, Matches(o, b, d, v, L), v.rows \in Seq(Message)
    PROVE  Matches(o, b, v, v, L)
  BY BeginsItself DEF Matches

LEMMA MatchesBack ==
    ASSUME NEW o, NEW b \in Nat, NEW k \in Nat, b <= k, NEW d, NEW v, NEW L, NEW L2,
           Matches(o, b, d, v, L), d.rows \in Seq(Message), v.rows \in Seq(Message),
           Fits(ToSet(d.rows) \cup L2)
    PROVE  Matches(o, k, d, d, L2)
  <1>1. ToSet(d.rows) \subseteq ToSet(v.rows) /\ Distinct(d.rows)
    BY BeginsFacts DEF Matches
  <1>2. Msgs(b) \subseteq Msgs(k)
    BY MsgsFacts
  <1> QED BY <1>1, <1>2, BeginsItself DEF Matches

LEMMA LogRowsGrow ==
    ASSUME NEW T, NEW w \in Seq(T), NEW r \in T, NEW p
    PROVE  LogRows(Append(w, r), p) =
               LogRows(w, p) \cup IF r.ty = "insert" /\ r.page = p THEN {r.msg} ELSE {}
  <1> DEFINE w2 == Append(w, r)
  <1>1. /\ Len(w) \in Nat /\ DOMAIN w = 1 .. Len(w) /\ DOMAIN w2 = 1 .. Len(w) + 1
        /\ w2[Len(w) + 1] = r /\ \A j \in 1 .. Len(w) : w2[j] = w[j]
    BY SeqExtends
  <1> HIDE DEF w2
  <1>2. DOMAIN w2 = DOMAIN w \cup {Len(w) + 1}
    BY <1>1
  <1>3. \A j \in DOMAIN w : w2[j] = w[j]
    BY <1>1
  <1>4. LogRows(w2, p) = LogRows(w, p) \cup IF r.ty = "insert" /\ r.page = p THEN {r.msg} ELSE {}
    BY <1>1, <1>2, <1>3 DEF LogRows
  <1> QED BY <1>4 DEF w2

\* What the log has for the pages is in the pool once all records are.
LEMMA LogInPool ==
    ASSUME NEW own, NEW b, NEW dk, NEW vw, NEW T, NEW w \in Seq(T), NEW k,
           LogOK(own, b, dk, vw, w, k, Len(w)), NEW p
    PROVE  LogRows(w, p) \subseteq ToSet(vw[p].rows)
  <1>1. \A j \in DOMAIN w : j <= Len(w)
    OBVIOUS
  <1> QED BY <1>1 DEF LogRows, LogOK, RecOK

LEMMA FitsPool ==
    ASSUME NEW n \in Nat, n >= ROOT_PAGES, NEW vw \in Heap(n), NEW p \in New(n), NEW L,
           L \subseteq ToSet(vw[p].rows)
    PROVE  Fits(ToSet(vw[p].rows) \cup L)
  <1>1. vw[p].rows \in Seq(Message) /\ Len(vw[p].rows) <= PageCap
    BY PageRows
  <1>2. ToSet(vw[p].rows) \cup L = ToSet(vw[p].rows)
    OBVIOUS
  <1> QED BY <1>1, <1>2, FitsRows

-----------------------------------------------------------------------------
(* Steps of the pages and the log. *)

InPages(n, w) == \A j \in DOMAIN w : w[j].page \in New(n)
SameRows(n, own, vw, v2) ==
    /\ v2 \in Heap(n) /\ v2[0].at32 = 0
    /\ \A p \in New(n) : v2[p].rows = vw[p].rows /\ PageOf(own[p], v2[p])

\* What changes no row
LEMMA ViewStep ==
    ASSUME NEW n \in Nat, n >= ROOT_PAGES, NEW own, NEW b \in Nat, NEW i \in Nat, b <= i,
           NEW dk, NEW vw, NEW w, NEW k, NEW u, NEW v2, InPages(n, w),
           PagesOK(n, own, b, dk, vw, w), LogOK(own, b, dk, vw, w, k, u),
           SameRows(n, own, vw, v2)
    PROVE  PagesOK(n, own, i, dk, v2, w) /\ LogOK(own, i, dk, v2, w, k, u)
  <1>1. \A p \in New(n) : Matches(own[p], i, dk[p], v2[p], LogRows(w, p))
    BY MatchesView DEF PagesOK, SameRows
  <1>2. PagesOK(n, own, i, dk, v2, w)
    BY <1>1 DEF PagesOK, SameRows
  <1>3. Msgs(b) \subseteq Msgs(i)
    BY MsgsFacts
  <1>4. LogOK(own, i, dk, v2, w, k, u)
    BY <1>3 DEF LogOK, RecOK, SameRows, InPages
  <1> QED BY <1>2, <1>4

\* The file has what it had.
Filed(n, dk, d2) ==
    \A p \in New(n) :
        /\ Begins(dk[p].rows, d2[p].rows) /\ ToSet(dk[p].rows) \subseteq ToSet(d2[p].rows)
        /\ \A m \in ToSet(dk[p].rows) : d2[p].at32 = dk[p].at32

\* Pages of the pool get into the file.
LEMMA FileStep ==
    ASSUME NEW n \in Nat, n >= ROOT_PAGES, NEW own, NEW b, NEW dk, NEW vw, NEW w, NEW k, NEW u,
           NEW d2, InPages(n, w),
           PagesOK(n, own, b, dk, vw, w), LogOK(own, b, dk, vw, w, k, u),
           d2 \in Heap(n), \A p \in Ids(n) : d2[p] = dk[p] \/ d2[p] = vw[p]
    PROVE  /\ PagesOK(n, own, b, d2, vw, w) /\ LogOK(own, b, d2, vw, w, k, u)
           /\ Filed(n, dk, d2)
  <1>1. 0 \in Ids(n) /\ New(n) \subseteq Ids(n)
    BY IdFacts
  <1>2. \A p \in New(n) : /\ vw[p].rows \in Seq(Message) /\ dk[p].rows \in Seq(Message)
                          /\ Begins(dk[p].rows, vw[p].rows)
    BY PageRows DEF PagesOK, Matches
  <1>3. \A p \in New(n) : Matches(own[p], b, d2[p], vw[p], LogRows(w, p))
    BY <1>1, <1>2, MatchesFile DEF PagesOK
  <1>4. PagesOK(n, own, b, d2, vw, w)
    BY <1>1, <1>3 DEF PagesOK
  <1>5. \A p \in New(n) : Begins(dk[p].rows, d2[p].rows)
    BY <1>1, <1>2, BeginsItself
  <1>6. \A p \in New(n) : ToSet(dk[p].rows) \subseteq ToSet(d2[p].rows)
    BY <1>1, <1>2, BeginsFacts
  <1>7. LogOK(own, b, d2, vw, w, k, u)
    BY <1>6 DEF LogOK, RecOK, InPages
  <1>8. ASSUME NEW p \in New(n), NEW m \in ToSet(dk[p].rows) PROVE d2[p].at32 = dk[p].at32
    <2>1. dk[p].rows # <<>> /\ vw[p].rows # <<>>
      BY <1>2, RowsFacts, BeginsFacts
    <2>2. dk[p].at32 = own[p] /\ vw[p].at32 = own[p]
      BY <2>1 DEF PagesOK, Matches, PageOf
    <2> QED BY <1>1, <2>2
  <1> QED BY <1>4, <1>5, <1>6, <1>7, <1>8 DEF Filed

\* The engine is gone, and the log may have got one record more, of a message that its
\* page in the pool had room for.
LEMMA BackStep ==
    ASSUME NEW n \in Nat, n >= ROOT_PAGES, NEW own, NEW b \in Nat, NEW i \in Nat, b <= i,
           NEW dk, NEW vw, NEW w \in Seq(Recs(n)), NEW k \in Nat, k <= Len(w), NEW u,
           PagesOK(n, own, b, dk, vw, w), LogOK(own, b, dk, vw, w, k, u)
    PROVE  /\ PagesOK(n, own, i, dk, dk, w) /\ LogOK(own, i, dk, dk, w, k, 0)
           /\ \A r \in InsertRecs(n) :
                 own[r.page] = r.chat /\ r.msg \in Msgs(i) /\ HasRoom(vw[r.page]) /\ u = Len(w) =>
                    /\ PagesOK(n, own, i, dk, dk, Append(w, r))
                    /\ LogOK(own, i, dk, dk, Append(w, r), k, 0)
  <1>1. \A p \in New(n) : /\ vw[p].rows \in Seq(Message) /\ dk[p].rows \in Seq(Message)
                          /\ ToSet(dk[p].rows) \subseteq ToSet(vw[p].rows)
    <2>1. \A p \in New(n) : /\ vw[p].rows \in Seq(Message) /\ dk[p].rows \in Seq(Message)
                            /\ Begins(dk[p].rows, vw[p].rows)
      BY PageRows DEF PagesOK, Matches
    <2> QED BY <2>1, BeginsFacts
  <1>2. Msgs(b) \subseteq Msgs(i) /\ Msgs(i) \subseteq Message
    <2>1. i <= i
      OBVIOUS
    <2> QED BY <2>1, MsgsFacts
  <1>3. PagesOK(n, own, i, dk, dk, w)
    <2>1. ASSUME NEW p \in New(n) PROVE Matches(own[p], i, dk[p], dk[p], LogRows(w, p))
      <3>1. Fits(ToSet(dk[p].rows) \cup LogRows(w, p))
        BY <1>1, FitsLess DEF PagesOK, Matches
      <3> QED BY <1>1, <3>1, MatchesBack DEF PagesOK
    <2> QED BY <2>1 DEF PagesOK
  <1>4. Len(w) \in Nat /\ DOMAIN w = 1 .. Len(w)
    OBVIOUS
  <1>5. LogOK(own, i, dk, dk, w, k, 0)
    <2>1. \A j \in DOMAIN w : ~(j <= 0)
      BY <1>4
    <2> QED BY <1>2, <2>1 DEF LogOK, RecOK
  <1>6. ASSUME NEW r \in InsertRecs(n), own[r.page] = r.chat, r.msg \in Msgs(i),
               HasRoom(vw[r.page]), u = Len(w)
        PROVE  /\ PagesOK(n, own, i, dk, dk, Append(w, r))
               /\ LogOK(own, i, dk, dk, Append(w, r), k, 0)
    <2>1. r.ty = "insert" /\ r.page \in New(n) /\ r \in Recs(n)
      BY DEF InsertRecs, Recs
    <2>2. ASSUME NEW p \in New(n)
          PROVE  Matches(own[p], i, dk[p], dk[p], LogRows(Append(w, r), p))
      <3>1. LogRows(Append(w, r), p) = LogRows(w, p) \cup IF r.page = p THEN {r.msg} ELSE {}
        BY <2>1, LogRowsGrow
      <3>2. LogRows(w, p) \subseteq ToSet(vw[p].rows)
        BY <1>6, LogInPool
      <3>3. Fits(ToSet(dk[p].rows) \cup LogRows(Append(w, r), p))
        <4>1. CASE r.page = p
          <5> DEFINE all == Append(vw[p].rows, r.msg)
          <5>1. all \in Seq(Message) /\ ToSet(all) = ToSet(vw[p].rows) \cup {r.msg}
            BY <1>1, <1>2, <1>6, RowsGrow
          <5>2. Len(all) <= PageCap
            <6>1. Len(vw[p].rows) < PageCap /\ Len(vw[p].rows) \in Nat
              BY <1>1, <1>6, <4>1 DEF HasRoom
            <6>2. Len(all) = Len(vw[p].rows) + 1
              BY <1>1, <1>2, <1>6, SeqExtends
            <6> QED BY <6>1, <6>2, CapFacts
          <5> HIDE DEF all
          <5>3. Fits(ToSet(all))
            BY <5>1, <5>2, FitsRows
          <5>4. ToSet(dk[p].rows) \cup LogRows(Append(w, r), p) \subseteq ToSet(all)
            BY <1>1, <3>1, <3>2, <4>1, <5>1
          <5> QED BY <5>3, <5>4, FitsLess
        <4>2. CASE r.page # p
          <5>1. LogRows(Append(w, r), p) = LogRows(w, p)
            BY <3>1, <4>2
          <5> QED BY <1>1, <5>1, FitsLess DEF PagesOK, Matches
        <4> QED BY <4>1, <4>2
      <3> QED BY <1>1, <3>3, MatchesBack DEF PagesOK
    <2>3. PagesOK(n, own, i, dk, dk, Append(w, r))
      BY <2>2 DEF PagesOK
    <2>4. /\ DOMAIN Append(w, r) = 1 .. Len(w) + 1 /\ Append(w, r)[Len(w) + 1] = r
          /\ \A j \in 1 .. Len(w) : Append(w, r)[j] = w[j]
      BY <2>1, SeqExtends
    <2>5. ASSUME NEW j \in DOMAIN Append(w, r)
          PROVE  RecOK(own, i, dk, dk, Append(w, r)[j], j <= k, j <= 0)
      <3>1. CASE j \in 1 .. Len(w)
        BY <1>4, <1>5, <2>4, <3>1 DEF LogOK
      <3>2. CASE j = Len(w) + 1
        <4>1. ~(j <= k) /\ ~(j <= 0)
          BY <1>4, <3>2
        <4> QED BY <1>6, <2>1, <2>4, <3>2, <4>1 DEF RecOK
      <3> QED BY <1>4, <2>4, <3>1, <3>2
    <2> QED BY <2>3, <2>5 DEF LogOK
  <1> QED BY <1>3, <1>5, <1>6

\* A page is linked.
LEMMA LinkStep ==
    ASSUME NEW n \in Nat, n >= ROOT_PAGES, NEW own, NEW b, NEW dk, NEW vw,
           NEW w \in Seq(Recs(n)), NEW k, NEW r \in LinkRecs(n), own[r.page] = r.chat,
           PagesOK(n, own, b, dk, vw, w), LogOK(own, b, dk, vw, w, k, Len(w))
    PROVE  /\ PagesOK(n, own, b, dk, vw, Append(w, r))
           /\ LogOK(own, b, dk, vw, Append(w, r), k, Len(Append(w, r)))
  <1>1. r.ty = "link" /\ r \in Recs(n)
    BY DEF LinkRecs, Recs
  <1>2. ASSUME NEW p PROVE LogRows(Append(w, r), p) = LogRows(w, p)
    <2>1. r \in Recs(n) /\ w \in Seq(Recs(n))
      BY <1>1
    <2>2. LogRows(Append(w, r), p) =
              LogRows(w, p) \cup IF r.ty = "insert" /\ r.page = p THEN {r.msg} ELSE {}
      BY ONLY <2>1, LogRowsGrow
    <2> QED BY <1>1, <2>2
  <1>3. PagesOK(n, own, b, dk, vw, Append(w, r))
    BY <1>2 DEF PagesOK
  <1>4. /\ Len(w) \in Nat /\ DOMAIN w = 1 .. Len(w)
        /\ DOMAIN Append(w, r) = 1 .. Len(w) + 1 /\ Append(w, r)[Len(w) + 1] = r
        /\ \A j \in 1 .. Len(w) : Append(w, r)[j] = w[j]
    BY <1>1, SeqExtends
  <1>5. ASSUME NEW j \in DOMAIN Append(w, r), NEW x, NEW y, j <= Len(w) => (x <=> j <= k) /\ y = TRUE
        PROVE  RecOK(own, b, dk, vw, Append(w, r)[j], x, y)
    <2>1. CASE j \in 1 .. Len(w)
      <3>1. RecOK(own, b, dk, vw, w[j], j <= k, j <= Len(w)) /\ j <= Len(w)
        BY <1>4, <2>1 DEF LogOK
      <3> QED BY <1>4, <1>5, <2>1, <3>1 DEF RecOK
    <2>2. CASE j = Len(w) + 1
      BY <1>1, <1>4, <2>2 DEF RecOK
    <2> QED BY <1>4, <2>1, <2>2
  <1>6. ASSUME NEW j \in DOMAIN Append(w, r)
        PROVE  RecOK(own, b, dk, vw, Append(w, r)[j], j <= k, j <= Len(Append(w, r)))
    <2>1. j <= Len(Append(w, r))
      OBVIOUS
    <2> QED BY <1>5, <2>1
  <1> QED BY <1>3, <1>6 DEF LogOK

\* A new message gets into the page of its chat, and perhaps into the log.
Puts(n, own, b, vw, v2, id, m, r) ==
    /\ id \in New(n) /\ m = [id |-> b + 1, body |-> b + 1]
    /\ r \in InsertRecs(n) /\ r.page = id /\ r.msg = m /\ own[id] = r.chat
    /\ v2 \in Heap(n) /\ v2[id].rows = Append(vw[id].rows, m) /\ PageOf(own[id], v2[id])
    /\ \A p \in Ids(n) : p # id => v2[p] = vw[p]

LEMMA PlaceStep ==
    ASSUME NEW n \in Nat, n >= ROOT_PAGES, NEW own, NEW b \in Nat, NEW dk, NEW vw,
           NEW w \in Seq(Recs(n)), NEW k \in Nat, k <= Len(w), NEW v2, NEW id, NEW m, NEW r,
           Puts(n, own, b, vw, v2, id, m, r), NEW w2, w2 \in {w, Append(w, r)},
           PagesOK(n, own, b, dk, vw, w), LogOK(own, b, dk, vw, w, k, Len(w))
    PROVE  PagesOK(n, own, b + 1, dk, v2, w2) /\ LogOK(own, b + 1, dk, v2, w2, k, Len(w2))
  <1>0. /\ id \in New(n) /\ m = [id |-> b + 1, body |-> b + 1]
        /\ r \in InsertRecs(n) /\ r.page = id /\ r.msg = m /\ own[id] = r.chat
        /\ v2 \in Heap(n) /\ v2[id].rows = Append(vw[id].rows, m) /\ PageOf(own[id], v2[id])
        /\ \A p \in Ids(n) : p # id => v2[p] = vw[p]
    BY DEF Puts
  <1>1. /\ r.ty = "insert" /\ r \in Recs(n) /\ 0 \in Ids(n) /\ 0 # id /\ New(n) \subseteq Ids(n)
        /\ b + 1 \in Nat /\ b <= b + 1
    BY <1>0, IdFacts DEF InsertRecs, Recs
  <1>2. /\ Msgs(b) \subseteq Msgs(b + 1) /\ m \in Msgs(b + 1) /\ m \notin Msgs(b)
        /\ Msgs(b + 1) \subseteq Message
    <2>1. b + 1 <= b + 1
      BY <1>0, <1>1
    <2>2. Msgs(b + 1) \subseteq Message
      BY <1>0, <1>1, <2>1, MsgsFacts
    <2>3. /\ Msgs(b) \subseteq Msgs(b + 1)
          /\ [id |-> b + 1, body |-> b + 1] \in Msgs(b + 1)
          /\ [id |-> b + 1, body |-> b + 1] \notin Msgs(b)
      BY ONLY b \in Nat, <1>1, MsgsFacts
    <2> QED BY <1>0, <2>2, <2>3
  <1>3. \A p \in New(n) : /\ vw[p].rows \in Seq(Message) /\ dk[p].rows \in Seq(Message)
                          /\ v2[p].rows \in Seq(Message) /\ ToSet(vw[p].rows) \subseteq Msgs(b)
    BY <1>0, PageRows DEF PagesOK, Matches
  <1>4. ToSet(v2[id].rows) = ToSet(vw[id].rows) \cup {m} /\ m \notin ToSet(vw[id].rows)
    BY <1>0, <1>2, <1>3, RowsGrow
  <1>5. \A p \in New(n) : ToSet(vw[p].rows) \subseteq ToSet(v2[p].rows)
    BY <1>0, <1>1, <1>4
  <1>6. ASSUME NEW p PROVE LogRows(w2, p) \subseteq LogRows(w, p) \cup IF p = id THEN {m} ELSE {}
    <2>1. LogRows(Append(w, r), p) =
              LogRows(w, p) \cup IF r.ty = "insert" /\ r.page = p THEN {r.msg} ELSE {}
      BY <1>0, <1>1, LogRowsGrow
    <2> QED BY <1>0, <2>1
  <1>7. \A p : LogRows(w, p) \subseteq ToSet(vw[p].rows)
    BY <1>0, LogInPool
  <1>8. ASSUME NEW p \in New(n) PROVE Matches(own[p], b + 1, dk[p], v2[p], LogRows(w2, p))
    <2>1. LogRows(w2, p) \subseteq ToSet(v2[p].rows)
      BY <1>0, <1>4, <1>5, <1>6, <1>7
    <2>2. Fits(ToSet(v2[p].rows) \cup LogRows(w2, p))
      BY <1>0, <2>1, FitsPool
    <2>3. Matches(own[p], b, dk[p], vw[p], LogRows(w, p))
      BY <1>0 DEF PagesOK
    <2>4. CASE p = id
      <3>1. /\ dk[p].rows \in Seq(Message) /\ vw[p].rows \in Seq(Message)
            /\ m \in Msgs(b + 1) /\ m \notin ToSet(vw[p].rows)
            /\ v2[p].rows = Append(vw[p].rows, m) /\ PageOf(own[p], v2[p])
        BY ONLY <1>0, <1>2, <1>3, <1>4, <2>4, p \in New(n)
      <3> QED BY ONLY b \in Nat, <1>1, <2>2, <2>3, <3>1, MatchesAppend
    <2>5. CASE p # id
      <3>1. v2[p] = vw[p]
        BY <1>0, <1>1, <2>5
      <3> QED BY <1>0, <1>2, <2>2, <2>3, <3>1 DEF Matches
    <2> QED BY <1>0, <2>4, <2>5
  <1>9. PagesOK(n, own, b + 1, dk, v2, w2)
    BY <1>0, <1>1, <1>8 DEF PagesOK
  <1>10. /\ Len(w) \in Nat /\ DOMAIN w = 1 .. Len(w)
         /\ DOMAIN Append(w, r) = 1 .. Len(w) + 1 /\ Append(w, r)[Len(w) + 1] = r
         /\ \A j \in 1 .. Len(w) : Append(w, r)[j] = w[j]
    BY <1>0, <1>1, SeqExtends
  <1>11. ASSUME NEW j \in 1 .. Len(w), NEW y PROVE RecOK(own, b + 1, dk, v2, w[j], j <= k, y)
    <2>1. RecOK(own, b, dk, vw, w[j], j <= k, j <= Len(w)) /\ j <= Len(w) /\ w[j] \in Recs(n)
      BY <1>0, <1>10 DEF LogOK
    <2>2. w[j].page \in New(n)
      BY <1>0, <2>1 DEF RecOK, Recs, LinkRecs, InsertRecs, TrimRecs
    <2> QED BY <1>0, <1>2, <1>5, <2>1, <2>2 DEF RecOK
  <1>12. ASSUME NEW y PROVE RecOK(own, b + 1, dk, v2, r, Len(w) + 1 <= k, y)
    <2>1. ~(Len(w) + 1 <= k)
      BY <1>0, <1>10
    <2> QED BY <1>0, <1>1, <1>2, <1>4, <2>1 DEF RecOK
  <1>13. ASSUME NEW j \in DOMAIN w2 PROVE RecOK(own, b + 1, dk, v2, w2[j], j <= k, j <= Len(w2))
    <2>1. CASE w2 = w
      BY <1>0, <1>10, <1>11, <2>1
    <2>2. CASE w2 = Append(w, r)
      <3>1. CASE j \in 1 .. Len(w)
        BY <1>0, <1>10, <1>11, <2>2, <3>1
      <3>2. CASE j = Len(w) + 1
        <4>1. w2[j] = r /\ j = Len(w) + 1
          BY <1>0, <1>10, <2>2, <3>2
        <4> QED BY <1>0, <1>12, <4>1
      <3> QED BY <1>0, <1>10, <2>2, <3>1, <3>2
    <2> QED BY <1>0, <2>1, <2>2
  <1> QED BY <1>0, <1>9, <1>13 DEF LogOK

LEMMA RecPages ==
    ASSUME NEW n \in Nat, NEW own, NEW b, NEW dk, NEW vw, NEW w \in Seq(Recs(n)), NEW k, NEW u,
           LogOK(own, b, dk, vw, w, k, u), NEW j \in DOMAIN w
    PROVE  /\ w[j].page \in New(n) /\ w[j].chat \in Chats /\ own[w[j].page] = w[j].chat
           /\ w[j] \in LinkRecs(n) \/ w[j] \in InsertRecs(n)
           /\ w[j].ty = "insert" => w[j].msg \in LogRows(w, w[j].page)
  <1>1. w[j] \in Recs(n) /\ RecOK(own, b, dk, vw, w[j], j <= k, j <= u)
    BY DEF LogOK
  <1>2. w[j].ty = "insert" => w[j].msg \in LogRows(w, w[j].page)
    BY DEF LogRows
  <1> QED BY <1>1, <1>2 DEF RecOK, Recs, LinkRecs, InsertRecs, TrimRecs

\* Replay finds a message on its page, or room for it.
LEMMA RedoRoom ==
    ASSUME NEW n \in Nat, n >= ROOT_PAGES, NEW own, NEW b \in Nat, NEW dk, NEW vw,
           NEW w, PagesOK(n, own, b, dk, vw, w), NEW id \in New(n), NEW m \in LogRows(w, id),
           m \in Msgs(b)
    PROVE  /\ m \in ToSet(vw[id].rows) <=> SlotOf(vw[id], m.id) # {}
           /\ m \notin ToSet(vw[id].rows) => HasRoom(vw[id])
  <1>1. vw[id].rows \in Seq(Message) /\ Matches(own[id], b, dk[id], vw[id], LogRows(w, id))
    BY PageRows DEF PagesOK
  <1>2. \A k \in DOMAIN vw[id].rows : vw[id].rows[k] \in Msgs(b)
    BY <1>1, RowsFacts DEF Matches
  <1>3. \A k \in DOMAIN vw[id].rows : vw[id].rows[k].id = m.id <=> vw[id].rows[k] = m
    <2>1. b <= b
      OBVIOUS
    <2> QED BY <1>2, <2>1, MsgsFacts
  <1>4. m \in ToSet(vw[id].rows) <=> SlotOf(vw[id], m.id) # {}
    BY <1>3 DEF SlotOf, ToSet
  <1>5. ASSUME m \notin ToSet(vw[id].rows) PROVE HasRoom(vw[id])
    BY <1>1, <1>5, RoomLeft DEF Matches, HasRoom
  <1> QED BY <1>4, <1>5

LEMMA RedoStep ==
    ASSUME NEW n \in Nat, n >= ROOT_PAGES, NEW own, NEW b \in Nat, NEW dk, NEW vw,
           NEW w \in Seq(Recs(n)), NEW k, NEW u \in Nat, u + 1 \in DOMAIN w, NEW v2,
           PagesOK(n, own, b, dk, vw, w), LogOK(own, b, dk, vw, w, k, u),
           NEW r, r = w[u + 1], r.ty = "insert", v2 \in Heap(n),
           v2[r.page].rows = IF r.msg \in ToSet(vw[r.page].rows) THEN vw[r.page].rows
                             ELSE Append(vw[r.page].rows, r.msg),
           PageOf(own[r.page], v2[r.page]), \A p \in Ids(n) : p # r.page => v2[p] = vw[p]
    PROVE  PagesOK(n, own, b, dk, v2, w) /\ LogOK(own, b, dk, v2, w, k, u + 1)
  <1> DEFINE id == r.page
             m == r.msg
  <1>1. /\ id \in New(n) /\ m \in LogRows(w, id) /\ 0 \in Ids(n) /\ 0 # id /\ New(n) \subseteq Ids(n)
        /\ \A j \in DOMAIN w : w[j].page \in New(n)
    <2>1. \A j \in DOMAIN w : w[j].page \in New(n)
      BY RecPages
    <2>2. r.page \in New(n) /\ r.msg \in LogRows(w, r.page)
      BY RecPages
    <2> QED BY <2>1, <2>2, IdFacts, SMTT(30)
  <1>2. m \in Msgs(b) /\ Msgs(b) \subseteq Message
    <2>1. b <= b
      OBVIOUS
    <2>2. Msgs(b) \subseteq Message
      BY <2>1, MsgsFacts
    <2>3. RecOK(own, b, dk, vw, r, u + 1 <= k, u + 1 <= u)
      BY DEF LogOK
    <2> QED BY <2>2, <2>3 DEF RecOK
  <1>3. \A p \in New(n) : /\ vw[p].rows \in Seq(Message) /\ dk[p].rows \in Seq(Message)
                          /\ Matches(own[p], b, dk[p], vw[p], LogRows(w, p))
    BY PageRows DEF PagesOK
  <1> HIDE DEF id, m
  <1>4. ToSet(v2[id].rows) = ToSet(vw[id].rows) \cup {m}
    <2>1. CASE m \in ToSet(vw[id].rows)
      BY <2>1 DEF id, m
    <2>2. CASE m \notin ToSet(vw[id].rows)
      <3>1. v2[id].rows = Append(vw[id].rows, m)
        BY <2>2 DEF id, m
      <3> QED BY <1>1, <1>2, <1>3, <3>1, RowsGrow
    <2> QED BY <2>1, <2>2
  <1>5. ASSUME NEW p \in New(n) PROVE Matches(own[p], b, dk[p], v2[p], LogRows(w, p))
    <2>1. CASE p # id
      <3>1. v2[p] = vw[p]
        BY <1>1, <2>1 DEF id
      <3> QED BY <1>3, <3>1
    <2>2. CASE p = id /\ m \in ToSet(vw[id].rows)
      <3>1. v2[p].rows = vw[p].rows /\ PageOf(own[p], v2[p])
        BY <2>2 DEF id, m
      <3> QED BY <1>3, <3>1 DEF Matches
    <2>3. CASE p = id /\ m \notin ToSet(vw[id].rows)
      <3>1. v2[p].rows = Append(vw[p].rows, m) /\ PageOf(own[p], v2[p])
        BY <2>3 DEF id, m
      <3>2. Fits(ToSet(v2[p].rows) \cup LogRows(w, p))
        <4>1. ToSet(v2[p].rows) \cup LogRows(w, p) \subseteq ToSet(vw[p].rows) \cup LogRows(w, p)
          BY <1>1, <1>4, <2>3
        <4> QED BY <1>3, <4>1, FitsLess DEF Matches
      <3>3. b <= b
        OBVIOUS
      <3> QED BY <1>2, <1>3, <2>3, <3>1, <3>2, <3>3, MatchesAppend
    <2> QED BY <2>1, <2>2, <2>3
  <1>6. PagesOK(n, own, b, dk, v2, w)
    BY <1>1, <1>5 DEF PagesOK, id
  <1>7. ASSUME NEW j \in DOMAIN w PROVE RecOK(own, b, dk, v2, w[j], j <= k, j <= u + 1)
    <2>1. RecOK(own, b, dk, vw, w[j], j <= k, j <= u)
      BY DEF LogOK
    <2>2. \A p \in New(n) : ToSet(vw[p].rows) \subseteq ToSet(v2[p].rows)
      BY <1>1, <1>4 DEF id
    <2>3. j <= u + 1 => j <= u \/ j = u + 1
      OBVIOUS
    <2>4. r.msg \in ToSet(v2[r.page].rows)
      BY <1>4 DEF id, m
    <2> QED BY <1>1, <2>1, <2>2, <2>3, <2>4 DEF RecOK
  <1> QED BY <1>6, <1>7 DEF LogOK

\* A record of a link, or one that the file covers, is redone.
LEMMA RedoOther ==
    ASSUME NEW n \in Nat, n >= ROOT_PAGES, NEW own, NEW b \in Nat, NEW dk, NEW vw,
           NEW w \in Seq(Recs(n)), NEW k \in Nat, NEW u \in Nat, u + 1 \in DOMAIN w,
           PagesOK(n, own, b, dk, vw, w), LogOK(own, b, dk, vw, w, k, u),
           w[u + 1].ty = "link" \/ u + 1 <= k
    PROVE  LogOK(own, b, dk, vw, w, k, u + 1)
  <1>1. ASSUME NEW j \in DOMAIN w PROVE RecOK(own, b, dk, vw, w[j], j <= k, j <= u + 1)
    <2>1. RecOK(own, b, dk, vw, w[j], j <= k, j <= u)
      BY DEF LogOK
    <2>2. j <= u + 1 => j <= u \/ j = u + 1
      OBVIOUS
    <2>3. w[j].page \in New(n)
      BY RecPages
    <2>4. ToSet(dk[w[j].page].rows) \subseteq ToSet(vw[w[j].page].rows)
      <3>1. /\ vw[w[j].page].rows \in Seq(Message) /\ dk[w[j].page].rows \in Seq(Message)
            /\ Begins(dk[w[j].page].rows, vw[w[j].page].rows)
        BY <2>3, PageRows DEF PagesOK, Matches
      <3> QED BY <3>1, BeginsFacts
    <2> QED BY <2>1, <2>2, <2>4 DEF RecOK
  <1> QED BY <1>1 DEF LogOK

\* A page is added to the file.
Extends(n, own, o2, dk, d2, vw, v2) ==
    /\ d2 \in Heap(n + 1) /\ v2 \in Heap(n + 1) /\ \A p \in New(n) : o2[p] = own[p]
    /\ \A p \in Ids(n) : d2[p] = dk[p] /\ v2[p] = vw[p]
    /\ PageOf(o2[n], d2[n]) /\ PageOf(o2[n], v2[n]) /\ d2[n].rows = <<>> /\ v2[n].rows = <<>>

LEMMA AllocStep ==
    ASSUME NEW n \in Nat, n >= ROOT_PAGES, NEW own, NEW o2, NEW b \in Nat, NEW i \in Nat, b <= i,
           NEW dk, NEW vw, NEW d2, NEW v2, NEW w \in Seq(Recs(n)), NEW k, NEW u,
           PagesOK(n, own, b, dk, vw, w), LogOK(own, b, dk, vw, w, k, u),
           Extends(n, own, o2, dk, d2, vw, v2)
    PROVE  PagesOK(n + 1, o2, i, d2, v2, w) /\ LogOK(o2, i, d2, v2, w, k, u)
  <1>0. /\ d2 \in Heap(n + 1) /\ v2 \in Heap(n + 1) /\ \A p \in New(n) : o2[p] = own[p]
        /\ \A p \in Ids(n) : d2[p] = dk[p] /\ v2[p] = vw[p]
        /\ PageOf(o2[n], d2[n]) /\ PageOf(o2[n], v2[n])
        /\ d2[n].rows = <<>> /\ v2[n].rows = <<>>
    BY DEF Extends
  <1>1. /\ 0 \in Ids(n) /\ New(n) \subseteq Ids(n) /\ New(n + 1) = New(n) \cup {n} /\ n \notin New(n)
        /\ n + 1 \in Nat /\ n + 1 >= ROOT_PAGES
    BY IdFacts
  <1>2. Msgs(b) \subseteq Msgs(i)
    BY MsgsFacts
  <1>3. \A j \in DOMAIN w : w[j].page \in New(n)
    BY RecPages
  <1>4. LogRows(w, n) = {}
    BY <1>1, <1>3 DEF LogRows
  <1>5. ASSUME NEW p \in New(n + 1) PROVE Matches(o2[p], i, d2[p], v2[p], LogRows(w, p))
    <2>1. CASE p \in New(n)
      BY <1>0, <1>1, <1>2, <2>1 DEF PagesOK, Matches
    <2>2. CASE p = n
      <3>1. ToSet(<<>>) = {} /\ Distinct(<<>>) /\ Begins(<<>>, <<>>)
        BY DEF ToSet, Distinct, Begins
      <3>2. Fits({})
        <4>1. <<>> \in Seq(Message) /\ Len(<<>>) <= PageCap
          BY CapFacts
        <4> QED BY <3>1, <4>1, FitsRows
      <3>3. {} \cup {} = {}
        OBVIOUS
      <3> QED BY <1>0, <1>4, <2>2, <3>1, <3>2, <3>3 DEF Matches
    <2> QED BY <1>1, <2>1, <2>2
  <1>6. PagesOK(n + 1, o2, i, d2, v2, w)
    BY <1>0, <1>1, <1>5 DEF PagesOK
  <1>7. LogOK(o2, i, d2, v2, w, k, u)
    BY <1>0, <1>1, <1>2, <1>3 DEF LogOK, RecOK
  <1> QED BY <1>6, <1>7

\* The log is rotated.
LEMMA RotateStep ==
    ASSUME NEW n \in Nat, n >= ROOT_PAGES, NEW own, NEW b, NEW dk, NEW vw, NEW w, NEW u,
           PagesOK(n, own, b, dk, vw, w)
    PROVE  PagesOK(n, own, b, dk, vw, <<>>) /\ LogOK(own, b, dk, vw, <<>>, 0, u)
  <1>1. \A p : LogRows(<<>>, p) = {}
    BY DEF LogRows
  <1>2. ASSUME NEW p \in New(n) PROVE Matches(own[p], b, dk[p], vw[p], LogRows(<<>>, p))
    <2>1. ToSet(vw[p].rows) \cup LogRows(<<>>, p) \subseteq ToSet(vw[p].rows) \cup LogRows(w, p)
      BY <1>1
    <2> QED BY <2>1, FitsLess DEF PagesOK, Matches
  <1>3. PagesOK(n, own, b, dk, vw, <<>>)
    BY <1>2 DEF PagesOK
  <1>4. LogOK(own, b, dk, vw, <<>>, 0, u)
    BY DEF LogOK
  <1> QED BY <1>3, <1>4

-----------------------------------------------------------------------------
(* The acknowledged messages, lg, are in the file or in the log behind what *)
(* the file covers, and the index leads to them.                            *)

Pending(w, k, c, m) ==
    \E j \in DOMAIN w : j > k /\ w[j].ty = "insert" /\ w[j].chat = c /\ w[j].msg = m
OnFile(n, dk, c, m) == \E p \in New(n) : dk[p].at32 = c /\ m \in ToSet(dk[p].rows)
LogsKept(n, b, dk, w, k, lg) ==
    /\ lg \in [Chats -> Seq(Message)]
    /\ \A c \in Chats : \A m \in ToSet(lg[c]) :
          m \in Msgs(b) /\ (OnFile(n, dk, c, m) \/ Pending(w, k, c, m))

Leads(n, idx, heap) ==
    \A key \in Keys(idx) :
        LET loc == UnpackLoc(idx.at[key])
        IN  /\ loc.page \in New(n) /\ loc.slot + 1 \in DOMAIN heap[loc.page].rows
            /\ heap[loc.page].rows[loc.slot + 1].id = key[2]
Covers(idx, lg, w, k) ==
    \A c \in Chats : \A m \in ToSet(lg[c]) : <<c, m.id>> \in Keys(idx) \/ Pending(w, k, c, m)

LEMMA PendingGrows ==
    ASSUME NEW T, NEW w \in Seq(T), NEW r \in T, NEW k \in Nat, NEW c, NEW m
    PROVE  /\ Pending(w, k, c, m) => Pending(Append(w, r), k, c, m)
           /\ k <= Len(w) /\ r.ty = "insert" /\ r.chat = c /\ r.msg = m =>
                  Pending(Append(w, r), k, c, m)
  <1>1. /\ Len(w) \in Nat /\ DOMAIN w = 1 .. Len(w)
        /\ DOMAIN Append(w, r) = 1 .. Len(w) + 1 /\ Append(w, r)[Len(w) + 1] = r
        /\ \A j \in 1 .. Len(w) : Append(w, r)[j] = w[j]
    BY SeqExtends
  <1>2. Pending(w, k, c, m) => Pending(Append(w, r), k, c, m)
    BY <1>1 DEF Pending
  <1>3. ASSUME k <= Len(w), r.ty = "insert", r.chat = c, r.msg = m
        PROVE  Pending(Append(w, r), k, c, m)
    <2>1. Len(w) + 1 \in DOMAIN Append(w, r) /\ Len(w) + 1 > k
      BY <1>1, <1>3
    <2> QED BY <1>1, <1>3, <2>1 DEF Pending
  <1> QED BY <1>2, <1>3

\* More pages, more in the file
LEMMA KeptFile ==
    ASSUME NEW n, NEW n2, New(n) \subseteq New(n2), NEW b \in Nat, NEW i \in Nat, b <= i,
           NEW dk, NEW d2, NEW w, NEW k, NEW lg, LogsKept(n, b, dk, w, k, lg), Filed(n, dk, d2)
    PROVE  LogsKept(n2, i, d2, w, k, lg)
  <1>1. Msgs(b) \subseteq Msgs(i)
    BY MsgsFacts
  <1>2. \A c, m : OnFile(n, dk, c, m) => OnFile(n2, d2, c, m)
    BY DEF OnFile, Filed
  <1> QED BY <1>1, <1>2 DEF LogsKept

\* More in the log
LEMMA KeptLogs ==
    ASSUME NEW n, NEW b, NEW dk, NEW T, NEW w \in Seq(T), NEW r \in T, NEW k \in Nat, NEW lg,
           LogsKept(n, b, dk, w, k, lg)
    PROVE  LogsKept(n, b, dk, Append(w, r), k, lg)
  <1>1. \A c, m : Pending(w, k, c, m) => Pending(Append(w, r), k, c, m)
    BY PendingGrows
  <1> QED BY <1>1 DEF LogsKept

LEMMA CoversLogs ==
    ASSUME NEW idx, NEW T, NEW w \in Seq(T), NEW r \in T, NEW k \in Nat, NEW lg,
           Covers(idx, lg, w, k)
    PROVE  Covers(idx, lg, Append(w, r), k)
  <1>1. \A c, m : Pending(w, k, c, m) => Pending(Append(w, r), k, c, m)
    BY PendingGrows
  <1> QED BY <1>1 DEF Covers

\* A message is acknowledged.
Acked(lg, c, m) == [lg EXCEPT ![c] = Append(@, m)]

OnlyAdds(lg, l2, c, m) ==
    /\ l2 \in [Chats -> Seq(Message)]
    /\ \A d \in Chats : \A x \in ToSet(l2[d]) : x \in ToSet(lg[d]) \/ (d = c /\ x = m)

LEMMA AckGrows ==
    ASSUME NEW lg \in [Chats -> Seq(Message)], NEW c \in Chats, NEW m \in Message, NEW l2,
           l2 = Acked(lg, c, m)
    PROVE  OnlyAdds(lg, l2, c, m)
  <1>1. Append(lg[c], m) \in Seq(Message) /\ ToSet(Append(lg[c], m)) = ToSet(lg[c]) \cup {m}
    BY RowsGrow
  <1>2. \A d \in Chats : l2[d] = IF d = c THEN Append(lg[c], m) ELSE lg[d]
    BY DEF Acked
  <1>3. l2 \in [Chats -> Seq(Message)]
    BY <1>1, <1>2 DEF Acked
  <1>4. \A d \in Chats : \A x \in ToSet(l2[d]) : x \in ToSet(lg[d]) \/ (d = c /\ x = m)
    BY <1>1, <1>2
  <1> QED BY <1>3, <1>4 DEF OnlyAdds

LEMMA KeptNew ==
    ASSUME NEW n, NEW b \in Nat, NEW i \in Nat, b <= i, NEW dk, NEW T, NEW w \in Seq(T),
           NEW r \in T, NEW k \in Nat, k <= Len(w), NEW lg, LogsKept(n, b, dk, w, k, lg),
           NEW c \in Chats, NEW m \in Msgs(i), r.ty = "insert", r.chat = c, r.msg = m, NEW l2,
           l2 = Acked(lg, c, m)
    PROVE  LogsKept(n, i, dk, Append(w, r), k, l2)
  <1>1. Msgs(b) \subseteq Msgs(i) /\ m \in Message
    <2>1. i <= i
      OBVIOUS
    <2> QED BY <2>1, MsgsFacts
  <1>2. lg \in [Chats -> Seq(Message)]
    BY DEF LogsKept
  <1>3. /\ l2 \in [Chats -> Seq(Message)]
        /\ \A d \in Chats : \A x \in ToSet(l2[d]) : x \in ToSet(lg[d]) \/ (d = c /\ x = m)
    <2>1. OnlyAdds(lg, l2, c, m)
      BY <1>1, <1>2, AckGrows
    <2> QED BY <2>1 DEF OnlyAdds
  <1>4. \A d, x : Pending(w, k, d, x) => Pending(Append(w, r), k, d, x)
    BY PendingGrows
  <1>5. Pending(Append(w, r), k, c, m)
    BY PendingGrows
  <1> QED BY <1>1, <1>3, <1>4, <1>5 DEF LogsKept

LEMMA CoversNew ==
    ASSUME NEW idx, NEW T, NEW w \in Seq(T), NEW r \in T, NEW k \in Nat, k <= Len(w),
           NEW lg \in [Chats -> Seq(Message)], Covers(idx, lg, w, k),
           NEW c \in Chats, NEW m \in Message, r.ty = "insert", r.chat = c, r.msg = m, NEW l2,
           l2 = Acked(lg, c, m)
    PROVE  Covers(idx, l2, Append(w, r), k)
  <1>1. \A d \in Chats : \A x \in ToSet(l2[d]) : x \in ToSet(lg[d]) \/ (d = c /\ x = m)
    <2>1. OnlyAdds(lg, l2, c, m)
      BY AckGrows
    <2> QED BY <2>1 DEF OnlyAdds
  <1>2. \A d, x : Pending(w, k, d, x) => Pending(Append(w, r), k, d, x)
    BY PendingGrows
  <1>3. Pending(Append(w, r), k, c, m)
    BY PendingGrows
  <1> QED BY <1>1, <1>2, <1>3 DEF Covers

\* A checkpoint has written what is pending.
LEMMA KeptCovered ==
    ASSUME NEW n \in Nat, n >= ROOT_PAGES, NEW own, NEW b, NEW dk, NEW w \in Seq(Recs(n)), NEW k,
           NEW k2, NEW w2, NEW i, NEW lg,
           PagesOK(n, own, b, dk, dk, w), LogOK(own, b, dk, dk, w, k, Len(w)),
           LogsKept(n, b, dk, w, i, lg)
    PROVE  LogsKept(n, b, dk, w2, k2, lg) /\ LogOK(own, b, dk, dk, w, Len(w), Len(w))
  <1>1. ASSUME NEW c, NEW m, Pending(w, i, c, m) PROVE OnFile(n, dk, c, m)
    <2>1. PICK j \in DOMAIN w : w[j].ty = "insert" /\ w[j].chat = c /\ w[j].msg = m
      BY <1>1 DEF Pending
    <2> DEFINE p == w[j].page
    <2>2. p \in New(n) /\ own[p] = c
      BY <2>1, RecPages
    <2>3. m \in ToSet(dk[p].rows)
      <3>1. j <= Len(w)
        OBVIOUS
      <3> QED BY <2>1, <3>1 DEF LogOK, RecOK
    <2> HIDE DEF p
    <2>4. dk[p].rows # <<>>
      <3>1. dk[p].rows \in Seq(Message)
        BY <2>2, PageRows DEF PagesOK
      <3> QED BY <2>3, <3>1, RowsFacts
    <2>5. dk[p].at32 = c
      BY <2>2, <2>4 DEF PagesOK, Matches, PageOf
    <2> QED BY <2>2, <2>3, <2>5 DEF OnFile
  <1>2. LogsKept(n, b, dk, w2, k2, lg)
    BY <1>1 DEF LogsKept
  <1>3. LogOK(own, b, dk, dk, w, Len(w), Len(w))
    <2>1. \A j \in DOMAIN w : j <= Len(w)
      OBVIOUS
    <2> QED BY <2>1 DEF LogOK, RecOK
  <1> QED BY <1>2, <1>3

LEMMA LeadsGrow ==
    ASSUME NEW n, NEW n2, New(n) \subseteq New(n2), NEW idx, NEW heap, NEW h2,
           Leads(n, idx, heap),
           \A p \in New(n) : /\ heap[p].rows \in Seq(Message) /\ h2[p].rows \in Seq(Message)
                             /\ Begins(heap[p].rows, h2[p].rows)
    PROVE  Leads(n2, idx, h2)
  <1> SUFFICES ASSUME NEW key \in Keys(idx)
               PROVE  LET loc == UnpackLoc(idx.at[key])
                      IN  /\ loc.page \in New(n2) /\ loc.slot + 1 \in DOMAIN h2[loc.page].rows
                          /\ h2[loc.page].rows[loc.slot + 1].id = key[2]
    BY DEF Leads
  <1> DEFINE p == UnpackLoc(idx.at[key]).page
             i == UnpackLoc(idx.at[key]).slot + 1
  <1>1. p \in New(n) /\ i \in DOMAIN heap[p].rows /\ heap[p].rows[i].id = key[2]
    BY DEF Leads
  <1> HIDE DEF p, i
  <1>2. /\ DOMAIN heap[p].rows \subseteq DOMAIN h2[p].rows
        /\ \A k \in DOMAIN heap[p].rows : heap[p].rows[k] = h2[p].rows[k]
    BY <1>1, BeginsFacts
  <1>3. p \in New(n2) /\ i \in DOMAIN h2[p].rows /\ h2[p].rows[i].id = key[2]
    BY <1>1, <1>2
  <1> QED BY <1>3 DEF p, i

\* A message gets a place in the index.
LEMMA LeadsSet ==
    ASSUME NEW n \in Nat, n >= ROOT_PAGES, NEW idx \in Index(n), NEW heap, Leads(n, idx, heap),
           NEW c \in Owners, NEW id \in Nat, NEW page \in New(n), NEW slot \in 0 .. PageCap - 1,
           slot + 1 \in DOMAIN heap[page].rows, heap[page].rows[slot + 1].id = id
    PROVE  /\ Leads(n, SetLoc(idx, c, id, page, slot), heap)
           /\ Keys(SetLoc(idx, c, id, page, slot)) = Keys(idx) \cup {<<c, id>>}
  <1> DEFINE j == SetLoc(idx, c, id, page, slot)
  <1>1. /\ j \in Index(n) /\ Keys(j) = Keys(idx) \cup {<<c, id>>}
        /\ UnpackLoc(j.at[<<c, id>>]) = [page |-> page, slot |-> slot]
        /\ \A k \in Keys(idx) : k # <<c, id>> => j.at[k] = idx.at[k]
    BY SetLocTyped
  <1> HIDE DEF j
  <1>2. ASSUME NEW key \in Keys(j)
        PROVE  LET loc == UnpackLoc(j.at[key])
               IN  /\ loc.page \in New(n) /\ loc.slot + 1 \in DOMAIN heap[loc.page].rows
                   /\ heap[loc.page].rows[loc.slot + 1].id = key[2]
    <2>1. CASE key = <<c, id>>
      <3>1. /\ UnpackLoc(j.at[key]).page = page /\ UnpackLoc(j.at[key]).slot = slot
            /\ key[2] = id
        BY <1>1, <2>1
      <3> QED BY <3>1
    <2>2. CASE key # <<c, id>>
      <3>1. key \in Keys(idx) /\ j.at[key] = idx.at[key]
        BY <1>1, <2>2
      <3> QED BY <3>1 DEF Leads
    <2> QED BY <2>1, <2>2
  <1> QED BY <1>1, <1>2 DEF Leads, j

\* One record more is behind.
LEMMA CoversRedo ==
    ASSUME NEW idx, NEW lg, NEW w, NEW u \in Nat, \A j \in DOMAIN w : j \in Nat,
           Covers(idx, lg, w, u), NEW i2, Keys(idx) \subseteq Keys(i2),
           u + 1 \in DOMAIN w,
           w[u + 1].ty = "insert" => <<w[u + 1].chat, w[u + 1].msg.id>> \in Keys(i2)
    PROVE  Covers(i2, lg, w, u + 1)
  <1> SUFFICES ASSUME NEW c \in Chats, NEW m \in ToSet(lg[c]), <<c, m.id>> \notin Keys(i2)
               PROVE  Pending(w, u + 1, c, m)
    BY DEF Covers
  <1>1. PICK j \in DOMAIN w : j > u /\ w[j].ty = "insert" /\ w[j].chat = c /\ w[j].msg = m
    BY DEF Covers, Pending
  <1>2. j # u + 1 /\ j \in Nat
    BY <1>1
  <1>3. j > u + 1
    BY <1>1, <1>2
  <1> QED BY <1>1, <1>3 DEF Pending

\* The index that open builds from the pages
LEMMA HeapLeads ==
    ASSUME NEW n \in Nat, n >= ROOT_PAGES, NEW own, NEW b, NEW dk, NEW vw, NEW w, NEW k, NEW lg,
           PagesOK(n, own, b, dk, vw, w), LogsKept(n, b, dk, w, k, lg)
    PROVE  Leads(n, IndexFromHeap(dk), dk) /\ Covers(IndexFromHeap(dk), lg, w, k)
  <1> DEFINE idx == IndexFromHeap(dk)
  <1>1. dk \in Heap(n)
    BY DEF PagesOK
  <1>2. /\ idx \in Index(n)
        /\ \A key \in Keys(idx) :
              LET loc == UnpackLoc(idx.at[key])
              IN  /\ loc.slot + 1 \in DOMAIN dk[loc.page].rows
                  /\ <<dk[loc.page].at32, dk[loc.page].rows[loc.slot + 1].id>> = key
        /\ \A p \in New(n), i \in Nat :
              dk[p].ty = "chat" /\ i \in DOMAIN dk[p].rows =>
                  <<dk[p].at32, dk[p].rows[i].id>> \in Keys(idx)
    BY <1>1, IndexFromHeapTyped
  <1> HIDE DEF idx
  <1>3. \A key \in Keys(idx) : UnpackLoc(idx.at[key]).page \in New(n)
    <2>1. idx.at \in Partial(Owners \X Nat, Places16(n))
      BY <1>2 DEF Index
    <2>2. \A key \in Keys(idx) : idx.at[key] \in Places16(n)
      BY <2>1, PartialFacts DEF Keys
    <2> QED BY <2>2, PlaceFacts
  <1>4. Leads(n, idx, dk)
    <2> SUFFICES ASSUME NEW key \in Keys(idx)
                 PROVE  LET loc == UnpackLoc(idx.at[key])
                        IN  /\ loc.page \in New(n) /\ loc.slot + 1 \in DOMAIN dk[loc.page].rows
                            /\ dk[loc.page].rows[loc.slot + 1].id = key[2]
      BY DEF Leads
    <2> DEFINE loc == UnpackLoc(idx.at[key])
               chat == dk[loc.page].at32
               id == dk[loc.page].rows[loc.slot + 1].id
    <2>1. loc.page \in New(n)
      BY <1>3
    <2>2. loc.slot + 1 \in DOMAIN dk[loc.page].rows /\ <<chat, id>> = key
      BY <1>2
    <2> HIDE DEF loc, chat, id
    <2>3. id = key[2]
      BY ONLY <2>2
    <2> QED BY <2>1, <2>2, <2>3 DEF loc, id
  <1>5. ASSUME NEW c \in Chats, NEW m \in ToSet(lg[c]), OnFile(n, dk, c, m)
        PROVE  <<c, m.id>> \in Keys(idx)
    <2>1. PICK p \in New(n) : dk[p].at32 = c /\ m \in ToSet(dk[p].rows)
      BY <1>5 DEF OnFile
    <2>2. dk[p].rows \in Seq(Message) /\ dk[p].ty = "chat"
      BY <1>1, PageRows DEF PagesOK, Matches, PageOf
    <2>3. PICK i \in DOMAIN dk[p].rows : dk[p].rows[i] = m
      BY <2>1, <2>2, RowsFacts
    <2>4. i \in Nat
      BY <2>2
    <2> QED BY <1>2, <2>1, <2>2, <2>3, <2>4
  <1>6. Covers(idx, lg, w, k)
    BY <1>5 DEF Covers, LogsKept
  <1> QED BY <1>4, <1>6 DEF idx

-----------------------------------------------------------------------------
(* The invariant behind AckedReadable.  When an append has begun, its       *)
(* message is not yet in a page; the pages in use are those of the file     *)
(* when the engine is closed; and while it serves, all of the log is in     *)
(* them.                                                                    *)

Placed(ph, i) == IF ph \in {"link", "insert"} THEN i - 1 ELSE i
View(ph, dk, m) == IF ph = "closed" THEN dk ELSE m
Upto(ph, w, rp) == IF ph \in {"closed", "replay"} THEN rp ELSE Len(w)
Later(u, k) == IF u > k THEN u ELSE k

Contents(n, own, b, dk, vw, w, k, u, lg) ==
    /\ own \in [New(n) -> Chats]
    /\ PagesOK(n, own, b, dk, vw, w) /\ LogOK(own, b, dk, vw, w, k, u)
    /\ LogsKept(n, b, dk, w, k, lg)

CallOwn(own, ph, cl, m, i) ==
    /\ ph \in {"link", "insert"} =>
          own[cl.page] = cl.chat /\ i > 0 /\ cl.msg = [id |-> i, body |-> i]
    /\ ph = "insert" => m[cl.page].at32 = cl.chat
TipsOwn(t, m) == \A c \in DOMAIN t : c # 0 => m[t[c].tail].at32 = c

Live(n, idx, m, lg, w, k, u) == Leads(n, idx, m) /\ Covers(idx, lg, w, Later(u, k))

\* The snapshot, when the next open may use it
Snapped(n, ph, sn, dk, m, lg, w, k) ==
    /\ sn.aligned \/ ph = "snapped" => Leads(n, LoadIndex(sn.entries), dk)
    /\ sn.aligned => Covers(LoadIndex(sn.entries), lg, w, k)
    /\ ph = "snapped" => Covers(LoadIndex(sn.entries), lg, w, Len(w))
    /\ ph \in {"flushed", "snapped", "persisted"} => dk = m
    /\ ph = "persisted" => k = Len(w)

Carried(n, own) ==
    /\ Contents(n, own, Placed(phase, did.appends), disk, View(phase, disk, mem), wal, covered,
                Upto(phase, wal, replayed), log)
    /\ CallOwn(own, phase, call, mem, did.appends) /\ TipsOwn(tips, mem)
    /\ phase # "closed" =>
          Live(n, index, mem, log, wal, covered, Upto(phase, wal, replayed))
    /\ Snapped(n, phase, snap, disk, mem, log, wal, covered)
Carries == \E n \in Nat : n >= ROOT_PAGES /\ \E own : Carried(n, own)

\* Clients never use an id twice in a chat, and never trim.
Untrimmed == \A s \in Setups : s.trims = 0 /\ s.ids = {}

\* The number of pages that the two invariants speak of is the same.
LEMMA SameSize ==
    ASSUME Typed, Carries
    PROVE  \E n \in Nat : /\ n >= ROOT_PAGES /\ Sized(n) /\ \E own : Carried(n, own)
                          /\ did.appends \in Nat /\ setup \in Setups /\ Len(wal) \in Nat
                          /\ covered \in 0 .. Len(wal) /\ replayed \in 0 .. Len(wal)
                          /\ phase # "replay" => replayed = 0
  <1>1. PICK n \in Nat : n >= ROOT_PAGES /\ \E own : Carried(n, own)
    BY DEF Carries
  <1>2. PICK k : Sized(k)
    BY DEF Typed
  <1>3. disk \in Heap(n)
    BY <1>1 DEF Carried, Contents, PagesOK
  <1>4. k \in Nat /\ k >= ROOT_PAGES /\ disk \in Heap(k)
    BY <1>2 DEF Sized, Space
  <1>5. SizePages(disk) = n /\ SizePages(disk) = k
    <2>1. DOMAIN disk = Ids(n) /\ DOMAIN disk = Ids(k)
      BY <1>1, <1>3, <1>4, HeapFacts
    <2>2. SizePages(disk) = n
      BY <1>1, <2>1, SizeOf
    <2>3. SizePages(disk) = k
      BY <1>4, <2>1, SizeOf
    <2> QED BY <2>2, <2>3
  <1>6. Sized(n)
    BY <1>2, <1>5
  <1>7. did.appends \in Nat
    BY DEF Typed, CountsOK, Bounded
  <1>8. Len(wal) \in Nat
    BY <1>6 DEF Sized, Files
  <1> QED BY <1>1, <1>6, <1>7, <1>8 DEF Typed, CountsOK

\* The same of an engine that runs
Works(n, own) ==
    /\ n >= ROOT_PAGES /\ E \in Engine(n) /\ CallOK(n, phase, call, mem, tips)
    /\ wal \in Seq(Recs(n)) /\ SnapOK(n, snap)
    /\ mem \in Heap(n) /\ disk \in Heap(n) /\ tips \in Tips(n) /\ index \in Index(n)
    /\ Contents(n, own, Placed(phase, did.appends), disk, mem, wal, covered,
                Upto(phase, wal, replayed), log)
    /\ CallOwn(own, phase, call, mem, did.appends) /\ TipsOwn(tips, mem)
    /\ Live(n, index, mem, log, wal, covered, Upto(phase, wal, replayed))
    /\ Snapped(n, phase, snap, disk, mem, log, wal, covered)
    /\ did.appends \in Nat /\ setup \in Setups /\ Len(wal) \in Nat
    /\ covered \in 0 .. Len(wal) /\ replayed \in 0 .. Len(wal)
    /\ phase # "replay" => replayed = 0

LEMMA Working ==
    ASSUME Typed, Carries, phase # "closed"
    PROVE  \E n \in Nat : \E own : Works(n, own)
  <1>1. PICK n \in Nat : /\ n >= ROOT_PAGES /\ Sized(n) /\ \E own : Carried(n, own)
                         /\ did.appends \in Nat /\ setup \in Setups /\ Len(wal) \in Nat
                         /\ covered \in 0 .. Len(wal) /\ replayed \in 0 .. Len(wal)
                         /\ phase # "replay" => replayed = 0
    BY SameSize
  <1>2. PICK own : Carried(n, own)
    BY <1>1
  <1>3. E \in Engine(n) /\ CallOK(n, phase, call, mem, tips) /\ wal \in Seq(Recs(n)) /\ SnapOK(n, snap)
    BY <1>1 DEF Sized, Space, Files
  <1>4. mem \in Heap(n) /\ disk \in Heap(n) /\ tips \in Tips(n) /\ index \in Index(n)
    BY <1>3, EngineNow
  <1>5. View(phase, disk, mem) = mem
    BY DEF View
  <1> QED BY <1>1, <1>2, <1>3, <1>4, <1>5 DEF Carried, Works

LEMMA NextCarries ==
    ASSUME NEW n \in Nat, n >= ROOT_PAGES, NEW own, NEW b, NEW u, phase' # "closed",
           b = Placed(phase', did'.appends), u = Upto(phase', wal', replayed'),
           Contents(n, own, b, disk', mem', wal', covered', u, log'),
           CallOwn(own, phase', call', mem', did'.appends), TipsOwn(tips', mem'),
           Live(n, index', mem', log', wal', covered', u),
           Snapped(n, phase', snap', disk', mem', log', wal', covered')
    PROVE  Carries'
  <1>1. View(phase', disk', mem') = mem'
    BY DEF View
  <1>2. Carried(n, own)'
    BY <1>1 DEF Carried
  <1> QED BY <1>2 DEF Carries

LEMMA NextClosed ==
    ASSUME NEW n \in Nat, n >= ROOT_PAGES, NEW own, Gone,
           Contents(n, own, did'.appends, disk', disk', wal', covered', 0, log'),
           snap'.aligned => /\ Leads(n, LoadIndex(snap'.entries), disk')
                            /\ Covers(LoadIndex(snap'.entries), log', wal', covered')
    PROVE  Carries'
  <1>1. phase' = "closed" /\ tips' = <<>> /\ replayed' = 0
    BY DEF Gone
  <1>2. /\ Placed(phase', did'.appends) = did'.appends
        /\ View(phase', disk', mem') = disk' /\ Upto(phase', wal', replayed') = 0
    BY <1>1 DEF Placed, View, Upto
  <1>3. CallOwn(own, phase', call', mem', did'.appends)
    BY <1>1 DEF CallOwn
  <1>4. TipsOwn(tips', mem')
    BY <1>1 DEF TipsOwn
  <1>5. Snapped(n, phase', snap', disk', mem', log', wal', covered')
    BY <1>1 DEF Snapped
  <1>6. Carried(n, own)'
    BY <1>1, <1>2, <1>3, <1>4, <1>5 DEF Carried
  <1> QED BY <1>6 DEF Carries

\* Rows are only added.
Grows(n, heap, h2) ==
    \A p \in New(n) : /\ heap[p].rows \in Seq(Message) /\ h2[p].rows \in Seq(Message)
                      /\ Begins(heap[p].rows, h2[p].rows)

LEMMA GrowsLeads ==
    ASSUME NEW n, NEW k, New(n) \subseteq New(k), NEW idx, NEW heap, NEW h2,
           Leads(n, idx, heap), Grows(n, heap, h2)
    PROVE  Leads(k, idx, h2)
  BY LeadsGrow DEF Grows

LEMMA SameGrows ==
    ASSUME NEW n \in Nat, n >= ROOT_PAGES, NEW heap \in Heap(n), NEW h2,
           \A p \in New(n) : h2[p].rows = heap[p].rows
    PROVE  Grows(n, heap, h2)
  <1>1. \A p \in New(n) : heap[p].rows \in Seq(Message)
    BY PageRows
  <1> QED BY <1>1, BeginsItself DEF Grows

LEMMA OneGrows ==
    ASSUME NEW n \in Nat, n >= ROOT_PAGES, NEW heap \in Heap(n), NEW h2, NEW id \in New(n),
           NEW m \in Message, h2[id].rows \in {heap[id].rows, Append(heap[id].rows, m)},
           \A p \in New(n) : p # id => h2[p].rows = heap[p].rows
    PROVE  Grows(n, heap, h2)
  <1>1. \A p \in New(n) : heap[p].rows \in Seq(Message)
    BY PageRows
  <1>2. ASSUME NEW p \in New(n)
        PROVE  h2[p].rows \in Seq(Message) /\ Begins(heap[p].rows, h2[p].rows)
    <2>1. heap[p].rows \in Seq(Message)
      BY <1>1
    <2>2. CASE h2[p].rows = heap[p].rows
      BY <2>1, <2>2, BeginsItself
    <2>3. CASE h2[p].rows # heap[p].rows
      <3>1. h2[p].rows = Append(heap[p].rows, m)
        BY <2>3
      <3> QED BY <2>1, <3>1, RowsGrow
    <2> QED BY <2>2, <2>3
  <1> QED BY <1>1, <1>2 DEF Grows

\* When nothing is pending, it does not matter what is in the log.
LEMMA CoversFull ==
    ASSUME NEW idx, NEW lg, NEW T, NEW w \in Seq(T), Covers(idx, lg, w, Len(w)), NEW w2, NEW k
    PROVE  Covers(idx, lg, w2, k)
  <1>1. \A j \in DOMAIN w : ~(j > Len(w))
    OBVIOUS
  <1> QED BY <1>1 DEF Covers, Pending

LEMMA LaterFacts ==
    ASSUME NEW u \in Nat, NEW k \in Nat
    PROVE  (k <= u => Later(u, k) = u) /\ (u <= k => Later(u, k) = k) /\ Later(u, k) \in Nat
  BY DEF Later

\* The snapshot stays what it is.
LEMMA SnapKept ==
    ASSUME NEW n, NEW n2, New(n) \subseteq New(n2), NEW ph, NEW ph2, NEW sn, NEW dk, NEW d2,
           NEW m, NEW m2, NEW lg, NEW l2, NEW w, NEW w2, NEW k,
           Snapped(n, ph, sn, dk, m, lg, w, k), ph2 \notin {"flushed", "snapped", "persisted"},
           Grows(n, dk, d2), \A idx : Covers(idx, lg, w, k) => Covers(idx, l2, w2, k)
    PROVE  /\ Snapped(n2, ph2, sn, d2, m2, l2, w2, k)
           /\ sn.aligned => /\ Leads(n2, LoadIndex(sn.entries), d2)
                            /\ Covers(LoadIndex(sn.entries), l2, w2, k)
  <1> DEFINE idx == LoadIndex(sn.entries)
  <1>1. sn.aligned => Leads(n2, idx, d2)
    <2>1. sn.aligned => Leads(n, idx, dk)
      BY DEF Snapped
    <2> HIDE DEF idx
    <2> QED BY <2>1, GrowsLeads
  <1>2. sn.aligned => Covers(idx, l2, w2, k)
    BY DEF Snapped
  <1> QED BY <1>1, <1>2 DEF Snapped

-----------------------------------------------------------------------------
(* One lemma per action: opening, the buffer pool, checkpoints, the ends. *)

LEMMA InitCarries == Init => Carries
  <1> SUFFICES ASSUME Init PROVE Carries
    OBVIOUS
  <1> DEFINE n == ROOT_PAGES
             own == [p \in New(n) |-> 0]
             heap == EmptyHeap
  <1>1. n \in Nat /\ n >= ROOT_PAGES /\ heap \in Heap(n) /\ New(n) = {} /\ heap[0].at32 = 0
    BY EmptyEngine DEF New, ROOT_PAGES, EmptyHeap, Alloc, Super
  <1>2. own \in [New(n) -> Chats]
    BY <1>1
  <1>3. /\ disk = heap /\ mem = heap /\ wal = <<>> /\ covered = 0 /\ replayed = 0
        /\ phase = "closed" /\ tips = <<>> /\ snap.aligned = FALSE /\ did.appends = 0
        /\ log = [c \in Chats |-> <<>>]
    BY DEF Init, NoView, NoSnap, Bounded
  <1> HIDE DEF n, own, heap
  <1>4. PagesOK(n, own, 0, heap, heap, <<>>)
    BY <1>1 DEF PagesOK
  <1>5. LogOK(own, 0, heap, heap, <<>>, 0, 0)
    BY DEF LogOK
  <1>6. LogsKept(n, 0, heap, <<>>, 0, log)
    BY <1>3 DEF LogsKept, ToSet
  <1>7. Carried(n, own)
    <2>1. Contents(n, own, 0, heap, heap, <<>>, 0, 0, log)
      BY <1>2, <1>4, <1>5, <1>6 DEF Contents
    <2>2. /\ Placed(phase, did.appends) = 0 /\ View(phase, disk, mem) = heap
          /\ Upto(phase, wal, replayed) = 0
      BY <1>3 DEF Placed, View, Upto
    <2>3. CallOwn(own, phase, call, mem, did.appends) /\ TipsOwn(tips, mem)
      BY <1>3 DEF CallOwn, TipsOwn
    <2>4. Snapped(n, phase, snap, disk, mem, log, wal, covered)
      BY <1>3 DEF Snapped
    <2> QED BY <1>3, <2>1, <2>2, <2>3, <2>4 DEF Carried
  <1> QED BY <1>1, <1>7 DEF Carries

LEMMA OpenCarries == ASSUME Typed, Carries, Open PROVE Carries'
  <1>1. PICK n \in Nat : /\ n >= ROOT_PAGES /\ Sized(n) /\ \E own : Carried(n, own)
                         /\ did.appends \in Nat /\ setup \in Setups /\ Len(wal) \in Nat
                         /\ covered \in 0 .. Len(wal) /\ replayed \in 0 .. Len(wal)
                         /\ phase # "replay" => replayed = 0
    BY SameSize
  <1>2. PICK own : Carried(n, own)
    BY <1>1
  <1>3. /\ phase = "closed" /\ phase' = "replay" /\ mem' = Relink(disk) /\ tips' = TipsOf(disk)
        /\ index' = IF snap.aligned /\ snap.entries # {} THEN LoadIndex(snap.entries)
                    ELSE IndexFromHeap(disk)
        /\ disk' = disk /\ wal' = wal /\ covered' = covered /\ snap' = snap /\ log' = log
        /\ did' = did /\ replayed' = replayed /\ call' = call
    BY DEF Open, dirVars, pastVars
  <1> DEFINE b == did.appends
             v2 == Relink(disk)
  <1>4. /\ Placed(phase, did.appends) = b /\ Placed(phase', did'.appends) = b
        /\ View(phase, disk, mem) = disk /\ replayed = 0
        /\ Upto(phase, wal, replayed) = 0 /\ Upto(phase', wal', replayed') = 0
    BY <1>1, <1>3 DEF Placed, View, Upto
  <1>5. Contents(n, own, b, disk, disk, wal, covered, 0, log)
    BY <1>2, <1>4 DEF Carried
  <1>6. /\ disk \in Heap(n) /\ wal \in Seq(Recs(n)) /\ PagesOK(n, own, b, disk, disk, wal)
        /\ LogOK(own, b, disk, disk, wal, covered, 0) /\ LogsKept(n, b, disk, wal, covered, log)
    BY <1>1, <1>5 DEF Contents, PagesOK, Sized, Files
  <1>7. /\ v2 \in Heap(n) /\ v2[0] = disk[0]
        /\ \A p \in New(n) : /\ v2[p].rows = disk[p].rows /\ v2[p].at32 = disk[p].at32
                             /\ v2[p].ty = disk[p].ty
    BY <1>1, <1>6, RelinkTyped
  <1> HIDE DEF v2, b
  <1>8. Contents(n, own, b, disk, v2, wal, covered, 0, log)
    <2>1. \A p \in New(n) : v2[p].rows = disk[p].rows /\ PageOf(own[p], v2[p])
      BY <1>6, <1>7 DEF PagesOK, Matches, PageOf
    <2>2. InPages(n, wal)
      BY <1>6, RecPages DEF InPages
    <2>3. v2[0].at32 = 0 /\ b <= b /\ b \in Nat
      BY <1>1, <1>6, <1>7 DEF PagesOK, b
    <2>4. PagesOK(n, own, b, disk, v2, wal) /\ LogOK(own, b, disk, v2, wal, covered, 0)
      <3>1. /\ n \in Nat /\ n >= ROOT_PAGES /\ PagesOK(n, own, b, disk, disk, wal)
            /\ LogOK(own, b, disk, disk, wal, covered, 0) /\ SameRows(n, own, disk, v2)
        BY <1>1, <1>6, <1>7, <2>1, <2>3 DEF SameRows
      <3> QED BY ONLY <2>2, <2>3, <3>1, ViewStep
    <2> QED BY <1>5, <2>4 DEF Contents
  <1>9. CallOwn(own, phase', call', mem', did'.appends)
    BY <1>3 DEF CallOwn
  <1>10. TipsOwn(tips', mem')
    <2>1. ASSUME NEW c \in DOMAIN TipsOf(disk) PROVE v2[TipsOf(disk)[c].tail].at32 = c
      <3>1. TipsOf(disk)[c].tail \in ChatPagesOf(disk, c)
        BY <1>1, <1>6, TipsOfTyped
      <3>2. TipsOf(disk)[c].tail \in New(n) /\ disk[TipsOf(disk)[c].tail].at32 = c
        BY <1>1, <1>6, <3>1, HeapFacts, IdFacts DEF ChatPagesOf, Super
      <3> QED BY <1>7, <3>2
    <2> QED BY <1>3, <2>1 DEF TipsOwn, v2
  <1>11. Leads(n, index', disk) /\ Covers(index', log, wal, covered)
    <2>1. CASE snap.aligned /\ snap.entries # {}
      <3>1. index' = LoadIndex(snap.entries)
        BY <1>3, <2>1
      <3>2. Snapped(n, phase, snap, disk, mem, log, wal, covered)
        BY <1>2 DEF Carried
      <3> QED BY <2>1, <3>1, <3>2 DEF Snapped
    <2>2. CASE ~(snap.aligned /\ snap.entries # {})
      <3>1. index' = IndexFromHeap(disk)
        BY <1>3, <2>2
      <3> QED BY <1>1, <1>6, <3>1, HeapLeads
    <2> QED BY <2>1, <2>2
  <1>12. Grows(n, disk, v2)
    BY <1>1, <1>6, <1>7, SameGrows
  <1>13. Live(n, index', mem', log', wal', covered', 0)
    <2>1. Leads(n, index', v2)
      BY <1>11, <1>12, GrowsLeads
    <2>2. Later(0, covered) = covered
      BY <1>1 DEF Later
    <2> QED BY <1>3, <1>11, <2>1, <2>2 DEF Live, v2
  <1>14. Snapped(n, phase', snap', disk', mem', log', wal', covered')
    BY <1>2, <1>3 DEF Snapped, Carried
  <1>15. Contents(n, own, b, disk', mem', wal', covered', 0, log')
    BY <1>3, <1>8 DEF v2
  <1>16. phase' # "closed"
    BY <1>3
  <1> QED BY <1>1, <1>4, <1>9, <1>10, <1>13, <1>14, <1>15, <1>16, NextCarries

\* Steps that leave all of this alone, but for the phase
LEMMA PhaseCarries ==
    ASSUME Typed, Carries, phase # "closed", phase' # "closed",
           phase' \in {"replay", "open"}, phase \in {"replay", "open"},
           disk' = disk, mem' = mem, wal' = wal, covered' = covered, snap' = snap, tips' = tips,
           index' = index, log' = log, call' = call, did' = did,
           Upto(phase', wal', replayed') = Upto(phase, wal, replayed)
    PROVE  Carries'
  <1>1. PICK n \in Nat : \E own : Works(n, own)
    BY Working
  <1>2. PICK own : Works(n, own)
    BY <1>1
  <1>3. Placed(phase', did'.appends) = Placed(phase, did.appends)
    BY DEF Placed
  <1>4. CallOwn(own, phase', call', mem', did'.appends)
    BY DEF CallOwn
  <1>5. Snapped(n, phase', snap', disk', mem', log', wal', covered')
    BY <1>2 DEF Snapped, Works
  <1> QED BY <1>2, <1>3, <1>4, <1>5, NextCarries DEF Works

LEMMA OpenedCarries == ASSUME Typed, Carries, Opened PROVE Carries'
  <1>1. /\ disk' = disk /\ mem' = mem /\ wal' = wal /\ covered' = covered /\ snap' = snap
        /\ tips' = tips /\ index' = index /\ log' = log /\ call' = call /\ did' = did
        /\ phase = "replay" /\ phase' = "open" /\ replayed = Len(wal) /\ replayed' = 0
    BY DEF Opened, dirVars, pastVars
  <1>2. Upto(phase', wal', replayed') = Upto(phase, wal, replayed)
    BY <1>1 DEF Upto
  <1> QED BY <1>1, <1>2, PhaseCarries

LEMMA RecentCarries ==
    ASSUME Typed, Carries, NEW c \in Chats, NEW want \in Wants, Recent(c, want) PROVE Carries'
  <1>1. /\ disk' = disk /\ mem' = mem /\ wal' = wal /\ covered' = covered /\ snap' = snap
        /\ tips' = tips /\ index' = index /\ log' = log /\ call' = call /\ did' = did
        /\ phase = "open" /\ phase' = phase
    BY DEF Recent, dirVars, pastVars
  <1>2. Upto(phase', wal', replayed') = Upto(phase, wal, replayed)
    BY <1>1 DEF Upto
  <1> QED BY <1>1, <1>2, PhaseCarries

LEMMA EvictCarries ==
    ASSUME Typed, Carries, NEW id \in DOMAIN mem, Evict(id) PROVE Carries'
  <1>1. /\ disk' = [disk EXCEPT ![id] = mem[id]] /\ mem' = mem /\ wal' = wal /\ covered' = covered
        /\ snap' = snap /\ tips' = tips /\ index' = index /\ log' = log /\ call' = call
        /\ phase \in {"replay", "open", "link", "insert"} /\ phase' = phase
        /\ replayed' = replayed /\ Does("evicts")
    BY DEF Evict, viewVars
  <1>2. PICK n \in Nat : \E own : Works(n, own)
    BY <1>1, Working
  <1>3. PICK own : Works(n, own)
    BY <1>2
  <1> DEFINE b == Placed(phase, did.appends)
             u == Upto(phase, wal, replayed)
             d2 == [disk EXCEPT ![id] = mem[id]]
  <1>4. did'.appends = did.appends
    BY <1>1 DEF Does, Typed, CountsOK, Bounded
  <1>5. /\ n >= ROOT_PAGES /\ mem \in Heap(n) /\ disk \in Heap(n) /\ wal \in Seq(Recs(n))
        /\ own \in [New(n) -> Chats] /\ PagesOK(n, own, b, disk, mem, wal)
        /\ LogOK(own, b, disk, mem, wal, covered, u) /\ LogsKept(n, b, disk, wal, covered, log)
        /\ did.appends \in Nat
    BY <1>3 DEF Works, Contents
  <1>6. b \in Nat
    BY <1>3 DEF Works, Placed, CallOwn
  <1>7. /\ d2 \in Heap(n) /\ \A p \in Ids(n) : d2[p] = disk[p] \/ d2[p] = mem[p]
    <2>1. DOMAIN disk = Ids(n) /\ DOMAIN mem = Ids(n) /\ disk \in [Ids(n) -> PageSet(n)]
          /\ mem \in [Ids(n) -> PageSet(n)] /\ 0 \in Ids(n) /\ New(n) \subseteq Ids(n)
      BY <1>5, HeapFacts, IdFacts
    <2>2. \A p \in Ids(n) : d2[p] = IF p = id THEN mem[p] ELSE disk[p]
      BY <2>1
    <2>3. d2 \in [Ids(n) -> PageSet(n)]
      BY <2>1
    <2> HIDE DEF d2
    <2>4. d2[0].at32 \in Ids(n) /\ \A p \in New(n) : d2[p].at32 \in Owners
      BY <1>5, <2>1, <2>2, HeapFacts
    <2>5. d2 \in Heap(n)
      BY <1>5, <2>3, <2>4, IsHeap
    <2> QED BY <2>2, <2>5
  <1> HIDE DEF d2, b, u
  <1>8. InPages(n, wal)
    BY <1>5, RecPages DEF InPages
  <1>9. /\ PagesOK(n, own, b, d2, mem, wal) /\ LogOK(own, b, d2, mem, wal, covered, u)
        /\ Filed(n, disk, d2)
    BY ONLY n \in Nat, <1>5, <1>7, <1>8, FileStep
  <1>10. LogsKept(n, b, d2, wal, covered, log)
    <2>1. New(n) \subseteq New(n) /\ b <= b
      BY <1>6
    <2> QED BY <1>5, <1>6, <1>9, <2>1, KeptFile
  <1>11. Grows(n, disk, d2)
    BY <1>5, <1>7, <1>9, PageRows DEF Grows, Filed
  <1>12. Snapped(n, phase, snap, d2, mem, log, wal, covered)
    <2>1. Snapped(n, phase, snap, disk, mem, log, wal, covered)
      BY <1>3 DEF Works
    <2> QED BY <1>1, <1>11, <2>1, SnapKept
  <1>13. Contents(n, own, b, d2, mem, wal, covered, u, log)
    BY <1>5, <1>9, <1>10 DEF Contents
  <1>14. b = Placed(phase', did'.appends) /\ u = Upto(phase', wal', replayed') /\ phase' # "closed"
    BY <1>1, <1>4 DEF b, u
  <1>15. /\ CallOwn(own, phase, call, mem, did.appends) /\ TipsOwn(tips, mem)
         /\ Live(n, index, mem, log, wal, covered, u)
    BY <1>3 DEF Works, u
  <1>16. disk' = d2
    BY <1>1 DEF d2
  <1> QED BY <1>1, <1>4, <1>5, <1>12, <1>13, <1>14, <1>15, <1>16, NextCarries

\* The pool gets into the file.
LEMMA Flushing ==
    ASSUME NEW n \in Nat, NEW own, Works(n, own), phase = "open"
    PROVE  /\ Contents(n, own, did.appends, mem, mem, wal, covered, Len(wal), log)
           /\ Grows(n, disk, mem)
  <1> DEFINE b == did.appends
  <1>1. Placed(phase, did.appends) = b /\ Upto(phase, wal, replayed) = Len(wal) /\ b \in Nat
    BY DEF Placed, Upto, Works
  <1> HIDE DEF b
  <1>2. /\ n >= ROOT_PAGES /\ mem \in Heap(n) /\ disk \in Heap(n) /\ wal \in Seq(Recs(n))
        /\ own \in [New(n) -> Chats] /\ PagesOK(n, own, b, disk, mem, wal)
        /\ LogOK(own, b, disk, mem, wal, covered, Len(wal))
        /\ LogsKept(n, b, disk, wal, covered, log)
    BY <1>1 DEF Works, Contents
  <1>3. InPages(n, wal)
    BY <1>2, RecPages DEF InPages
  <1>4. /\ PagesOK(n, own, b, mem, mem, wal) /\ LogOK(own, b, mem, mem, wal, covered, Len(wal))
        /\ Filed(n, disk, mem)
    <2>1. \A p \in Ids(n) : mem[p] = disk[p] \/ mem[p] = mem[p]
      OBVIOUS
    <2> QED BY ONLY n \in Nat, <1>2, <1>3, <2>1, FileStep
  <1>5. LogsKept(n, b, mem, wal, covered, log)
    <2>1. New(n) \subseteq New(n) /\ b <= b
      BY <1>1
    <2> QED BY ONLY <1>1, <1>2, <1>4, <2>1, KeptFile
  <1>6. Grows(n, disk, mem)
    BY <1>2, <1>4, PageRows DEF Grows, Filed
  <1> QED BY <1>2, <1>4, <1>5, <1>6 DEF Contents, b

LEMMA CkptFlushCarries == ASSUME Typed, Carries, CkptFlush PROVE Carries'
  <1>1. /\ disk' = mem /\ mem' = mem /\ wal' = wal /\ covered' = covered
        /\ snap' = snap /\ tips' = tips /\ index' = index /\ log' = log /\ call' = call
        /\ phase = "open" /\ phase' = "flushed" /\ replayed' = replayed /\ Does("ckpts")
    BY DEF CkptFlush, viewVars, Flushed
  <1>2. PICK n \in Nat : \E own : Works(n, own)
    BY <1>1, Working
  <1>3. PICK own : Works(n, own)
    BY <1>2
  <1>4. did'.appends = did.appends
    BY <1>1 DEF Does, Typed, CountsOK, Bounded
  <1>5. /\ Contents(n, own, did.appends, mem, mem, wal, covered, Len(wal), log)
        /\ Grows(n, disk, mem)
    BY <1>1, <1>3, Flushing
  <1>6. /\ TipsOwn(tips, mem) /\ Live(n, index, mem, log, wal, covered, Len(wal))
        /\ Snapped(n, phase, snap, disk, mem, log, wal, covered) /\ n >= ROOT_PAGES
    BY <1>1, <1>3 DEF Works, Upto
  <1>7. /\ did.appends = Placed(phase', did'.appends) /\ Len(wal) = Upto(phase', wal', replayed')
        /\ phase' # "closed"
    BY <1>1, <1>4 DEF Placed, Upto
  <1>8. CallOwn(own, phase', call', mem', did'.appends)
    BY <1>1 DEF CallOwn
  <1>9. Snapped(n, phase', snap', disk', mem', log', wal', covered')
    <2>1. "open" \notin {"flushed", "snapped", "persisted"} /\ New(n) \subseteq New(n)
          /\ \A idx : Covers(idx, log, wal, covered) => Covers(idx, log, wal, covered)
      OBVIOUS
    <2>2. /\ Snapped(n, "open", snap, mem, mem, log, wal, covered)
          /\ snap.aligned => /\ Leads(n, LoadIndex(snap.entries), mem)
                             /\ Covers(LoadIndex(snap.entries), log, wal, covered)
      BY ONLY <1>5, <1>6, <2>1, SnapKept
    <2> QED BY <1>1, <2>2 DEF Snapped
  <1> QED BY <1>1, <1>5, <1>6, <1>7, <1>8, <1>9, NextCarries

\* A checkpoint under way: the file has what the pool has.
LEMMA Checkpointing ==
    ASSUME NEW n \in Nat, NEW own, Works(n, own), phase \in {"flushed", "snapped", "persisted"}
    PROVE  /\ Contents(n, own, did.appends, mem, mem, wal, covered, Len(wal), log)
           /\ disk = mem /\ TipsOwn(tips, mem) /\ Leads(n, index, mem)
           /\ Covers(index, log, wal, Len(wal)) /\ n >= ROOT_PAGES
           /\ Snapped(n, phase, snap, mem, mem, log, wal, covered)
  <1>1. /\ Placed(phase, did.appends) = did.appends
        /\ Upto(phase, wal, replayed) = Len(wal)
    BY DEF Placed, Upto
  <1>2. disk = mem
    BY DEF Works, Snapped
  <1>3. Later(Len(wal), covered) = Len(wal)
    BY LaterFacts DEF Works
  <1> QED BY <1>1, <1>2, <1>3 DEF Works, Live

LEMMA CkptSnapshotCarries == ASSUME Typed, Carries, CkptSnapshot PROVE Carries'
  <1>1. /\ disk' = disk /\ mem' = mem /\ wal' = wal /\ covered' = covered
        /\ tips' = tips /\ index' = index /\ log' = log /\ call' = call /\ did' = did
        /\ phase = "flushed" /\ phase' = "snapped" /\ replayed' = replayed
        /\ snap' = [aligned |-> FALSE, entries |-> SaveIndex(index)]
    BY DEF CkptSnapshot, viewVars, pastVars
  <1>2. PICK n \in Nat : \E own : Works(n, own)
    BY <1>1, Working
  <1>3. PICK own : Works(n, own)
    BY <1>2
  <1>4. /\ Contents(n, own, did.appends, mem, mem, wal, covered, Len(wal), log)
        /\ disk = mem /\ TipsOwn(tips, mem) /\ Leads(n, index, mem)
        /\ Covers(index, log, wal, Len(wal)) /\ n >= ROOT_PAGES
    BY <1>1, <1>3, Checkpointing
  <1>5. Live(n, index, mem, log, wal, covered, Len(wal))
    BY <1>1, <1>3 DEF Works, Upto
  <1>6. /\ did.appends = Placed(phase', did'.appends) /\ Len(wal) = Upto(phase', wal', replayed')
        /\ phase' # "closed"
    BY <1>1 DEF Placed, Upto
  <1>7. CallOwn(own, phase', call', mem', did'.appends)
    BY <1>1 DEF CallOwn
  <1>8. LoadIndex(SaveIndex(index)) = index
    BY <1>3, SnapshotRestores DEF Works, Index
  <1>9. Snapped(n, phase', snap', disk', mem', log', wal', covered')
    <2>1. snap'.aligned = FALSE /\ snap'.entries = SaveIndex(index)
      BY <1>1
    <2> QED BY <1>1, <1>4, <1>8, <2>1 DEF Snapped
  <1> QED BY <1>1, <1>4, <1>5, <1>6, <1>7, <1>9, NextCarries

LEMMA CkptPersistCarries == ASSUME Typed, Carries, CkptPersist PROVE Carries'
  <1>1. /\ disk' = disk /\ mem' = mem /\ wal' = wal /\ covered' = Len(wal)
        /\ tips' = tips /\ index' = index /\ log' = log /\ call' = call /\ did' = did
        /\ phase = "snapped" /\ phase' = "persisted" /\ replayed' = replayed
        /\ snap' = [snap EXCEPT !.aligned = TRUE]
    BY DEF CkptPersist, viewVars, pastVars
  <1>2. PICK n \in Nat : \E own : Works(n, own)
    BY <1>1, Working
  <1>3. PICK own : Works(n, own)
    BY <1>2
  <1> DEFINE b == did.appends
  <1>4. /\ Contents(n, own, b, mem, mem, wal, covered, Len(wal), log)
        /\ disk = mem /\ TipsOwn(tips, mem) /\ Leads(n, index, mem)
        /\ Covers(index, log, wal, Len(wal)) /\ n >= ROOT_PAGES
        /\ Snapped(n, phase, snap, mem, mem, log, wal, covered)
    BY <1>1, <1>3, Checkpointing
  <1>5. wal \in Seq(Recs(n)) /\ Len(wal) \in Nat
    BY <1>3 DEF Works
  <1> HIDE DEF b
  <1>6. Contents(n, own, b, mem, mem, wal, Len(wal), Len(wal), log)
    <2>1. /\ PagesOK(n, own, b, mem, mem, wal) /\ LogOK(own, b, mem, mem, wal, covered, Len(wal))
          /\ LogsKept(n, b, mem, wal, covered, log)
      BY <1>4 DEF Contents
    <2>2. LogsKept(n, b, mem, wal, Len(wal), log) /\ LogOK(own, b, mem, mem, wal, Len(wal), Len(wal))
      BY <1>4, <1>5, <2>1, KeptCovered
    <2> QED BY <1>4, <2>2 DEF Contents
  <1>7. Live(n, index, mem, log, wal, Len(wal), Len(wal))
    <2>1. Later(Len(wal), Len(wal)) = Len(wal)
      BY DEF Later
    <2> QED BY <1>4, <2>1 DEF Live
  <1>8. /\ b = Placed(phase', did'.appends) /\ Len(wal) = Upto(phase', wal', replayed')
        /\ phase' # "closed"
    BY <1>1 DEF Placed, Upto, b
  <1>9. CallOwn(own, phase', call', mem', did'.appends)
    BY <1>1 DEF CallOwn
  <1>10. Snapped(n, phase', snap', disk', mem', log', wal', covered')
    <2>1. snap'.entries = snap.entries
      <3> DEFINE entries == snap.entries
                 aligned == snap.aligned
      <3>1. snap = [aligned |-> aligned, entries |-> entries] /\ snap' = [snap EXCEPT !.aligned = TRUE]
        BY <1>1, <1>3 DEF Works, SnapOK
      <3> HIDE DEF entries, aligned
      <3>2. snap' = [aligned |-> TRUE, entries |-> entries]
        BY ONLY <3>1
      <3> QED BY <3>2 DEF entries
    <2>2. Leads(n, LoadIndex(snap.entries), mem) /\ Covers(LoadIndex(snap.entries), log, wal, Len(wal))
      BY <1>1, <1>4 DEF Snapped
    <2> QED BY <1>1, <1>4, <2>1, <2>2 DEF Snapped
  <1> QED BY <1>1, <1>4, <1>6, <1>7, <1>8, <1>9, <1>10, NextCarries

LEMMA CkptRotateCarries == ASSUME Typed, Carries, CkptRotate PROVE Carries'
  <1>1. /\ wal' = <<>> /\ covered' = 0 /\ disk' = disk /\ snap' = snap /\ log' = log /\ did' = did
        /\ phase = "persisted"
    BY DEF CkptRotate, pastVars
  <1>2. PICK n \in Nat : \E own : Works(n, own)
    BY <1>1, Working
  <1>3. PICK own : Works(n, own)
    BY <1>2
  <1> DEFINE b == did.appends
  <1>4. /\ Contents(n, own, b, mem, mem, wal, covered, Len(wal), log)
        /\ disk = mem /\ TipsOwn(tips, mem) /\ Leads(n, index, mem)
        /\ Covers(index, log, wal, Len(wal)) /\ n >= ROOT_PAGES
        /\ Snapped(n, phase, snap, mem, mem, log, wal, covered)
    BY <1>1, <1>3, Checkpointing
  <1>5. wal \in Seq(Recs(n)) /\ Len(wal) \in Nat /\ replayed = 0
    BY <1>1, <1>3 DEF Works
  <1> HIDE DEF b
  <1>6. \A u : Contents(n, own, b, mem, mem, <<>>, 0, u, log)
    <2> TAKE u
    <2>1. /\ PagesOK(n, own, b, mem, mem, wal) /\ LogOK(own, b, mem, mem, wal, covered, Len(wal))
          /\ LogsKept(n, b, mem, wal, covered, log)
      BY <1>4 DEF Contents
    <2>2. LogsKept(n, b, mem, <<>>, 0, log)
      BY <1>4, <1>5, <2>1, KeptCovered
    <2>3. PagesOK(n, own, b, mem, mem, <<>>) /\ LogOK(own, b, mem, mem, <<>>, 0, u)
      BY <1>4, <2>1, RotateStep
    <2> QED BY <1>4, <2>2, <2>3 DEF Contents
  <1>7. snap.aligned => /\ Leads(n, LoadIndex(snap.entries), mem)
                        /\ Covers(LoadIndex(snap.entries), log, <<>>, 0)
    <2> DEFINE idx == LoadIndex(snap.entries)
    <2>1. snap.aligned => Leads(n, idx, mem) /\ Covers(idx, log, wal, Len(wal))
      BY <1>1, <1>4 DEF Snapped
    <2> HIDE DEF idx
    <2>2. Covers(idx, log, wal, Len(wal)) => Covers(idx, log, <<>>, 0)
      BY <1>5, CoversFull
    <2> QED BY <2>1, <2>2 DEF idx
  <1>8. CASE closing
    <2>1. Gone
      BY <1>8 DEF CkptRotate
    <2>2. Contents(n, own, did'.appends, disk', disk', wal', covered', 0, log')
      BY <1>1, <1>4, <1>6 DEF b
    <2> QED BY <1>1, <1>4, <1>7, <2>1, <2>2, NextClosed
  <1>9. CASE ~closing
    <2>1. /\ phase' = "open" /\ mem' = mem /\ tips' = tips /\ index' = index
          /\ replayed' = replayed /\ call' = call
      BY <1>9 DEF CkptRotate, viewVars
    <2>2. Live(n, index, mem, log, <<>>, 0, 0)
      <3>1. Later(0, 0) = 0
        BY DEF Later
      <3>2. Covers(index, log, <<>>, 0)
        BY <1>4, <1>5, CoversFull
      <3> QED BY <1>4, <3>1, <3>2 DEF Live
    <2>3. /\ b = Placed(phase', did'.appends) /\ 0 = Upto(phase', wal', replayed')
          /\ phase' # "closed"
      BY <1>1, <2>1 DEF Placed, Upto, b
    <2>4. CallOwn(own, phase', call', mem', did'.appends)
      BY <2>1 DEF CallOwn
    <2>5. Snapped(n, phase', snap', disk', mem', log', wal', covered')
      BY <1>1, <1>4, <1>7, <2>1 DEF Snapped
    <2>6. Contents(n, own, b, disk', mem', wal', covered', 0, log')
      BY <1>1, <1>4, <1>6, <2>1
    <2> QED BY <1>1, <1>4, <2>1, <2>2, <2>3, <2>4, <2>5, <2>6, NextCarries
  <1> QED BY <1>8, <1>9

LEMMA CloseSkippedCarries == ASSUME Typed, Carries, CloseSkipped PROVE Carries'
  <1>1. /\ disk' = mem /\ wal' = wal /\ covered' = covered /\ snap' = snap /\ log' = log
        /\ did' = did /\ phase = "open" /\ Gone
    BY DEF CloseSkipped, pastVars, Flushed
  <1>2. PICK n \in Nat : \E own : Works(n, own)
    BY <1>1, Working
  <1>3. PICK own : Works(n, own)
    BY <1>2
  <1> DEFINE b == did.appends
  <1>4. /\ Contents(n, own, b, mem, mem, wal, covered, Len(wal), log)
        /\ Grows(n, disk, mem)
    BY <1>1, <1>3, Flushing
  <1>5. /\ Snapped(n, phase, snap, disk, mem, log, wal, covered) /\ n >= ROOT_PAGES /\ b \in Nat
        /\ wal \in Seq(Recs(n)) /\ covered \in Nat /\ covered <= Len(wal)
    BY <1>3 DEF Works
  <1> HIDE DEF b
  <1>6. Contents(n, own, b, mem, mem, wal, covered, 0, log)
    <2>1. /\ PagesOK(n, own, b, mem, mem, wal) /\ LogOK(own, b, mem, mem, wal, covered, Len(wal))
          /\ b <= b
      BY <1>4, <1>5 DEF Contents
    <2>2. LogOK(own, b, mem, mem, wal, covered, 0)
      BY ONLY n \in Nat, <1>5, <2>1, BackStep
    <2> QED BY <1>4, <2>2 DEF Contents
  <1>7. snap.aligned => /\ Leads(n, LoadIndex(snap.entries), mem)
                        /\ Covers(LoadIndex(snap.entries), log, wal, covered)
    <2>1. "open" \notin {"flushed", "snapped", "persisted"} /\ New(n) \subseteq New(n)
          /\ \A idx : Covers(idx, log, wal, covered) => Covers(idx, log, wal, covered)
      OBVIOUS
    <2>2. /\ Snapped(n, "open", snap, mem, mem, log, wal, covered)
          /\ snap.aligned => /\ Leads(n, LoadIndex(snap.entries), mem)
                             /\ Covers(LoadIndex(snap.entries), log, wal, covered)
      BY ONLY <1>4, <1>5, <2>1, SnapKept
    <2> QED BY <2>2
  <1>8. Contents(n, own, did'.appends, disk', disk', wal', covered', 0, log')
    BY <1>1, <1>6 DEF b
  <1> QED BY <1>1, <1>5, <1>7, <1>8, NextClosed

LEMMA CrashCarries == ASSUME Typed, Carries, Crash PROVE Carries'
  <1>1. /\ disk' = disk /\ covered' = covered /\ snap' = snap /\ Gone /\ phase # "closed"
        /\ Does("crashes")
        /\ \/ wal' = wal /\ log' = log
           \/ /\ phase = "insert"
              /\ wal' = Append(wal, InsertRec(call.chat, call.page, call.msg))
              /\ log' = Acked(log, call.chat, call.msg)
    BY DEF Crash, Acked
  <1>2. PICK n \in Nat : \E own : Works(n, own)
    BY <1>1, Working
  <1>3. PICK own : Works(n, own)
    BY <1>2
  <1>4. did'.appends = did.appends
    BY <1>1 DEF Does, Typed, CountsOK, Bounded
  <1> DEFINE b == Placed(phase, did.appends)
             u == Upto(phase, wal, replayed)
             i == did.appends
  <1>5. b \in Nat /\ i \in Nat /\ b <= i
    BY <1>3 DEF Works, Placed, CallOwn
  <1>6. /\ n >= ROOT_PAGES /\ wal \in Seq(Recs(n)) /\ covered \in Nat /\ covered <= Len(wal)
        /\ own \in [New(n) -> Chats] /\ PagesOK(n, own, b, disk, mem, wal)
        /\ LogOK(own, b, disk, mem, wal, covered, u) /\ LogsKept(n, b, disk, wal, covered, log)
        /\ Snapped(n, phase, snap, disk, mem, log, wal, covered) /\ disk \in Heap(n)
    BY <1>3 DEF Works, Contents
  <1>7. Grows(n, disk, disk)
    BY <1>6, SameGrows
  <1>8. CASE wal' = wal /\ log' = log
    <2> HIDE DEF b, u, i
    <2>1. PagesOK(n, own, i, disk, disk, wal) /\ LogOK(own, i, disk, disk, wal, covered, 0)
      BY ONLY n \in Nat, <1>5, <1>6, BackStep
    <2>2. LogsKept(n, i, disk, wal, covered, log)
      <3>1. New(n) \subseteq New(n) /\ Filed(n, disk, disk)
        BY <1>7 DEF Filed, Grows
      <3> QED BY ONLY <1>5, <1>6, <3>1, KeptFile
    <2>3. Contents(n, own, i, disk, disk, wal, covered, 0, log)
      BY <1>6, <2>1, <2>2 DEF Contents
    <2>4. Contents(n, own, did'.appends, disk', disk', wal', covered', 0, log')
      BY <1>1, <1>4, <1>8, <2>3 DEF i
    <2>5. snap.aligned => /\ Leads(n, LoadIndex(snap.entries), disk)
                          /\ Covers(LoadIndex(snap.entries), log, wal, covered)
      BY <1>6 DEF Snapped
    <2> QED BY <1>1, <1>6, <1>8, <2>4, <2>5, NextClosed
  <1>9. CASE /\ phase = "insert"
             /\ wal' = Append(wal, InsertRec(call.chat, call.page, call.msg))
             /\ log' = Acked(log, call.chat, call.msg)
    <2> DEFINE c == call.chat
               id == call.page
               m == call.msg
               r == InsertRec(c, id, m)
    <2>1. /\ c \in Chats /\ id \in New(n) /\ m \in Message /\ HasRoom(mem[id]) /\ own[id] = c
          /\ m = [id |-> i, body |-> i] /\ i > 0
      BY <1>3, <1>9 DEF Works, CallOK, CallType, CallOwn
    <2>2. /\ r.ty = "insert" /\ r.chat = c /\ r.page = id /\ r.msg = m /\ r \in InsertRecs(n)
          /\ r \in Recs(n)
      BY <2>1 DEF InsertRec, InsertRecs, Recs
    <2>3. u = Len(wal)
      BY <1>9 DEF Upto
    <2>4. m \in Msgs(i)
      BY <1>5, <2>1 DEF Msgs
    <2> HIDE DEF b, u, i, c, id, m, r
    <2>5. PagesOK(n, own, i, disk, disk, Append(wal, r)) /\ LogOK(own, i, disk, disk, Append(wal, r), covered, 0)
      <3>1. own[r.page] = r.chat /\ r.msg \in Msgs(i) /\ HasRoom(mem[r.page])
        BY <2>1, <2>2, <2>4
      <3> QED BY ONLY n \in Nat, <1>5, <1>6, <2>2, <2>3, <3>1, BackStep
    <2> DEFINE l2 == Acked(log, c, m)
    <2>6. l2 = Acked(log, c, m)
      OBVIOUS
    <2> HIDE DEF l2
    <2>7. LogsKept(n, i, disk, Append(wal, r), covered, l2)
      BY ONLY <1>5, <1>6, <2>1, <2>2, <2>4, <2>6, KeptNew
    <2>8. Contents(n, own, i, disk, disk, Append(wal, r), covered, 0, l2)
      BY <1>6, <2>5, <2>7 DEF Contents
    <2>9. \A idx : Covers(idx, log, wal, covered) => Covers(idx, l2, Append(wal, r), covered)
      <3> TAKE idx
      <3> HAVE Covers(idx, log, wal, covered)
      <3>1. log \in [Chats -> Seq(Message)]
        BY <1>6 DEF LogsKept
      <3> QED BY ONLY <1>6, <2>1, <2>2, <2>6, <3>1, Covers(idx, log, wal, covered), CoversNew
    <2>10. snap.aligned => /\ Leads(n, LoadIndex(snap.entries), disk)
                           /\ Covers(LoadIndex(snap.entries), l2, Append(wal, r), covered)
      BY <1>6, <2>9 DEF Snapped
    <2>11. Contents(n, own, did'.appends, disk', disk', wal', covered', 0, log')
      BY <1>1, <1>4, <1>9, <2>6, <2>8 DEF i, c, id, m, r
    <2>12. wal' = Append(wal, r) /\ log' = l2
      BY <1>9, <2>6 DEF c, id, m, r
    <2> QED BY <1>1, <1>6, <2>10, <2>11, <2>12, NextClosed
  <1> QED BY <1>1, <1>8, <1>9

-----------------------------------------------------------------------------
(* Replay. *)

LEMMA ReplaySkips ==
    ASSUME Typed, Carries, Replay, replayed < covered PROVE Carries'
  <1>1. /\ Becomes(E) /\ replayed' = replayed + 1 /\ phase = "replay" /\ phase' = phase
        /\ wal' = wal /\ covered' = covered /\ snap' = snap /\ log' = log /\ did' = did
        /\ call' = call /\ replayed < Len(wal)
    BY DEF Replay, pastVars
  <1>2. PICK n \in Nat : \E own : Works(n, own)
    BY <1>1, Working
  <1>3. PICK own : Works(n, own)
    BY <1>2
  <1> DEFINE b == did.appends
             u == replayed
  <1>4. Placed(phase, did.appends) = b /\ Upto(phase, wal, replayed) = u
    BY <1>1 DEF Placed, Upto
  <1>5. /\ n >= ROOT_PAGES /\ wal \in Seq(Recs(n)) /\ covered \in Nat /\ b \in Nat /\ u \in Nat
        /\ Contents(n, own, b, disk, mem, wal, covered, u, log) /\ TipsOwn(tips, mem)
        /\ Live(n, index, mem, log, wal, covered, u) /\ E \in Engine(n)
        /\ Snapped(n, phase, snap, disk, mem, log, wal, covered) /\ Len(wal) \in Nat
    BY <1>3, <1>4 DEF Works
  <1>6. u + 1 \in DOMAIN wal /\ u + 1 <= covered
    BY <1>1, <1>5
  <1> HIDE DEF b, u
  <1>7. Contents(n, own, b, disk, mem, wal, covered, u + 1, log)
    <2>1. PagesOK(n, own, b, disk, mem, wal) /\ LogOK(own, b, disk, mem, wal, covered, u)
      BY <1>5 DEF Contents
    <2>2. LogOK(own, b, disk, mem, wal, covered, u + 1)
      BY ONLY n \in Nat, <1>5, <1>6, <2>1, RedoOther
    <2> QED BY <1>5, <2>2 DEF Contents
  <1>8. Live(n, index, mem, log, wal, covered, u + 1)
    BY <1>5, <1>6 DEF Live, Later
  <1>9. mem' = mem /\ disk' = disk /\ tips' = tips /\ index' = index
    <2>1. /\ mem' = E.s.mem /\ disk' = E.s.disk /\ tips' = E.tips /\ index' = E.index
      BY <1>1, <1>5, BecomesIs
    <2>2. E.s = [mem |-> mem, disk |-> disk] /\ E.tips = tips /\ E.index = index
      BY <1>5, EngineNow
    <2> QED BY <2>1, <2>2
  <1>10. /\ b = Placed(phase', did'.appends) /\ u + 1 = Upto(phase', wal', replayed')
         /\ phase' # "closed"
    BY <1>1 DEF Placed, Upto, b, u
  <1>11. CallOwn(own, phase', call', mem', did'.appends)
    BY <1>1 DEF CallOwn
  <1> QED BY <1>1, <1>5, <1>7, <1>8, <1>9, <1>10, <1>11, NextCarries

\* The pages and the tips of an engine e are in order.
Ready(n, own, b, dk, w, k, u, e) ==
    /\ e \in Engine(n)
    /\ PagesOK(n, own, b, dk, e.s.mem, w) /\ LogOK(own, b, dk, e.s.mem, w, k, u)
    /\ TipsOwn(e.tips, e.s.mem)

\* No row is gone, and nothing is written.
NoneGone(n, e, f) == Grows(n, e.s.mem, f.s.mem) /\ f.s.disk = e.s.disk

\* A page is linked to the chat that owns it.
LinkTo(n, own, e, f, c, id, prev) ==
    /\ c \in Chats /\ id \in New(n) /\ own[id] = c /\ prev \in Ids(n)
    /\ f = ApplyLink(e, c, id, prev)
ViewLinked(n, own, b, dk, w, k, u, e, f, c, id) ==
    /\ Ready(n, own, b, dk, w, k, u, f) /\ NoneGone(n, e, f)
    /\ f.s.mem[id].at32 = c /\ f.index = e.index

LEMMA LinkView ==
    ASSUME NEW n \in Nat, n >= ROOT_PAGES, NEW own, NEW b \in Nat, NEW dk,
           NEW e, NEW w \in Seq(Recs(n)), NEW k, NEW u,
           Ready(n, own, b, dk, w, k, u, e), NEW f, NEW c, NEW id, NEW prev,
           LinkTo(n, own, e, f, c, id, prev)
    PROVE  ViewLinked(n, own, b, dk, w, k, u, e, f, c, id)
  <1> DEFINE v == e.s.mem
             v2 == f.s.mem
  <1>0. /\ e \in Engine(n) /\ PagesOK(n, own, b, dk, v, w) /\ LogOK(own, b, dk, v, w, k, u)
        /\ TipsOwn(e.tips, v)
        /\ c \in Chats /\ id \in New(n) /\ own[id] = c /\ prev \in Ids(n)
        /\ f = ApplyLink(e, c, id, prev)
    BY DEF Ready, LinkTo
  <1>1. c \in Owners /\ 0 \in Ids(n) /\ id # 0 /\ New(n) \subseteq Ids(n)
    BY <1>0, IdFacts DEF Owners
  <1>2. /\ f \in Engine(n) /\ f.s.disk = e.s.disk /\ f.index = e.index
        /\ v2[id].ty = "chat" /\ v2[id].at32 = c
        /\ \A p \in Ids(n) : /\ v2[p].rows = v[p].rows
                             /\ p # id => v2[p].ty = v[p].ty /\ v2[p].at32 = v[p].at32
        /\ DOMAIN f.tips = DOMAIN e.tips \cup {c} /\ f.tips[c].tail = id
        /\ \A d : d \in DOMAIN e.tips /\ d # c => f.tips[d] = e.tips[d]
    <2>1. /\ f \in Engine(n)
          /\ f.s.disk = e.s.disk /\ f.index = e.index /\ f.ring = e.ring
          /\ f.s.mem[id].ty = "chat" /\ f.s.mem[id].at32 = c
          /\ \A p \in Ids(n) : /\ f.s.mem[p].rows = e.s.mem[p].rows
                               /\ p # id => /\ f.s.mem[p].ty = e.s.mem[p].ty
                                            /\ f.s.mem[p].at32 = e.s.mem[p].at32
          /\ DOMAIN f.tips = DOMAIN e.tips \cup {c} /\ f.tips[c].tail = id
          /\ \A d : d \in DOMAIN e.tips /\ d # c => f.tips[d] = e.tips[d]
      BY <1>0, <1>1, LinkFacts, SMTT(30)
    <2> QED BY <2>1
  <1>3. v \in Heap(n) /\ v2 \in Heap(n) /\ e.tips \in Tips(n)
    BY <1>0, <1>2, EngineParts
  <1> HIDE DEF v, v2
  <1>4. \A p \in New(n) : PageOf(own[p], v[p])
    BY <1>0 DEF PagesOK, Matches
  <1>5. \A p \in New(n) : v2[p].rows = v[p].rows /\ PageOf(own[p], v2[p])
    BY <1>0, <1>1, <1>2, <1>4 DEF PageOf
  <1>6. v2[0].at32 = 0
    <2>1. v[0].at32 = 0
      BY <1>0 DEF PagesOK
    <2> QED BY <1>1, <1>2, <2>1
  <1>7. InPages(n, w)
    BY <1>0, RecPages DEF InPages
  <1>8. PagesOK(n, own, b, dk, v2, w) /\ LogOK(own, b, dk, v2, w, k, u)
    <2>1. PagesOK(n, own, b, dk, v, w) /\ LogOK(own, b, dk, v, w, k, u) /\ n >= ROOT_PAGES /\ b <= b
      BY <1>0
    <2>2. SameRows(n, own, v, v2)
      BY <1>3, <1>5, <1>6 DEF SameRows
    <2> QED BY ONLY n \in Nat, b \in Nat, <1>7, <2>1, <2>2, ViewStep
  <1>9. TipsOwn(f.tips, v2)
    <2> SUFFICES ASSUME NEW d \in DOMAIN f.tips, d # 0 PROVE v2[f.tips[d].tail].at32 = d
      BY DEF TipsOwn
    <2>1. CASE d = c
      BY <1>2, <2>1
    <2>2. CASE d # c
      <3>1. d \in DOMAIN e.tips /\ f.tips[d] = e.tips[d]
        BY <1>2, <2>2
      <3>2. v[e.tips[d].tail].at32 = d
        BY <1>0, <3>1 DEF TipsOwn
      <3>3. e.tips[d].tail \in New(n)
        BY <1>3, <3>1, TipFacts
      <3>4. e.tips[d].tail # id
        BY <1>0, <1>4, <2>2, <3>2, <3>3 DEF PageOf
      <3> QED BY <1>1, <1>2, <3>1, <3>2, <3>3, <3>4
    <2> QED BY <2>1, <2>2
  <1>10. Grows(n, v, v2)
    BY <1>3, <1>5, SameGrows
  <1> QED BY <1>2, <1>8, <1>9, <1>10 DEF v, v2, Ready, NoneGone, ViewLinked

\* The insert record r after the first u is applied to e and gives f.
Redone(w, u, e, r, f) ==
    /\ r = w[u + 1] /\ r.ty = "insert"
    /\ f = ApplyInsert(e, r.page, r.chat, r.msg)

\* What holds of the engine f that redid the insert record r from e.
ViewInserted(n, own, b, dk, w, k, u, e, r, f) ==
    /\ Ready(n, own, b, dk, w, k, u + 1, f) /\ NoneGone(n, e, f)
    /\ Leads(n, f.index, f.s.mem)
    /\ Keys(f.index) = Keys(e.index) \cup {<<r.chat, r.msg.id>>}

\* A message is redone: it is on its page, or has room there.
LEMMA InsertView ==
    ASSUME NEW n \in Nat, n >= ROOT_PAGES, NEW own, NEW b \in Nat, NEW dk,
           NEW e, NEW w \in Seq(Recs(n)), NEW k, NEW u \in Nat, u + 1 \in DOMAIN w,
           Ready(n, own, b, dk, w, k, u, e), Leads(n, e.index, e.s.mem),
           NEW r, NEW f, Redone(w, u, e, r, f)
    PROVE  ViewInserted(n, own, b, dk, w, k, u, e, r, f)
  <1> DEFINE v == e.s.mem
             v2 == f.s.mem
             c == r.chat
             id == r.page
             m == r.msg
             old == v[id]
  <1>0. /\ e \in Engine(n) /\ PagesOK(n, own, b, dk, v, w) /\ LogOK(own, b, dk, v, w, k, u)
        /\ TipsOwn(e.tips, v)
    BY DEF Ready
  <1>a. r = w[u + 1] /\ r.ty = "insert" /\ f = ApplyInsert(e, r.page, r.chat, r.msg)
    BY DEF Redone
  <1> USE <1>a
  <1>1. /\ id \in New(n) /\ c \in Chats /\ own[id] = c /\ m \in LogRows(w, id)
        /\ r \in InsertRecs(n) /\ m \in Message
    <2>1. /\ w[u + 1].page \in New(n) /\ w[u + 1].chat \in Chats
          /\ own[w[u + 1].page] = w[u + 1].chat
          /\ w[u + 1] \in LinkRecs(n) \/ w[u + 1] \in InsertRecs(n)
          /\ w[u + 1].ty = "insert" => w[u + 1].msg \in LogRows(w, w[u + 1].page)
      BY <1>0, RecPages
    <2>2. r \in InsertRecs(n)
      BY <2>1 DEF LinkRecs
    <2> QED BY <2>1, <2>2 DEF InsertRecs
  <1>2. m \in Msgs(b)
    <2>1. RecOK(own, b, dk, e.s.mem, w[u + 1], u + 1 <= k, u + 1 <= u)
      BY <1>0 DEF LogOK
    <2> QED BY <2>1 DEF RecOK
  <1>3. c \in Owners /\ 0 \in Ids(n) /\ id # 0 /\ New(n) \subseteq Ids(n)
    BY <1>1, IdFacts, SMTT(30) DEF Owners
  <1>4. v \in Heap(n) /\ e.tips \in Tips(n) /\ e.index \in Index(n)
    BY <1>0, EngineParts
  <1>5. Settled(n, e, f, id, c, m)
    BY <1>0, <1>1, <1>3, InsertFacts
  <1>6. /\ m \in ToSet(old.rows) <=> SlotOf(old, m.id) # {}
        /\ m \notin ToSet(old.rows) => HasRoom(old)
    <2>1. PagesOK(n, own, b, dk, v, w) /\ n >= ROOT_PAGES
      BY <1>0
    <2> HIDE DEF v, v2, c, id, m
    <2> QED BY ONLY n \in Nat, b \in Nat, <1>1, <1>2, <2>1, RedoRoom DEF old
  <1>7. Located(n, e, f, id, c, m)
    <2>1. ~(SlotOf(old, m.id) = {} /\ ~HasRoom(old))
      BY <1>6
    <2> QED BY <1>1, <1>0, <1>3, <2>1, InsertFacts
  <1>8. /\ f \in Engine(n) /\ f.s.disk = e.s.disk
        /\ \A p \in Ids(n) : p # id => v2[p] = v[p]
        /\ IF old.ty = "free" \/ old.rows = <<>>
           THEN v2[id].ty = "chat" /\ v2[id].at32 = c
           ELSE v2[id].ty = old.ty /\ v2[id].at32 = old.at32
        /\ v2[id].rows = IF SlotOf(old, m.id) = {} /\ HasRoom(old)
                         THEN Append(old.rows, m) ELSE old.rows
    BY <1>5 DEF Settled
  <1>9. v2[id].rows = IF m \in ToSet(old.rows) THEN old.rows ELSE Append(old.rows, m)
    BY <1>6, <1>8
  <1>10. v2 \in Heap(n)
    BY <1>8, EngineParts
  <1>11. \A p \in New(n) : PageOf(own[p], v[p])
    BY <1>0 DEF PagesOK, Matches
  <1>12. v2[id].ty = "chat" /\ v2[id].at32 = c /\ PageOf(own[id], v2[id])
    <2>1. PageOf(c, old)
      BY <1>1, <1>11
    <2>2. v2[id].ty = "chat" /\ v2[id].at32 = c
      BY <1>8, <2>1 DEF PageOf
    <2> QED BY <1>1, <2>2 DEF PageOf
  <1> HIDE DEF v, v2, c, id, m, old
  <1>13. PagesOK(n, own, b, dk, v2, w) /\ LogOK(own, b, dk, v2, w, k, u + 1)
    <2>1. /\ PagesOK(n, own, b, dk, v, w) /\ LogOK(own, b, dk, v, w, k, u) /\ n >= ROOT_PAGES
          /\ u + 1 \in DOMAIN w /\ r = w[u + 1] /\ r.ty = "insert"
          /\ v2[r.page].rows = IF r.msg \in ToSet(v[r.page].rows) THEN v[r.page].rows
                               ELSE Append(v[r.page].rows, r.msg)
          /\ PageOf(own[r.page], v2[r.page]) /\ \A p \in Ids(n) : p # r.page => v2[p] = v[p]
      BY <1>0, <1>8, <1>9, <1>12 DEF old, id, m
    <2> QED BY ONLY n \in Nat, b \in Nat, w \in Seq(Recs(n)), u \in Nat, <1>10, <2>1, RedoStep
  <1>14. Grows(n, v, v2)
    <2>1. /\ v2[id].rows \in {v[id].rows, Append(v[id].rows, m)}
          /\ \A p \in New(n) : p # id => v2[p].rows = v[p].rows
      BY <1>3, <1>8, <1>9 DEF old
    <2> QED BY <1>1, <1>4, <2>1, OneGrows
  <1>15. TipsOwn(f.tips, v2)
    <2>1. /\ DOMAIN f.tips = DOMAIN e.tips \cup {c}
          /\ f.tips[c].tail = IF c \in DOMAIN e.tips THEN Max({e.tips[c].tail, id}) ELSE id
          /\ \A d : d \in DOMAIN e.tips /\ d # c => f.tips[d] = e.tips[d]
      BY <1>7 DEF Located
    <2>2. \A d \in DOMAIN e.tips : d # 0 => v[e.tips[d].tail].at32 = d
      BY <1>0 DEF TipsOwn
    <2>3. \A d \in DOMAIN e.tips : e.tips[d].tail \in New(n)
      BY <1>4, TipFacts
    <2> SUFFICES ASSUME NEW d \in DOMAIN f.tips, d # 0 PROVE v2[f.tips[d].tail].at32 = d
      BY DEF TipsOwn
    <2>4. CASE d = c
      <3>1. f.tips[c].tail = id \/ (c \in DOMAIN e.tips /\ f.tips[c].tail = e.tips[c].tail)
        <4>1. CASE c \in DOMAIN e.tips
          <5>1. e.tips[c].tail \in Nat /\ id \in Nat
            BY <1>1, <2>3, <4>1, IdFacts
          <5> QED BY <2>1, <4>1, <5>1, MaxOfTwo
        <4>2. CASE c \notin DOMAIN e.tips
          BY <2>1, <4>2
        <4> QED BY <4>1, <4>2
      <3>2. CASE f.tips[c].tail = id
        BY <1>12, <2>4, <3>2
      <3>3. CASE f.tips[c].tail # id
        <4>1. /\ f.tips[c].tail = e.tips[c].tail /\ v[e.tips[c].tail].at32 = c
              /\ e.tips[c].tail \in Ids(n)
          BY <1>3, <2>2, <2>3, <2>4, <3>1, <3>3
        <4> QED BY <1>8, <2>4, <3>3, <4>1
      <3> QED BY <3>2, <3>3
    <2>5. CASE d # c
      <3>1. /\ d \in DOMAIN e.tips /\ f.tips[d] = e.tips[d] /\ v[e.tips[d].tail].at32 = d
            /\ e.tips[d].tail \in New(n)
        BY <2>1, <2>2, <2>3, <2>5
      <3>2. e.tips[d].tail # id
        BY <1>1, <1>11, <2>5, <3>1 DEF PageOf, id, c
      <3> QED BY <1>3, <1>8, <3>1, <3>2
    <2> QED BY <2>4, <2>5
  <1>16. Leads(n, f.index, v2) /\ Keys(f.index) = Keys(e.index) \cup {<<c, m.id>>}
    <2>1. PICK slot \in 0 .. PageCap - 1 :
              /\ slot + 1 \in DOMAIN v2[id].rows /\ v2[id].rows[slot + 1].id = m.id
              /\ f.index = SetLoc(e.index, c, m.id, id, slot)
      BY <1>7 DEF Located, v2
    <2>2. Leads(n, e.index, v2)
      BY <1>14, GrowsLeads DEF v
    <2>3. m.id \in Nat
      BY <1>1 DEF Message, m
    <2>4. id \in New(n)
      BY <1>1 DEF id
    <2> QED BY <1>3, <1>4, <2>1, <2>2, <2>3, <2>4, LeadsSet
  <1> QED BY <1>8, <1>13, <1>14, <1>15, <1>16 DEF v, v2, c, m, Ready, NoneGone, ViewInserted

LEMMA ReplayRedoes ==
    ASSUME Typed, Carries, Replay, ~(replayed < covered) PROVE Carries'
  <1>1. /\ Becomes(Apply(E, wal[replayed + 1])) /\ replayed' = replayed + 1
        /\ phase = "replay" /\ phase' = phase
        /\ wal' = wal /\ covered' = covered /\ snap' = snap /\ log' = log /\ did' = did
        /\ call' = call /\ replayed < Len(wal)
    BY DEF Replay, pastVars
  <1>2. PICK n \in Nat : \E own : Works(n, own)
    BY <1>1, Working
  <1>3. PICK own : Works(n, own)
    BY <1>2
  <1> DEFINE b == did.appends
             u == replayed
             r == wal[u + 1]
             f == Apply(E, r)
  <1>4. Placed(phase, did.appends) = b /\ Upto(phase, wal, replayed) = u
    BY <1>1 DEF Placed, Upto
  <1>5. /\ n >= ROOT_PAGES /\ wal \in Seq(Recs(n)) /\ covered \in Nat /\ b \in Nat /\ u \in Nat
        /\ Contents(n, own, b, disk, mem, wal, covered, u, log) /\ TipsOwn(tips, mem)
        /\ Live(n, index, mem, log, wal, covered, u) /\ E \in Engine(n)
        /\ Snapped(n, phase, snap, disk, mem, log, wal, covered) /\ Len(wal) \in Nat
    BY <1>3, <1>4 DEF Works
  <1>6. u + 1 \in DOMAIN wal /\ covered <= u
    BY <1>1, <1>5
  <1>7. E.s.mem = mem /\ E.s.disk = disk /\ E.tips = tips /\ E.index = index
    <2>1. E.s = [mem |-> mem, disk |-> disk] /\ E.tips = tips /\ E.index = index
      BY <1>5, EngineNow
    <2> QED BY <2>1
  <1>8. /\ PagesOK(n, own, b, disk, mem, wal) /\ LogOK(own, b, disk, mem, wal, covered, u)
        /\ own \in [New(n) -> Chats] /\ LogsKept(n, b, disk, wal, covered, log)
    BY <1>5 DEF Contents
  <1>9. Leads(n, index, mem) /\ Covers(index, log, wal, u)
    BY <1>5, <1>6, LaterFacts DEF Live
  <1> DEFINE e == E
  <1>10. e \in Engine(n) /\ e.s.mem = mem /\ e.s.disk = disk /\ e.tips = tips /\ e.index = index
    BY <1>5, <1>7
  <1> HIDE DEF b, u, f, e
  <1>11. /\ r.page \in New(n) /\ r.chat \in Chats /\ own[r.page] = r.chat
         /\ r \in LinkRecs(n) \/ r \in InsertRecs(n)
    BY <1>5, <1>6, <1>8, RecPages
  <1>12. /\ PagesOK(n, own, b, disk, f.s.mem, wal)
         /\ LogOK(own, b, disk, f.s.mem, wal, covered, u + 1)
         /\ TipsOwn(f.tips, f.s.mem) /\ Leads(n, f.index, f.s.mem)
         /\ f \in Engine(n) /\ f.s.disk = disk
         /\ Covers(f.index, log, wal, u + 1)
    <2>1. CASE r \in LinkRecs(n)
      <3>1. r.ty = "link" /\ r.prev \in Ids(n)
        BY <2>1 DEF LinkRecs
      <3>2. f = ApplyLink(e, r.chat, r.page, r.prev)
        BY <3>1 DEF f, Apply, e
      <3> HIDE DEF r
      <3>3. Ready(n, own, b, disk, wal, covered, u, e) /\ n >= ROOT_PAGES
        BY <1>5, <1>10, <1>8 DEF Ready
      <3>4. /\ Ready(n, own, b, disk, wal, covered, u, f) /\ NoneGone(n, e, f)
            /\ f.index = e.index
        <4>1. b \in Nat /\ LinkTo(n, own, e, f, r.chat, r.page, r.prev)
          BY <1>5, <1>11, <3>1, <3>2 DEF LinkTo
        <4>2. wal \in Seq(Recs(n))
          BY <1>5
        <4>3. ViewLinked(n, own, b, disk, wal, covered, u, e, f, r.chat, r.page)
          BY ONLY n \in Nat, <3>3, <4>1, <4>2, LinkView
        <4> QED BY <4>3 DEF ViewLinked
      <3>5. LogOK(own, b, disk, f.s.mem, wal, covered, u + 1)
        <4>1. wal[u + 1].ty = "link"
          BY <3>1 DEF r
        <4>2. PagesOK(n, own, b, disk, f.s.mem, wal) /\ LogOK(own, b, disk, f.s.mem, wal, covered, u)
          BY <3>4 DEF Ready, NoneGone
        <4> QED BY ONLY n \in Nat, <1>5, <1>6, <4>1, <4>2, RedoOther
      <3>6. Leads(n, f.index, f.s.mem)
        BY <1>10, <1>9, <3>4, GrowsLeads DEF Ready, NoneGone
      <3>7. Covers(f.index, log, wal, u + 1)
        <4>1. wal[u + 1].ty # "insert" /\ \A j \in DOMAIN wal : j \in Nat
          BY <1>5, <3>1 DEF r
        <4>2. Keys(index) \subseteq Keys(f.index)
          BY <1>10, <3>4
        <4> QED BY ONLY <1>5, <1>6, <1>9, <4>1, <4>2, CoversRedo
      <3> QED BY <1>10, <3>4, <3>5, <3>6, <3>7 DEF Ready, NoneGone
    <2>2. CASE r \in InsertRecs(n)
      <3>1. r.ty = "insert"
        BY <2>2 DEF InsertRecs
      <3>2. f = ApplyInsert(e, r.page, r.chat, r.msg)
        BY <3>1 DEF f, Apply, e
      <3>3. /\ Ready(n, own, b, disk, wal, covered, u, e) /\ n >= ROOT_PAGES
            /\ Leads(n, e.index, e.s.mem) /\ r = wal[u + 1]
        BY <1>5, <1>10, <1>8, <1>9 DEF Ready
      <3> HIDE DEF r
      <3>4. /\ Ready(n, own, b, disk, wal, covered, u + 1, f) /\ NoneGone(n, e, f)
            /\ Leads(n, f.index, f.s.mem)
            /\ Keys(f.index) = Keys(e.index) \cup {<<r.chat, r.msg.id>>}
        <4>1. /\ b \in Nat /\ u \in Nat /\ wal \in Seq(Recs(n)) /\ e \in Engine(n)
          BY <1>5, <1>10
        <4>2. Redone(wal, u, e, r, f)
          BY <3>1, <3>2, <3>3 DEF Redone
        <4>3. u + 1 \in DOMAIN wal
          BY <1>6
        <4>4. ViewInserted(n, own, b, disk, wal, covered, u, e, r, f)
          BY ONLY n \in Nat, <3>3, <4>1, <4>2, <4>3, InsertView
        <4> QED BY <4>4 DEF ViewInserted
      <3>5. Covers(f.index, log, wal, u + 1)
        <4>1. \A j \in DOMAIN wal : j \in Nat
          BY <1>5
        <4>2. Keys(index) \subseteq Keys(f.index)
          BY <1>10, <3>4
        <4>3. <<wal[u + 1].chat, wal[u + 1].msg.id>> \in Keys(f.index)
          BY <3>3, <3>4
        <4> QED BY ONLY <1>5, <1>6, <1>9, <4>1, <4>2, <4>3, CoversRedo
      <3> QED BY <1>10, <3>4, <3>5 DEF Ready, NoneGone
    <2> QED BY <1>11, <2>1, <2>2
  <1> HIDE DEF r
  <1>13. mem' = f.s.mem /\ disk' = f.s.disk /\ tips' = f.tips /\ index' = f.index
    <2>1. Becomes(f)
      BY <1>1 DEF f, r, u
    <2> QED BY <1>12, <2>1, BecomesIs
  <1>14. Contents(n, own, b, disk', mem', wal', covered', u + 1, log')
    BY <1>1, <1>8, <1>12, <1>13 DEF Contents
  <1>15. Live(n, index', mem', log', wal', covered', u + 1)
    <2>1. Later(u + 1, covered) = u + 1
      BY <1>5, <1>6 DEF Later
    <2> QED BY <1>1, <1>12, <1>13, <2>1 DEF Live
  <1>16. /\ b = Placed(phase', did'.appends) /\ u + 1 = Upto(phase', wal', replayed')
         /\ phase' # "closed"
    BY <1>1 DEF Placed, Upto, b, u
  <1>17. CallOwn(own, phase', call', mem', did'.appends)
    BY <1>1 DEF CallOwn
  <1>18. Snapped(n, phase', snap', disk', mem', log', wal', covered')
    BY <1>1, <1>5, <1>12, <1>13 DEF Snapped
  <1>19. TipsOwn(tips', mem')
    BY <1>12, <1>13
  <1> QED BY <1>5, <1>14, <1>15, <1>16, <1>17, <1>18, <1>19, NextCarries

LEMMA ReplayCarries == ASSUME Typed, Carries, Replay PROVE Carries'
  BY ReplaySkips, ReplayRedoes

-----------------------------------------------------------------------------
(* Appends. *)

\* A page of the pool is added for a chat.
PageAdded(n, b, s, w, k, u, lg, c, a) ==
    /\ a.id = n /\ a.s \in Store(n + 1) /\ a.s.mem[n].rows = <<>>
    /\ \A p \in Ids(n) : a.s.mem[p] = s.mem[p] /\ a.s.disk[p] = s.disk[p]
    /\ \E o2 : o2[n] = c /\ Contents(n + 1, o2, b, a.s.disk, a.s.mem, w, k, u, lg)
    /\ Grows(n, s.mem, a.s.mem) /\ Grows(n, s.disk, a.s.disk)

LEMMA NewPageView ==
    ASSUME NEW n \in Nat, n >= ROOT_PAGES, NEW own, NEW b \in Nat,
           NEW s \in Store(n), NEW w \in Seq(Recs(n)), NEW k, NEW u, NEW lg,
           Contents(n, own, b, s.disk, s.mem, w, k, u, lg), NEW c \in Chats,
           NEW a, a = AllocChatPage(s, c)
    PROVE  PageAdded(n, b, s, w, k, u, lg, c, a)
  <1>1. FreelistHead(s) = 0 /\ c \in Owners
    BY DEF FreelistHead, Super, Contents, PagesOK, Owners
  <1>2. /\ a.id = n /\ a.s \in Store(n + 1)
        /\ \A p \in Ids(n) : a.s.mem[p] = s.mem[p] /\ a.s.disk[p] = s.disk[p]
        /\ a.s.mem[n] = ChatPage(c) /\ a.s.disk[n] = Alloc("chat")
    BY <1>1, AllocFresh
  <1> DEFINE o2 == [p \in New(n + 1) |-> IF p = n THEN c ELSE own[p]]
             d2 == a.s.disk
             v2 == a.s.mem
  <1>3. /\ New(n + 1) = New(n) \cup {n} /\ n \notin New(n) /\ New(n) \subseteq Ids(n)
        /\ n + 1 \in Nat
    BY IdFacts
  <1>4. own \in [New(n) -> Chats]
    BY DEF Contents
  <1>5. /\ o2 \in [New(n + 1) -> Chats] /\ o2[n] = c /\ \A p \in New(n) : o2[p] = own[p]
    BY <1>3, <1>4
  <1>6. /\ PageOf(c, d2[n]) /\ PageOf(c, v2[n]) /\ d2[n].rows = <<>> /\ v2[n].rows = <<>>
    BY <1>2 DEF PageOf, ChatPage, Alloc
  <1>7. d2 \in Heap(n + 1) /\ v2 \in Heap(n + 1) /\ s.disk \in Heap(n) /\ s.mem \in Heap(n)
    BY <1>2 DEF Store
  <1> HIDE DEF o2, d2, v2
  <1>8. PagesOK(n + 1, o2, b, d2, v2, w) /\ LogOK(o2, b, d2, v2, w, k, u)
    <2>1. /\ PagesOK(n, own, b, s.disk, s.mem, w) /\ LogOK(own, b, s.disk, s.mem, w, k, u)
          /\ b <= b /\ n >= ROOT_PAGES
      BY DEF Contents
    <2>2. Extends(n, own, o2, s.disk, d2, s.mem, v2)
      BY <1>2, <1>5, <1>6, <1>7 DEF d2, v2, Extends
    <2> QED BY ONLY n \in Nat, b \in Nat, w \in Seq(Recs(n)), <2>1, <2>2, AllocStep
  <1>9. /\ \A p \in New(n) : v2[p].rows = s.mem[p].rows /\ d2[p].rows = s.disk[p].rows
        /\ \A p \in New(n) : d2[p] = s.disk[p]
    BY <1>2, <1>3 DEF d2, v2
  <1>10. Grows(n, s.mem, v2) /\ Grows(n, s.disk, d2)
    <2>1. Grows(n, s.mem, v2)
      BY <1>7, <1>9, SameGrows
    <2>2. Grows(n, s.disk, d2)
      BY <1>7, <1>9, SameGrows
    <2> QED BY <2>1, <2>2
  <1>11. LogsKept(n + 1, b, d2, w, k, lg)
    <2>1. Filed(n, s.disk, d2)
      BY <1>9, <1>10 DEF Filed, Grows
    <2>2. LogsKept(n, b, s.disk, w, k, lg) /\ New(n) \subseteq New(n + 1) /\ b <= b
      BY <1>3 DEF Contents
    <2> QED BY ONLY b \in Nat, <2>1, <2>2, KeptFile
  <1>12. Contents(n + 1, o2, b, d2, v2, w, k, u, lg)
    BY <1>5, <1>8, <1>11 DEF Contents
  <1>13. o2[n] = c /\ Contents(n + 1, o2, b, a.s.disk, a.s.mem, w, k, u, lg)
    BY <1>5, <1>12 DEF d2, v2
  <1> QED BY <1>2, <1>6, <1>10, <1>13 DEF d2, v2, PageAdded

\* An engine that serves: all of the log is in the pool.
Serves(n, own, b) ==
    /\ n >= ROOT_PAGES /\ E \in Engine(n) /\ CallOK(n, phase, call, mem, tips)
    /\ wal \in Seq(Recs(n)) /\ Len(wal) \in Nat /\ covered \in 0 .. Len(wal)
    /\ b \in Nat /\ b = Placed(phase, did.appends) /\ did.appends \in Nat
    /\ mem \in Heap(n) /\ disk \in Heap(n) /\ tips \in Tips(n) /\ index \in Index(n)
    /\ Contents(n, own, b, disk, mem, wal, covered, Len(wal), log)
    /\ CallOwn(own, phase, call, mem, did.appends) /\ TipsOwn(tips, mem)
    /\ Leads(n, index, mem) /\ Covers(index, log, wal, Len(wal))
    /\ Snapped(n, phase, snap, disk, mem, log, wal, covered)

LEMMA AllReplayed ==
    ASSUME NEW w \in Nat, NEW k \in 0 .. w PROVE Later(w, k) = w
  BY DEF Later

LEMMA Appending ==
    ASSUME Typed, Carries, phase \in {"open", "link", "insert"}
    PROVE  \E n \in Nat : \E own, b : Serves(n, own, b)
  <1>1. PICK n \in Nat : \E own : Works(n, own)
    BY Working
  <1>2. PICK own : Works(n, own)
    BY <1>1
  <1> DEFINE b == Placed(phase, did.appends)
  <1>3. b \in Nat /\ Upto(phase, wal, replayed) = Len(wal) /\ Later(Len(wal), covered) = Len(wal)
    <2>1. b \in Nat
      BY <1>2 DEF Works, Placed, CallOwn
    <2>2. Upto(phase, wal, replayed) = Len(wal)
      BY DEF Upto
    <2>3. Later(Len(wal), covered) = Len(wal)
      BY <1>2, AllReplayed DEF Works
    <2> QED BY <2>1, <2>2, <2>3
  <1> HIDE DEF b
  <1>4. Serves(n, own, b)
    <2>1. b = Placed(phase, did.appends)
      BY DEF b
    <2>2. Live(n, index, mem, log, wal, covered, Len(wal))
      BY <1>2, <1>3 DEF Works
    <2>3. Contents(n, own, b, disk, mem, wal, covered, Len(wal), log)
      BY <1>2, <1>3, <2>1 DEF Works
    <2> QED BY <1>2, <1>3, <2>1, <2>2, <2>3 DEF Works, Serves, Live
  <1> QED BY <1>4

\* The next state, when it serves
LEMMA NextServes ==
    ASSUME NEW n \in Nat, n >= ROOT_PAGES, NEW own, NEW b, b = Placed(phase', did'.appends),
           phase' \in {"open", "link", "insert"}, Len(wal') \in Nat, covered' \in 0 .. Len(wal'),
           Contents(n, own, b, disk', mem', wal', covered', Len(wal'), log'),
           CallOwn(own, phase', call', mem', did'.appends), TipsOwn(tips', mem'),
           Leads(n, index', mem'), Covers(index', log', wal', Len(wal')),
           Snapped(n, phase', snap', disk', mem', log', wal', covered')
    PROVE  Carries'
  <1>1. Upto(phase', wal', replayed') = Len(wal')
    BY DEF Upto
  <1>2. Live(n, index', mem', log', wal', covered', Len(wal'))
    BY AllReplayed DEF Live
  <1>3. phase' # "closed"
    OBVIOUS
  <1> QED BY <1>1, <1>2, <1>3, NextCarries

\* One more message counts as placed.
LEMMA OnePlaced ==
    ASSUME NEW n \in Nat, n >= ROOT_PAGES, NEW own, NEW b \in Nat, NEW dk, NEW vw,
           NEW w \in Seq(Recs(n)), NEW k, NEW u, NEW lg,
           Contents(n, own, b, dk, vw, w, k, u, lg)
    PROVE  Contents(n, own, b + 1, dk, vw, w, k, u, lg)
  <1>1. /\ PagesOK(n, own, b, dk, vw, w) /\ LogOK(own, b, dk, vw, w, k, u)
        /\ LogsKept(n, b, dk, w, k, lg) /\ own \in [New(n) -> Chats]
    BY DEF Contents
  <1>2. b + 1 \in Nat /\ b <= b + 1 /\ InPages(n, w) /\ n >= ROOT_PAGES
    <2>1. InPages(n, w)
      BY <1>1, RecPages DEF InPages
    <2> QED BY <2>1
  <1>3. SameRows(n, own, vw, vw)
    BY <1>1 DEF SameRows, PagesOK, Matches
  <1>4. PagesOK(n, own, b + 1, dk, vw, w) /\ LogOK(own, b + 1, dk, vw, w, k, u)
    BY ONLY n \in Nat, b \in Nat, <1>1, <1>2, <1>3, ViewStep
  <1>5. Filed(n, dk, dk)
    <2>1. dk \in Heap(n)
      BY <1>1 DEF PagesOK
    <2>2. Grows(n, dk, dk)
      BY <2>1, SameGrows
    <2> QED BY <2>2 DEF Filed, Grows
  <1>6. LogsKept(n, b + 1, dk, w, k, lg)
    <2>1. New(n) \subseteq New(n)
      OBVIOUS
    <2> QED BY ONLY b \in Nat, <1>1, <1>2, <1>5, <2>1, KeptFile
  <1> QED BY <1>1, <1>4, <1>6 DEF Contents

\* The log gets the record of a link, and the page is linked.
Linking(n, own, b, f, w2) ==
    /\ Contents(n, own, b, f.s.disk, f.s.mem, w2, covered, Len(w2), log)
    /\ f \in Engine(n) /\ NoneGone(n, E, f) /\ f.s.disk = disk /\ f.index = index
    /\ f.s.mem[call.page].at32 = call.chat /\ TipsOwn(f.tips, f.s.mem)
    /\ Leads(n, index, f.s.mem) /\ Covers(index, log, w2, Len(w2))
    /\ w2 \in Seq(Recs(n)) /\ Len(w2) \in Nat /\ covered \in 0 .. Len(w2)
    /\ call.chat \in Chats /\ own[call.page] = call.chat
    /\ \A idx : Covers(idx, log, wal, covered) => Covers(idx, log, w2, covered)

LEMMA LinkNow ==
    ASSUME NEW n \in Nat, NEW own, NEW b, Serves(n, own, b), phase = "link",
           NEW f, f = ApplyLink(E, call.chat, call.page, call.prev),
           NEW w2, w2 = Append(wal, Link(call.chat, call.page, call.prev))
    PROVE  Linking(n, own, b, f, w2)
  <1> DEFINE c == call.chat
             id == call.page
             prev == call.prev
             r == Link(c, id, prev)
  <1>1. /\ n >= ROOT_PAGES /\ E \in Engine(n) /\ CallOK(n, phase, call, mem, tips)
        /\ wal \in Seq(Recs(n)) /\ Len(wal) \in Nat /\ covered \in 0 .. Len(wal) /\ b \in Nat
        /\ Contents(n, own, b, disk, mem, wal, covered, Len(wal), log)
        /\ TipsOwn(tips, mem) /\ Leads(n, index, mem) /\ Covers(index, log, wal, Len(wal))
        /\ own[id] = c
    BY DEF Serves, CallOwn
  <1>2. c \in Chats /\ id \in New(n) /\ prev \in Ids(n)
    BY <1>1 DEF CallOK, CallType
  <1>3. E.s.mem = mem /\ E.s.disk = disk /\ E.tips = tips /\ E.index = index
    <2>1. E.s = [mem |-> mem, disk |-> disk] /\ E.tips = tips /\ E.index = index
      BY <1>1, EngineNow
    <2> QED BY <2>1
  <1>4. /\ PagesOK(n, own, b, disk, mem, wal) /\ LogOK(own, b, disk, mem, wal, covered, Len(wal))
        /\ LogsKept(n, b, disk, wal, covered, log) /\ own \in [New(n) -> Chats]
    BY <1>1 DEF Contents
  <1>5. r \in LinkRecs(n) /\ r \in Recs(n) /\ r.page = id /\ r.chat = c
    BY <1>2 DEF Link, LinkRecs, Recs
  <1>6. w2 = Append(wal, r)
    OBVIOUS
  <1> HIDE DEF r
  <1>7. PagesOK(n, own, b, disk, mem, w2) /\ LogOK(own, b, disk, mem, w2, covered, Len(w2))
    <2>1. own[r.page] = r.chat
      BY <1>1, <1>5
    <2> QED BY ONLY n \in Nat, <1>1, <1>4, <1>5, <1>6, <2>1, LinkStep
  <1>8. w2 \in Seq(Recs(n)) /\ Len(w2) \in Nat /\ covered \in 0 .. Len(w2)
    BY <1>1, <1>5, <1>6
  <1> DEFINE e == E
             u == Len(w2)
  <1>9. /\ e \in Engine(n) /\ e.s.mem = mem /\ e.s.disk = disk /\ e.tips = tips /\ e.index = index
        /\ f = ApplyLink(e, c, id, prev) /\ NoneGone(n, E, f) = NoneGone(n, e, f)
    BY <1>1, <1>3
  <1> HIDE DEF e, u
  <1>10. ViewLinked(n, own, b, disk, w2, covered, u, e, f, c, id)
    <2>1. Ready(n, own, b, disk, w2, covered, u, e) /\ n >= ROOT_PAGES
      BY <1>1, <1>7, <1>9 DEF Ready, u
    <2>2. LinkTo(n, own, e, f, c, id, prev)
      BY <1>1, <1>2, <1>9 DEF LinkTo
    <2> QED BY ONLY n \in Nat, <1>1, <1>8, <2>1, <2>2, LinkView
  <1>11. /\ Ready(n, own, b, disk, w2, covered, u, f) /\ NoneGone(n, e, f)
         /\ f.s.mem[id].at32 = c /\ f.index = e.index
    BY <1>10 DEF ViewLinked
  <1>12. \A idx : Covers(idx, log, wal, covered) => Covers(idx, log, w2, covered)
    <2>1. covered \in Nat
      BY <1>1
    <2> QED BY ONLY <1>1, <1>5, <1>6, <2>1, CoversLogs
  <1>13. LogsKept(n, b, disk, w2, covered, log)
    <2>1. covered \in Nat
      BY <1>1
    <2> QED BY ONLY <1>1, <1>4, <1>5, <1>6, <2>1, KeptLogs
  <1>14. Covers(index, log, w2, u)
    BY <1>1, CoversFull
  <1>15. Leads(n, index, f.s.mem)
    <2>1. Grows(n, mem, f.s.mem) /\ Leads(n, index, mem)
      BY <1>1, <1>9, <1>11 DEF NoneGone
    <2> QED BY ONLY <2>1, GrowsLeads
  <1>16. Contents(n, own, b, f.s.disk, f.s.mem, w2, covered, u, log) /\ f.s.disk = disk
    BY <1>4, <1>9, <1>11, <1>13 DEF Contents, Ready, NoneGone
  <1> QED BY <1>1, <1>2, <1>8, <1>9, <1>11, <1>12, <1>14, <1>15, <1>16 DEF Linking, Ready, u

LEMMA AppendLinkCarries == ASSUME Typed, Carries, AppendLink PROVE Carries'
  <1>1. PICK n \in Nat : \E own, b : Serves(n, own, b)
    BY Appending DEF AppendLink
  <1>2. PICK own, b : Serves(n, own, b)
    BY <1>1
  <1> DEFINE f == ApplyLink(E, call.chat, call.page, call.prev)
             w2 == Append(wal, Link(call.chat, call.page, call.prev))
  <1>3. /\ phase = "link" /\ phase' = "insert" /\ wal' = w2 /\ Becomes(f) /\ covered' = covered
        /\ snap' = snap /\ call' = call /\ log' = log /\ did' = did
    BY DEF AppendLink, pastVars
  <1>4. Linking(n, own, b, f, w2)
    BY <1>2, <1>3, LinkNow
  <1> HIDE DEF f, w2
  <1>5. mem' = f.s.mem /\ disk' = f.s.disk /\ tips' = f.tips /\ index' = f.index
    BY <1>3, <1>4, BecomesIs DEF Linking
  <1>6. b = Placed(phase', did'.appends) /\ n >= ROOT_PAGES
    BY <1>2, <1>3 DEF Serves, Placed
  <1>7. CallOwn(own, phase', call', mem', did'.appends)
    BY <1>2, <1>3, <1>4, <1>5 DEF Serves, Linking, CallOwn
  <1>8. Snapped(n, phase', snap', disk', mem', log', wal', covered')
    <2>1. disk' = disk /\ \A idx : Covers(idx, log, wal, covered) => Covers(idx, log, w2, covered)
      BY <1>4, <1>5 DEF Linking
    <2>2. Grows(n, disk, disk)
      BY <1>2, SameGrows DEF Serves
    <2>3. New(n) \subseteq New(n) /\ Snapped(n, phase, snap, disk, mem, log, wal, covered)
          /\ phase' \notin {"flushed", "snapped", "persisted"}
      BY <1>2, <1>3 DEF Serves
    <2>4. Snapped(n, phase', snap, disk, mem', log, w2, covered)
      BY ONLY <2>1, <2>2, <2>3, SnapKept
    <2> QED BY <1>3, <2>1, <2>4
  <1>9. /\ Contents(n, own, b, disk', mem', wal', covered', Len(wal'), log')
        /\ TipsOwn(tips', mem') /\ Leads(n, index', mem') /\ Covers(index', log', wal', Len(wal'))
        /\ Len(wal') \in Nat /\ covered' \in 0 .. Len(wal')
    BY <1>3, <1>4, <1>5 DEF Linking
  <1>10. phase' \in {"open", "link", "insert"}
    BY <1>3
  <1> QED BY <1>6, <1>7, <1>8, <1>9, <1>10, NextServes

LEMMA TipsStay ==
    ASSUME NEW n \in Nat, NEW t \in Tips(n), NEW m, NEW m2, TipsOwn(t, m),
           \A p \in New(n) : m2[p].at32 = m[p].at32
    PROVE  TipsOwn(t, m2)
  BY TipFacts DEF TipsOwn

LEMMA SnapNext ==
    ASSUME NEW n \in Nat, NEW own, NEW b, Serves(n, own, b), NEW n2, New(n) \subseteq New(n2),
           phase' \in {"open", "link", "insert"}, snap' = snap, covered' = covered,
           Grows(n, disk, disk'),
           \A idx : Covers(idx, log, wal, covered) => Covers(idx, log', wal', covered)
    PROVE  Snapped(n2, phase', snap', disk', mem', log', wal', covered')
  <1>1. /\ Snapped(n, phase, snap, disk, mem, log, wal, covered)
        /\ phase' \notin {"flushed", "snapped", "persisted"}
    BY DEF Serves
  <1>2. Snapped(n2, phase', snap, disk', mem', log', wal', covered)
    BY <1>1, SnapKept
  <1> QED BY <1>2

LEMMA AppendTooLargeCarries == ASSUME Typed, Carries, AppendTooLarge PROVE Carries'
  <1>1. PICK n \in Nat : \E own, b : Serves(n, own, b)
    BY Appending DEF AppendTooLarge
  <1>2. PICK own, b : Serves(n, own, b)
    BY <1>1
  <1> DEFINE c == call.chat
             id == call.page
             f == ApplyLink(E, c, id, call.prev)
             w2 == Append(wal, Link(c, id, call.prev))
             a == AllocChatPage(f.s, c)
  <1>3. /\ phase = "link" /\ wal' = w2 /\ covered' = covered /\ snap' = snap /\ log' = log
        /\ did' = did
        /\ IF call.prev = 0
           THEN /\ Becomes([f EXCEPT !.s = a.s])
                /\ call' = [call EXCEPT !.page = a.id, !.prev = id] /\ phase' = phase
           ELSE Becomes(f) /\ phase' = "open"
    BY DEF AppendTooLarge, pastVars
  <1>4. Linking(n, own, b, f, w2)
    BY <1>2, <1>3, LinkNow
  <1>5. /\ n >= ROOT_PAGES /\ b \in Nat /\ did.appends \in Nat /\ b = did.appends - 1
        /\ disk \in Heap(n) /\ call \in CallType(n)
        /\ CallOwn(own, phase, call, mem, did.appends)
    BY <1>2, <1>3 DEF Serves, Placed, CallOK
  <1> HIDE DEF c, id, f, w2, a
  <1>6. /\ Contents(n, own, b, f.s.disk, f.s.mem, w2, covered, Len(w2), log)
        /\ f \in Engine(n) /\ NoneGone(n, E, f) /\ f.s.disk = disk /\ f.index = index
        /\ TipsOwn(f.tips, f.s.mem) /\ Leads(n, index, f.s.mem) /\ Covers(index, log, w2, Len(w2))
        /\ w2 \in Seq(Recs(n)) /\ Len(w2) \in Nat /\ covered \in 0 .. Len(w2) /\ c \in Chats
        /\ \A idx : Covers(idx, log, wal, covered) => Covers(idx, log, w2, covered)
    BY <1>4 DEF Linking, c
  <1>7. Grows(n, disk, disk)
    BY <1>5, SameGrows
  <1>8. CASE call.prev # 0
    <2>1. /\ mem' = f.s.mem /\ disk' = f.s.disk /\ tips' = f.tips /\ index' = f.index
          /\ phase' = "open"
      BY <1>3, <1>6, <1>8, BecomesIs
    <2>2. b + 1 = Placed(phase', did'.appends)
      BY <1>3, <1>5, <2>1 DEF Placed
    <2>3. Contents(n, own, b + 1, disk', mem', wal', covered', Len(wal'), log')
      <3>1. Contents(n, own, b + 1, f.s.disk, f.s.mem, w2, covered, Len(w2), log)
        BY ONLY n \in Nat, <1>5, <1>6, OnePlaced
      <3> QED BY <1>3, <2>1, <3>1
    <2>4. CallOwn(own, phase', call', mem', did'.appends)
      BY <2>1 DEF CallOwn
    <2>5. Snapped(n, phase', snap', disk', mem', log', wal', covered')
      <3>1. New(n) \subseteq New(n) /\ Grows(n, disk, disk') /\ phase' \in {"open", "link", "insert"}
        BY <1>6, <1>7, <2>1
      <3> QED BY <1>2, <1>3, <1>6, <3>1, SnapNext
    <2>6. phase' \in {"open", "link", "insert"}
      BY <2>1
    <2> QED BY <1>3, <1>5, <1>6, <2>1, <2>2, <2>3, <2>4, <2>5, <2>6, NextServes
  <1>9. CASE call.prev = 0
    <2> DEFINE e == [f EXCEPT !.s = a.s]
    <2>1. Becomes(e) /\ call' = [call EXCEPT !.page = a.id, !.prev = id] /\ phase' = "link"
      BY <1>3, <1>9
    <2>2. /\ f.s \in Store(n) /\ f.tips \in Tips(n) /\ f.index \in Index(n) /\ f.ring \in Rings
          /\ f = [s |-> f.s, tips |-> f.tips, index |-> f.index, ring |-> f.ring]
          /\ f.s.mem \in Heap(n)
      BY <1>6, EngineParts
    <2>3. e = [s |-> a.s, tips |-> f.tips, index |-> f.index, ring |-> f.ring]
      BY <2>2
    <2> DEFINE s == f.s
               u == Len(w2)
    <2>4. s \in Store(n) /\ Contents(n, own, b, s.disk, s.mem, w2, covered, u, log)
          /\ a = AllocChatPage(s, c) /\ s.disk = disk /\ s.mem = f.s.mem
      BY <1>6, <2>2 DEF a
    <2> HIDE DEF e, s, u
    <2>5. PageAdded(n, b, s, w2, covered, u, log, c, a)
      BY ONLY n \in Nat, <1>5, <1>6, <2>4, NewPageView
    <2>6. PICK o2 : o2[n] = c /\ Contents(n + 1, o2, b, a.s.disk, a.s.mem, w2, covered, u, log)
      BY <2>5 DEF PageAdded
    <2>7. /\ a.id = n /\ a.s \in Store(n + 1) /\ a.s.mem[n].rows = <<>>
          /\ \A p \in Ids(n) : a.s.mem[p] = s.mem[p] /\ a.s.disk[p] = s.disk[p]
      BY <2>5 DEF PageAdded
    <2>8. Grows(n, s.mem, a.s.mem) /\ Grows(n, s.disk, a.s.disk)
      BY <2>5 DEF PageAdded
    <2>9. n + 1 \in Nat /\ n + 1 >= ROOT_PAGES /\ n <= n + 1 /\ New(n) \subseteq Ids(n)
          /\ New(n) \subseteq New(n + 1)
      <3>1. n + 1 \in Nat /\ n + 1 >= ROOT_PAGES /\ n <= n + 1
        BY <1>5 DEF ROOT_PAGES
      <3>2. Ids(n) \subseteq Ids(n + 1) /\ New(n) \subseteq New(n + 1)
        BY ONLY n \in Nat, <3>1, IdsGrow
      <3>3. New(n) \subseteq Ids(n)
        BY <1>5, IdFacts
      <3> QED BY <3>1, <3>2, <3>3
    <2>10. e \in Engine(n + 1)
      BY <2>2, <2>3, <2>7, <2>9, MapsGrow DEF Engine
    <2>11. mem' = a.s.mem /\ disk' = a.s.disk /\ tips' = f.tips /\ index' = index
      <3>1. mem' = e.s.mem /\ disk' = e.s.disk /\ tips' = e.tips /\ index' = e.index
        BY <2>1, <2>9, <2>10, BecomesIs
      <3> QED BY <1>6, <2>3, <3>1
    <2>12. b = Placed(phase', did'.appends)
      BY <1>3, <1>5, <2>1 DEF Placed
    <2>13. Contents(n + 1, o2, b, disk', mem', wal', covered', Len(wal'), log')
      BY <1>3, <2>6, <2>11 DEF u
    <2>14. CallOwn(o2, phase', call', mem', did'.appends)
      <3> DEFINE new == a.id
                 i == did.appends
      <3>1. call'.page = n /\ call'.chat = c /\ call'.msg = call.msg
        <4>1. call = [chat |-> c, msg |-> call.msg, big |-> call.big, page |-> id,
                      prev |-> call.prev]
          BY <1>5 DEF CallType, c, id
        <4>2. call' = [call EXCEPT !.page = new, !.prev = id]
          BY <2>1
        <4> HIDE DEF new
        <4>3. call'.page = new /\ call'.chat = call.chat /\ call'.msg = call.msg
          BY ONLY <4>1, <4>2
        <4> QED BY <2>7, <4>3 DEF new, c
      <3>2. i > 0 /\ call.msg = [id |-> i, body |-> i]
        BY <1>3, <1>5 DEF CallOwn
      <3>3. did'.appends = i /\ phase' # "insert"
        BY <1>3, <2>1
      <3> HIDE DEF i, new
      <3> QED BY <2>6, <3>1, <3>2, <3>3 DEF CallOwn
    <2>15. TipsOwn(tips', mem')
      <3>1. \A p \in New(n) : a.s.mem[p].at32 = f.s.mem[p].at32
        BY <2>4, <2>7, <2>9
      <3> QED BY <1>6, <2>2, <2>11, <3>1, TipsStay
    <2>16. Leads(n + 1, index', mem')
      <3>1. Grows(n, f.s.mem, a.s.mem)
        BY <2>4, <2>8
      <3>2. Leads(n + 1, index, a.s.mem)
        <4>1. Leads(n, index, f.s.mem) /\ New(n) \subseteq New(n + 1)
          BY <1>6, <2>9
        <4> QED BY ONLY <4>1, <3>1, GrowsLeads
      <3> QED BY <2>11, <3>2
    <2>17. Snapped(n + 1, phase', snap', disk', mem', log', wal', covered')
      <3>1. Grows(n, disk, disk') /\ phase' \in {"open", "link", "insert"}
        BY <2>1, <2>4, <2>8, <2>11
      <3> QED BY <1>2, <1>3, <1>6, <2>9, <3>1, SnapNext
    <2>18. phase' \in {"open", "link", "insert"}
      BY <2>1
    <2> QED BY <1>3, <1>6, <2>9, <2>11, <2>12, <2>13, <2>14, <2>15, <2>16, <2>17, <2>18, NextServes
  <1> QED BY <1>8, <1>9

\* What an append begins with
Started(c, i) ==
    LET prev == IF c \in DOMAIN tips THEN tips[c].tail ELSE 0
    IN  /\ did'.appends = i
        /\ \/ /\ phase' = "insert" /\ mem' = mem /\ disk' = disk
              /\ c \in DOMAIN tips /\ prev # 0
              /\ call'.chat = c /\ call'.page = prev /\ call'.msg = [id |-> i, body |-> i]
           \/ /\ phase' = "link"
              /\ call'.chat = c /\ call'.page = AllocChatPage(E.s, c).id
              /\ call'.msg = [id |-> i, body |-> i]
              /\ mem' = AllocChatPage(E.s, c).s.mem /\ disk' = AllocChatPage(E.s, c).s.disk

LEMMA Starting ==
    ASSUME Untrimmed, Typed, NEW c \in Chats, AppendStart(c)
    PROVE  Started(c, did.appends + 1)
  <1> DEFINE i == did.appends + 1
             prev == IF c \in DOMAIN tips THEN tips[c].tail ELSE 0
             a == AllocChatPage(E.s, c)
  <1>1. setup.ids = {}
    BY DEF Untrimmed, Typed, CountsOK
  <1>2. PICK id \in Choose(c), big \in {FALSE} \cup {May("bigs")} :
        /\ did' = [did EXCEPT !.appends = @ + 1, !.bigs = @ + IF big THEN 1 ELSE 0]
        /\ IF prev # 0 /\ HasRoom(mem[prev]) /\ ~big
           THEN /\ phase' = "insert"
                /\ call' = [chat |-> c, msg |-> [id |-> id, body |-> i], big |-> big,
                            page |-> prev, prev |-> 0]
                /\ UNCHANGED <<mem, disk>>
           ELSE /\ phase' = "link"
                /\ call' = [chat |-> c, msg |-> [id |-> id, body |-> i], big |-> big,
                            page |-> a.id, prev |-> prev]
                /\ mem' = a.s.mem /\ disk' = a.s.disk
    BY DEF AppendStart
  <1>3. id = i
    BY <1>1 DEF Choose
  <1>4. did'.appends = i
    <2>1. did \in [Bounded -> Nat] /\ "appends" \in Bounded
      BY DEF Typed, CountsOK, Bounded
    <2> QED BY <1>2, <2>1
  <1> HIDE DEF i, a
  <1>5. CASE prev # 0 /\ HasRoom(mem[prev]) /\ ~big
    <2>1. /\ phase' = "insert" /\ mem' = mem /\ disk' = disk
          /\ call' = [chat |-> c, msg |-> [id |-> id, body |-> i], big |-> big,
                      page |-> prev, prev |-> 0]
      BY <1>2, <1>5
    <2>2. c \in DOMAIN tips /\ prev # 0
      BY <1>5
    <2> HIDE DEF prev
    <2>3. call'.chat = c /\ call'.page = prev /\ call'.msg = [id |-> i, body |-> i]
      BY <1>3, <2>1
    <2> QED BY <1>4, <2>1, <2>2, <2>3 DEF Started, prev, i
  <1>6. CASE ~(prev # 0 /\ HasRoom(mem[prev]) /\ ~big)
    <2>1. /\ phase' = "link" /\ mem' = a.s.mem /\ disk' = a.s.disk
          /\ call' = [chat |-> c, msg |-> [id |-> id, body |-> i], big |-> big,
                      page |-> a.id, prev |-> prev]
      BY <1>2, <1>6
    <2> HIDE DEF prev
    <2>3. call'.chat = c /\ call'.page = a.id /\ call'.msg = [id |-> i, body |-> i]
      BY <1>3, <2>1
    <2> QED BY <1>4, <2>1, <2>3 DEF Started, i, a
  <1> QED BY <1>5, <1>6

LEMMA AppendStartCarries ==
    ASSUME Untrimmed, Typed, Carries, NEW c \in Chats, AppendStart(c) PROVE Carries'
  <1>1. PICK n \in Nat : \E own, b : Serves(n, own, b)
    BY Appending DEF AppendStart
  <1>2. PICK own, b : Serves(n, own, b)
    BY <1>1
  <1>3. /\ phase = "open" /\ wal' = wal /\ covered' = covered /\ snap' = snap /\ log' = log
        /\ tips' = tips /\ index' = index
    BY DEF AppendStart
  <1>4. /\ n >= ROOT_PAGES /\ E \in Engine(n) /\ b \in Nat /\ b = did.appends
        /\ wal \in Seq(Recs(n)) /\ Len(wal) \in Nat /\ covered \in 0 .. Len(wal)
        /\ mem \in Heap(n) /\ disk \in Heap(n) /\ tips \in Tips(n)
        /\ Contents(n, own, b, disk, mem, wal, covered, Len(wal), log)
        /\ TipsOwn(tips, mem) /\ Leads(n, index, mem) /\ Covers(index, log, wal, Len(wal))
    BY <1>2, <1>3 DEF Serves, Placed
  <1> DEFINE i == b + 1
             a == AllocChatPage(E.s, c)
             prev == IF c \in DOMAIN tips THEN tips[c].tail ELSE 0
  <1>5. Started(c, i)
    BY <1>4, Starting
  <1>6. /\ did'.appends = i /\ phase' \in {"insert", "link"}
        /\ call'.chat = c /\ call'.msg = [id |-> i, body |-> i]
    BY <1>5 DEF Started
  <1>7. i > 0 /\ i \in Nat /\ b = Placed(phase', did'.appends)
    BY <1>4, <1>6 DEF Placed
  <1>8. c # 0
    BY ChatEngineAssumption
  <1> HIDE DEF i, a
  <1>9. CASE phase' = "insert"
    <2>1. /\ mem' = mem /\ disk' = disk /\ c \in DOMAIN tips /\ prev # 0 /\ call'.page = prev
      BY <1>5, <1>9 DEF Started
    <2>2. prev \in New(n) /\ mem[prev].at32 = c
      BY <1>4, <1>8, <2>1, TipFacts DEF TipsOwn
    <2> HIDE DEF prev
    <2>3. own[prev] = c
      <3>1. PageOf(own[prev], mem[prev])
        BY <1>4, <2>2 DEF Contents, PagesOK, Matches
      <3> QED BY <1>8, <2>2, <3>1 DEF PageOf
    <2>4. CallOwn(own, phase', call', mem', did'.appends)
      BY <1>6, <1>7, <2>1, <2>2, <2>3 DEF CallOwn
    <2>5. Snapped(n, phase', snap', disk', mem', log', wal', covered')
      <3>1. New(n) \subseteq New(n) /\ Grows(n, disk, disk') /\ phase' \in {"open", "link", "insert"}
        BY <1>4, <1>9, <2>1, SameGrows
      <3>2. \A idx : Covers(idx, log, wal, covered) => Covers(idx, log', wal', covered)
        BY <1>3
      <3> QED BY <1>2, <1>3, <3>1, <3>2, SnapNext
    <2>6. phase' \in {"open", "link", "insert"}
      BY <1>6
    <2>7. /\ Contents(n, own, b, disk', mem', wal', covered', Len(wal'), log')
          /\ TipsOwn(tips', mem') /\ Leads(n, index', mem')
          /\ Covers(index', log', wal', Len(wal'))
          /\ Len(wal') \in Nat /\ covered' \in 0 .. Len(wal')
      BY <1>3, <1>4, <2>1
    <2> QED BY <1>4, <1>7, <2>4, <2>5, <2>6, <2>7, NextServes
  <1>10. CASE phase' = "link"
    <2>1. mem' = a.s.mem /\ disk' = a.s.disk /\ call'.page = a.id
      BY <1>5, <1>10 DEF Started, a
    <2> DEFINE s == E.s
               u == Len(wal)
    <2>2. s.mem = mem /\ s.disk = disk /\ s \in Store(n)
      BY <1>4, EngineNow
    <2>3. a = AllocChatPage(s, c) /\ Contents(n, own, b, s.disk, s.mem, wal, covered, u, log)
      BY <1>4, <2>2 DEF a
    <2> HIDE DEF s, u
    <2>4. PageAdded(n, b, s, wal, covered, u, log, c, a)
      BY ONLY n \in Nat, c \in Chats, <1>4, <2>2, <2>3, NewPageView
    <2>5. PICK o2 : o2[n] = c /\ Contents(n + 1, o2, b, a.s.disk, a.s.mem, wal, covered, u, log)
      BY <2>4 DEF PageAdded
    <2>6. a.id = n /\ \A p \in Ids(n) : a.s.mem[p] = s.mem[p]
      BY <2>4 DEF PageAdded
    <2>7. Grows(n, s.mem, a.s.mem) /\ Grows(n, s.disk, a.s.disk)
      BY <2>4 DEF PageAdded
    <2>8. n + 1 \in Nat /\ n + 1 >= ROOT_PAGES /\ New(n) \subseteq Ids(n)
          /\ New(n) \subseteq New(n + 1)
      <3>1. n + 1 \in Nat /\ n + 1 >= ROOT_PAGES /\ n <= n + 1
        BY <1>4 DEF ROOT_PAGES
      <3>2. New(n) \subseteq New(n + 1)
        BY ONLY n \in Nat, <3>1, IdsGrow
      <3>3. New(n) \subseteq Ids(n)
        BY <1>4, IdFacts
      <3> QED BY <3>1, <3>2, <3>3
    <2>9. Contents(n + 1, o2, b, disk', mem', wal', covered', Len(wal'), log')
      BY <1>3, <2>1, <2>5 DEF u
    <2>10. CallOwn(o2, phase', call', mem', did'.appends)
      BY <1>6, <1>7, <1>10, <2>1, <2>5, <2>6 DEF CallOwn
    <2>11. TipsOwn(tips', mem')
      <3>1. \A p \in New(n) : a.s.mem[p].at32 = mem[p].at32
        BY <2>2, <2>6, <2>8
      <3>2. tips \in Tips(n) /\ TipsOwn(tips, mem)
        BY <1>4
      <3>3. TipsOwn(tips, a.s.mem)
        BY ONLY n \in Nat, <3>1, <3>2, TipsStay
      <3> QED BY <1>3, <2>1, <3>3
    <2>12. Leads(n + 1, index', mem')
      <3>1. Leads(n, index, mem) /\ New(n) \subseteq New(n + 1) /\ Grows(n, mem, a.s.mem)
        BY <1>4, <2>2, <2>7, <2>8
      <3>2. Leads(n + 1, index, a.s.mem)
        BY ONLY <3>1, GrowsLeads
      <3> QED BY <1>3, <2>1, <3>2
    <2>13. Snapped(n + 1, phase', snap', disk', mem', log', wal', covered')
      <3>1. New(n) \subseteq New(n + 1) /\ Grows(n, disk, disk')
            /\ phase' \in {"open", "link", "insert"}
        BY <1>10, <2>1, <2>2, <2>7, <2>8
      <3>2. \A idx : Covers(idx, log, wal, covered) => Covers(idx, log', wal', covered)
        BY <1>3
      <3> QED BY <1>2, <1>3, <3>1, <3>2, SnapNext
    <2>14. /\ Covers(index', log', wal', Len(wal')) /\ Len(wal') \in Nat
           /\ covered' \in 0 .. Len(wal') /\ phase' \in {"open", "link", "insert"}
      BY <1>3, <1>4, <1>10
    <2> QED BY <1>7, <2>8, <2>9, <2>10, <2>11, <2>12, <2>13, <2>14, NextServes
  <1> QED BY <1>6, <1>9, <1>10

\* A new message goes into its page, and perhaps into the log.
Placing(n, own, b, h2, r, w2) ==
    /\ PagesOK(n, own, b + 1, disk, h2, w2) /\ LogOK(own, b + 1, disk, h2, w2, covered, Len(w2))
    /\ Grows(n, mem, h2) /\ \A p \in New(n) : h2[p].at32 = mem[p].at32
    /\ r \in Recs(n) /\ r.ty = "insert" /\ r.chat = call.chat /\ r.msg = call.msg
    /\ h2[call.page].rows = Append(mem[call.page].rows, call.msg)
    /\ Len(mem[call.page].rows) \in 0 .. PageCap - 1
    /\ Len(Insert(mem[call.page], call.msg).rows) - 1 = Len(mem[call.page].rows)
    /\ call.page \in New(n) /\ call.chat \in Chats /\ call.chat \in DOMAIN tips
    /\ mem[call.page].at32 = call.chat /\ mem[call.page].rows \in Seq(Message)
    /\ call.msg \in Msgs(b + 1) /\ call.msg \in Message /\ b + 1 = did.appends
    /\ w2 \in Seq(Recs(n)) /\ Len(w2) \in Nat /\ covered \in 0 .. Len(w2)

FilledIn(n, heap, id, m, h2) ==
    /\ h2 \in Heap(n) /\ h2[id].rows = Append(heap[id].rows, m) /\ h2[id].ty = heap[id].ty
    /\ h2[id].at32 = heap[id].at32 /\ \A p \in Ids(n) : p # id => h2[p] = heap[p]
    /\ Len(Insert(heap[id], m).rows) - 1 = Len(heap[id].rows)
    /\ Len(heap[id].rows) \in 0 .. PageCap - 1

LEMMA FillHeap ==
    ASSUME NEW n \in Nat, n >= ROOT_PAGES, NEW heap \in Heap(n), NEW id \in New(n),
           NEW m \in Message, HasRoom(heap[id]), NEW h2, h2 = [heap EXCEPT ![id] = Insert(heap[id], m)]
    PROVE  FilledIn(n, heap, id, m, h2)
  <1> DEFINE page == Insert(heap[id], m)
             g == [heap EXCEPT ![id] = page]
  <1>1. /\ g \in Heap(n) /\ g[id] = page /\ page.rows = Append(heap[id].rows, m)
        /\ \A p \in Ids(n) : p # id => g[p] = heap[p]
        /\ page.ty = heap[id].ty /\ page.at32 = heap[id].at32
        /\ Len(page.rows) - 1 = Len(heap[id].rows)
        /\ Len(heap[id].rows) \in 0 .. PageCap - 1
    BY FillPage
  <1>2. g = h2 /\ page = Insert(heap[id], m)
    OBVIOUS
  <1> HIDE DEF g, page
  <1> QED BY <1>1, <1>2 DEF FilledIn

LEMMA PlaceNow ==
    ASSUME NEW n \in Nat, NEW own, NEW b, Serves(n, own, b), phase = "insert",
           NEW h2, h2 = [mem EXCEPT ![call.page] = Insert(mem[call.page], call.msg)],
           NEW r, r = InsertRec(call.chat, call.page, call.msg), NEW w2 \in {wal, Append(wal, r)}
    PROVE  Placing(n, own, b, h2, r, w2)
  <1> DEFINE c == call.chat
             id == call.page
             m == call.msg
             i == did.appends
  <1>1. /\ n >= ROOT_PAGES /\ CallOK(n, phase, call, mem, tips)
        /\ wal \in Seq(Recs(n)) /\ Len(wal) \in Nat /\ covered \in 0 .. Len(wal) /\ b \in Nat
        /\ b = i - 1 /\ i \in Nat /\ mem \in Heap(n)
        /\ Contents(n, own, b, disk, mem, wal, covered, Len(wal), log)
        /\ own[id] = c /\ i > 0 /\ m = [id |-> i, body |-> i] /\ mem[id].at32 = c
    BY DEF Serves, CallOwn, Placed
  <1>2. /\ c \in Chats /\ id \in New(n) /\ m \in Message /\ HasRoom(mem[id]) /\ c \in DOMAIN tips
    BY <1>1 DEF CallOK, CallType
  <1>3. r \in InsertRecs(n) /\ r \in Recs(n) /\ r.ty = "insert" /\ r.chat = c /\ r.page = id /\ r.msg = m
    BY <1>2 DEF InsertRec, InsertRecs, Recs
  <1>4. b + 1 = i
    BY <1>1
  <1> HIDE DEF c, id, m, i
  <1>5. h2 = [mem EXCEPT ![id] = Insert(mem[id], m)]
    BY DEF id, m
  <1>6. /\ h2 \in Heap(n) /\ h2[id].rows = Append(mem[id].rows, m) /\ h2[id].ty = mem[id].ty
        /\ h2[id].at32 = mem[id].at32 /\ \A p \in Ids(n) : p # id => h2[p] = mem[p]
        /\ Len(Insert(mem[id], m).rows) - 1 = Len(mem[id].rows)
        /\ Len(mem[id].rows) \in 0 .. PageCap - 1
    <2>1. /\ n >= ROOT_PAGES /\ mem \in Heap(n) /\ id \in New(n) /\ m \in Message
          /\ HasRoom(mem[id])
      BY <1>1, <1>2
    <2>2. FilledIn(n, mem, id, m, h2)
      BY ONLY n \in Nat, <1>5, <2>1, FillHeap
    <2> QED BY <2>2 DEF FilledIn
  <1>7. /\ h2 \in Heap(n) /\ h2[id].rows = Append(mem[id].rows, m) /\ h2[id].ty = mem[id].ty
        /\ h2[id].at32 = mem[id].at32 /\ \A p \in Ids(n) : p # id => h2[p] = mem[p]
    BY <1>6
  <1>8. /\ PagesOK(n, own, b, disk, mem, wal) /\ LogOK(own, b, disk, mem, wal, covered, Len(wal))
        /\ New(n) \subseteq Ids(n)
    BY <1>1, IdFacts DEF Contents
  <1>9. PageOf(own[id], h2[id])
    <2>1. PageOf(own[id], mem[id])
      BY <1>2, <1>8 DEF PagesOK, Matches
    <2> QED BY <1>1, <1>7, <2>1 DEF PageOf
  <1>10. PagesOK(n, own, b + 1, disk, h2, w2) /\ LogOK(own, b + 1, disk, h2, w2, covered, Len(w2))
    <2>1. n >= ROOT_PAGES /\ b \in Nat /\ wal \in Seq(Recs(n)) /\ w2 \in {wal, Append(wal, r)}
          /\ covered \in Nat /\ covered <= Len(wal)
      BY <1>1
    <2>2. Puts(n, own, b, mem, h2, id, m, r)
      BY <1>1, <1>2, <1>3, <1>4, <1>7, <1>9 DEF Puts
    <2> QED BY ONLY n \in Nat, <1>8, <2>1, <2>2, PlaceStep
  <1>11. Grows(n, mem, h2)
    <2>1. /\ h2[id].rows \in {mem[id].rows, Append(mem[id].rows, m)}
          /\ \A p \in New(n) : p # id => h2[p].rows = mem[p].rows
      BY <1>7, <1>8
    <2> QED BY <1>1, <1>2, <2>1, OneGrows
  <1>12. \A p \in New(n) : h2[p].at32 = mem[p].at32
    BY <1>7, <1>8
  <1>13. m \in Msgs(b + 1)
    BY <1>1, <1>4 DEF Msgs
  <1>14. w2 \in Seq(Recs(n)) /\ Len(w2) \in Nat /\ covered \in 0 .. Len(w2)
    BY <1>1, <1>3, SMTT(30)
  <1>15. mem[id].rows \in Seq(Message)
    BY <1>1, <1>2, PageRows
  <1> QED BY <1>1, <1>2, <1>3, <1>4, <1>6, <1>7, <1>10, <1>11, <1>12, <1>13, <1>14, <1>15
          DEF Placing, c, id, m, i

\* A message that is acknowledged is in the index.
LEMMA CoversAcked ==
    ASSUME NEW idx, NEW lg \in [Chats -> Seq(Message)], NEW T, NEW w \in Seq(T),
           Covers(idx, lg, w, Len(w)), NEW c \in Chats, NEW m \in Message, NEW l2,
           l2 = Acked(lg, c, m), NEW i2, Keys(i2) = Keys(idx) \cup {<<c, m.id>>}, NEW w2, NEW k
    PROVE  Covers(i2, l2, w2, k)
  <1>1. OnlyAdds(lg, l2, c, m)
    BY AckGrows
  <1>2. \A j \in DOMAIN w : ~(j > Len(w))
    OBVIOUS
  <1>3. \A d \in Chats : \A x \in ToSet(lg[d]) : <<d, x.id>> \in Keys(idx)
    BY <1>2 DEF Covers, Pending
  <1>4. \A d \in Chats : \A x \in ToSet(l2[d]) : <<d, x.id>> \in Keys(i2)
    BY <1>1, <1>3 DEF OnlyAdds
  <1> QED BY <1>4 DEF Covers

LEMMA AppendInsertCarries == ASSUME Typed, Carries, AppendInsert PROVE Carries'
  <1>1. PICK n \in Nat : \E own, b : Serves(n, own, b)
    BY Appending DEF AppendInsert
  <1>2. PICK own, b : Serves(n, own, b)
    BY <1>1
  <1> DEFINE c == call.chat
             id == call.page
             m == call.msg
             rows == Insert(mem[id], m).rows
             h2 == [mem EXCEPT ![id] = Insert(mem[id], m)]
             r == InsertRec(c, id, m)
             w2 == Append(wal, r)
             t == tips[c]
             u == [tips EXCEPT ![c] = Tip(t.head, id, t.count + 1)]
             j2 == SetLoc(index, c, m.id, id, Len(rows) - 1)
             l2 == Acked(log, c, m)
  <1>3. /\ phase = "insert" /\ phase' = "open" /\ mem' = h2 /\ wal' = w2 /\ tips' = u /\ index' = j2
        /\ log' = l2 /\ disk' = disk /\ covered' = covered /\ snap' = snap /\ did' = did
    BY DEF AppendInsert, Acked
  <1>4. /\ n >= ROOT_PAGES /\ wal \in Seq(Recs(n)) /\ Len(wal) \in Nat /\ covered \in 0 .. Len(wal)
        /\ b \in Nat /\ mem \in Heap(n) /\ disk \in Heap(n) /\ tips \in Tips(n)
        /\ index \in Index(n) /\ Leads(n, index, mem) /\ TipsOwn(tips, mem)
        /\ Contents(n, own, b, disk, mem, wal, covered, Len(wal), log)
        /\ Covers(index, log, wal, Len(wal))
    BY <1>2 DEF Serves
  <1>5. Placing(n, own, b, h2, r, w2)
    <2>1. w2 \in {wal, Append(wal, r)}
      OBVIOUS
    <2> QED BY <1>2, <1>3, <2>1, PlaceNow
  <1>6. LogsKept(n, b, disk, wal, covered, log) /\ own \in [New(n) -> Chats]
        /\ log \in [Chats -> Seq(Message)]
    BY <1>4 DEF Contents, LogsKept
  <1> HIDE DEF c, id, m, rows, h2, r, l2, u, j2, t
  <1>7. /\ Grows(n, mem, h2) /\ \A p \in New(n) : h2[p].at32 = mem[p].at32
        /\ r \in Recs(n) /\ r.ty = "insert" /\ r.chat = c /\ r.msg = m
        /\ h2[id].rows = Append(mem[id].rows, m) /\ Len(mem[id].rows) \in 0 .. PageCap - 1
        /\ Len(rows) - 1 = Len(mem[id].rows) /\ id \in New(n) /\ c \in Chats /\ c \in DOMAIN tips
        /\ mem[id].at32 = c /\ mem[id].rows \in Seq(Message)
        /\ m \in Msgs(b + 1) /\ m \in Message /\ b + 1 = did.appends
    BY <1>5 DEF Placing, c, id, m, rows
  <1>8. /\ PagesOK(n, own, b + 1, disk, h2, w2) /\ LogOK(own, b + 1, disk, h2, w2, covered, Len(w2))
        /\ w2 \in Seq(Recs(n)) /\ Len(w2) \in Nat /\ covered \in 0 .. Len(w2)
    BY <1>5 DEF Placing
  <1>9. LogsKept(n, b + 1, disk, w2, covered, l2)
    <2>1. b + 1 \in Nat /\ b <= b + 1 /\ covered \in Nat /\ covered <= Len(wal)
          /\ l2 = Acked(log, c, m)
      BY <1>4 DEF l2
    <2> QED BY ONLY <1>4, <1>6, <1>7, <2>1, KeptNew
  <1>10. Contents(n, own, b + 1, disk', mem', wal', covered', Len(wal'), log')
    BY <1>3, <1>6, <1>8, <1>9 DEF Contents
  <1>11. b + 1 = Placed(phase', did'.appends) /\ CallOwn(own, phase', call', mem', did'.appends)
    BY <1>3, <1>7 DEF Placed, CallOwn
  <1>12. TipsOwn(tips', mem')
    <2>1. TipsOwn(tips, h2)
      <3>1. tips \in Tips(n) /\ TipsOwn(tips, mem) /\ \A p \in New(n) : h2[p].at32 = mem[p].at32
        BY <1>4, <1>7
      <3> QED BY ONLY n \in Nat, <3>1, TipsStay
    <2>2. h2[id].at32 = c
      BY <1>7
    <2>3. DOMAIN u = DOMAIN tips /\ u[c].tail = id /\ \A d \in DOMAIN tips : d # c => u[d] = tips[d]
      BY <1>7 DEF u, Tip
    <2> QED BY <1>3, <2>1, <2>2, <2>3 DEF TipsOwn
  <1>13. Leads(n, j2, h2) /\ Keys(j2) = Keys(index) \cup {<<c, m.id>>}
    <2> DEFINE slot == Len(rows) - 1
    <2>1. slot \in 0 .. PageCap - 1 /\ slot + 1 = Len(mem[id].rows) + 1
      BY <1>7
    <2>2. slot + 1 \in DOMAIN h2[id].rows /\ h2[id].rows[slot + 1] = m
      BY <1>7, <2>1
    <2>3. j2 = SetLoc(index, c, m.id, id, slot) /\ c \in Owners /\ m.id \in Nat
          /\ h2[id].rows[slot + 1].id = m.id
      BY <1>7, <2>2 DEF j2, Owners, Message
    <2> HIDE DEF slot
    <2>4. Leads(n, index, h2)
      <3>1. Leads(n, index, mem) /\ Grows(n, mem, h2)
        BY <1>4, <1>7
      <3> QED BY ONLY <3>1, GrowsLeads
    <2> QED BY ONLY n \in Nat, <1>4, <1>7, <2>1, <2>2, <2>3, <2>4, LeadsSet, SMTT(30)
  <1>14. Covers(j2, l2, w2, Len(w2))
    <2>1. /\ l2 = Acked(log, c, m) /\ log \in [Chats -> Seq(Message)] /\ c \in Chats
          /\ m \in Message /\ Keys(j2) = Keys(index) \cup {<<c, m.id>>}
          /\ wal \in Seq(Recs(n)) /\ Covers(index, log, wal, Len(wal))
      BY <1>4, <1>6, <1>7, <1>13 DEF l2
    <2> QED BY ONLY <2>1, CoversAcked
  <1>15. Snapped(n, phase', snap', disk', mem', log', wal', covered')
    <2>1. ASSUME NEW idx, Covers(idx, log, wal, covered) PROVE Covers(idx, l2, w2, covered)
      <3>1. covered \in Nat /\ covered <= Len(wal) /\ l2 = Acked(log, c, m)
        BY <1>4 DEF l2
      <3> QED BY ONLY <1>4, <1>6, <1>7, <2>1, <3>1, CoversNew
    <2>2. New(n) \subseteq New(n) /\ Grows(n, disk, disk') /\ phase' \in {"open", "link", "insert"}
      BY <1>3, <1>4, SameGrows
    <2>3. \A idx : Covers(idx, log, wal, covered) => Covers(idx, log', wal', covered)
      BY <1>3, <2>1
    <2> QED BY <1>2, <1>3, <2>2, <2>3, SnapNext
  <1>16. /\ Leads(n, index', mem') /\ Covers(index', log', wal', Len(wal')) /\ Len(wal') \in Nat
         /\ covered' \in 0 .. Len(wal') /\ phase' \in {"open", "link", "insert"}
    BY <1>3, <1>8, <1>13, <1>14
  <1> QED BY <1>4, <1>10, <1>11, <1>12, <1>15, <1>16, NextServes

LEMMA AppendFailsCarries == ASSUME Typed, Carries, AppendFails PROVE Carries'
  <1>1. PICK n \in Nat : \E own, b : Serves(n, own, b)
    BY Appending DEF AppendFails
  <1>2. PICK own, b : Serves(n, own, b)
    BY <1>1
  <1> DEFINE c == call.chat
             id == call.page
             m == call.msg
             i == did.appends
             h2 == [mem EXCEPT ![id] = Insert(mem[id], m)]
             link == Link(c, id, call.prev)
             insert == InsertRec(c, id, m)
  <1>3. /\ phase' = "open" /\ disk' = disk /\ covered' = covered /\ snap' = snap /\ tips' = tips
        /\ index' = index /\ log' = log /\ Does("fails")
        /\ \/ phase = "link" /\ wal' \in {wal, Append(wal, link)} /\ mem' = mem
           \/ phase = "insert" /\ wal' \in {wal, Append(wal, insert)} /\ mem' = h2
    BY DEF AppendFails
  <1>4. /\ n >= ROOT_PAGES /\ wal \in Seq(Recs(n)) /\ Len(wal) \in Nat /\ covered \in 0 .. Len(wal)
        /\ b \in Nat /\ mem \in Heap(n) /\ disk \in Heap(n) /\ tips \in Tips(n)
        /\ Leads(n, index, mem) /\ TipsOwn(tips, mem) /\ CallOK(n, phase, call, mem, tips)
        /\ CallOwn(own, phase, call, mem, i)
        /\ Contents(n, own, b, disk, mem, wal, covered, Len(wal), log)
        /\ Covers(index, log, wal, Len(wal)) /\ b + 1 = i /\ i \in Nat
    BY <1>2, <1>3 DEF Serves, Placed
  <1>5. did'.appends = i
    BY <1>3 DEF Does, Typed, CountsOK, Bounded
  <1> HIDE DEF c, id, m, i, h2, link, insert
  <1>6. /\ PagesOK(n, own, b, disk, mem, wal) /\ LogOK(own, b, disk, mem, wal, covered, Len(wal))
        /\ LogsKept(n, b, disk, wal, covered, log) /\ own \in [New(n) -> Chats]
    BY <1>4 DEF Contents
  <1>7. /\ PagesOK(n, own, b + 1, disk, mem', wal')
        /\ LogOK(own, b + 1, disk, mem', wal', covered, Len(wal'))
        /\ TipsOwn(tips, mem') /\ Leads(n, index, mem')
        /\ wal' = wal \/ \E r \in Recs(n) : wal' = Append(wal, r)
    <2>1. CASE phase = "link"
      <3>1. mem' = mem /\ wal' \in {wal, Append(wal, link)}
        BY <1>3, <2>1
      <3>2. link \in LinkRecs(n) /\ link \in Recs(n) /\ own[link.page] = link.chat
        BY <1>4, <2>1 DEF CallOK, CallType, CallOwn, Link, LinkRecs, Recs, link, c, id
      <3> DEFINE w2 == Append(wal, link)
      <3>3. PagesOK(n, own, b, disk, mem, w2) /\ LogOK(own, b, disk, mem, w2, covered, Len(w2))
        BY ONLY n \in Nat, <1>4, <1>6, <3>2, LinkStep
      <3>4. w2 \in Seq(Recs(n))
        BY <1>4, <3>2
      <3> HIDE DEF w2
      <3>5. /\ PagesOK(n, own, b, disk, mem, wal')
            /\ LogOK(own, b, disk, mem, wal', covered, Len(wal')) /\ wal' \in Seq(Recs(n))
        BY <1>4, <1>6, <3>1, <3>3, <3>4 DEF w2
      <3>6. InPages(n, wal') /\ SameRows(n, own, mem, mem)
        <4>1. InPages(n, wal')
          BY <3>5, RecPages DEF InPages
        <4>2. SameRows(n, own, mem, mem)
          BY <1>6 DEF SameRows, PagesOK, Matches
        <4> QED BY <4>1, <4>2
      <3>7. /\ PagesOK(n, own, b + 1, disk, mem, wal')
            /\ LogOK(own, b + 1, disk, mem, wal', covered, Len(wal'))
        <4>1. b + 1 \in Nat /\ b <= b + 1
          BY <1>4
        <4> QED BY ONLY n \in Nat, <1>4, <3>5, <3>6, <4>1, ViewStep
      <3> QED BY <1>4, <3>1, <3>2, <3>7
    <2>2. CASE phase = "insert"
      <3>1. mem' = h2 /\ wal' \in {wal, Append(wal, insert)}
        BY <1>3, <2>2
      <3>2. Placing(n, own, b, h2, insert, wal')
        BY <1>2, <2>2, <3>1, PlaceNow DEF h2, insert, c, id, m
      <3>3. /\ PagesOK(n, own, b + 1, disk, h2, wal')
            /\ LogOK(own, b + 1, disk, h2, wal', covered, Len(wal')) /\ insert \in Recs(n)
            /\ Grows(n, mem, h2) /\ \A p \in New(n) : h2[p].at32 = mem[p].at32
        BY <3>2 DEF Placing
      <3>4. Leads(n, index, h2)
        <4>1. Leads(n, index, mem) /\ Grows(n, mem, h2)
          BY <1>4, <3>3
        <4> QED BY ONLY <4>1, GrowsLeads
      <3>5. TipsOwn(tips, h2)
        <4>1. /\ tips \in Tips(n) /\ TipsOwn(tips, mem)
              /\ \A p \in New(n) : h2[p].at32 = mem[p].at32
          BY <1>4, <3>3
        <4> QED BY ONLY n \in Nat, <4>1, TipsStay
      <3> QED BY <3>1, <3>3, <3>4, <3>5
    <2> QED BY <1>3, <2>1, <2>2
  <1>8. /\ LogsKept(n, b + 1, disk, wal', covered, log)
        /\ \A idx : Covers(idx, log, wal, covered) => Covers(idx, log, wal', covered)
        /\ Len(wal') \in Nat /\ covered \in 0 .. Len(wal')
    <2>1. LogsKept(n, b + 1, disk, wal, covered, log)
      <3>1. Contents(n, own, b + 1, disk, mem, wal, covered, Len(wal), log)
        BY ONLY n \in Nat, <1>4, OnePlaced
      <3> QED BY <3>1 DEF Contents
    <2>2. CASE wal' = wal
      BY <1>4, <2>1, <2>2
    <2>3. CASE wal' # wal
      <3>1. PICK r \in Recs(n) : wal' = Append(wal, r)
        BY <1>7, <2>3
      <3>2. covered \in Nat /\ wal \in Seq(Recs(n))
        BY <1>4
      <3>3. LogsKept(n, b + 1, disk, Append(wal, r), covered, log)
        BY ONLY <2>1, <3>2, KeptLogs
      <3>4. ASSUME NEW idx, Covers(idx, log, wal, covered)
            PROVE  Covers(idx, log, Append(wal, r), covered)
        BY ONLY <3>2, <3>4, CoversLogs
      <3>5. Len(Append(wal, r)) = Len(wal) + 1
        BY <3>2
      <3> QED BY <1>4, <3>1, <3>3, <3>4, <3>5
    <2> QED BY <2>2, <2>3
  <1>9. Contents(n, own, b + 1, disk', mem', wal', covered', Len(wal'), log')
    BY <1>3, <1>6, <1>7, <1>8 DEF Contents
  <1>10. b + 1 = Placed(phase', did'.appends) /\ CallOwn(own, phase', call', mem', did'.appends)
    BY <1>3, <1>4, <1>5 DEF Placed, CallOwn
  <1>11. Covers(index', log', wal', Len(wal'))
    <2>1. Covers(index, log, wal', Len(wal'))
      BY ONLY <1>4, CoversFull
    <2> QED BY <1>3, <2>1
  <1>12. Snapped(n, phase', snap', disk', mem', log', wal', covered')
    <2>1. New(n) \subseteq New(n) /\ Grows(n, disk, disk') /\ phase' \in {"open", "link", "insert"}
      BY <1>3, <1>4, SameGrows
    <2>2. \A idx : Covers(idx, log, wal, covered) => Covers(idx, log', wal', covered)
      BY <1>3, <1>8
    <2> QED BY <1>2, <1>3, <2>1, <2>2, SnapNext
  <1>13. /\ TipsOwn(tips', mem') /\ Leads(n, index', mem') /\ Len(wal') \in Nat
         /\ covered' \in 0 .. Len(wal') /\ phase' \in {"open", "link", "insert"}
    BY <1>3, <1>7, <1>8
  <1> QED BY <1>4, <1>9, <1>10, <1>11, <1>12, <1>13, NextServes

LEMMA NoTrims ==
    ASSUME Untrimmed, Typed, NEW c, NEW keep PROVE ~TrimKeepLast(c, keep)
  <1>1. setup.trims = 0 /\ did["trims"] \in Nat
    BY DEF Untrimmed, Typed, CountsOK, Bounded
  <1>2. TrimKeepLast(c, keep) => did["trims"] < setup["trims"]
    BY DEF TrimKeepLast, Does, May
  <1> QED BY <1>1, <1>2

LEMMA StepCarries ==
    ASSUME Untrimmed, Typed, Carries, [Next]_vars PROVE Carries'
  <1>1. CASE Next
    BY <1>1, OpenCarries, ReplayCarries, OpenedCarries, RecentCarries, AppendStartCarries,
       AppendLinkCarries, AppendTooLargeCarries, AppendInsertCarries, AppendFailsCarries, NoTrims,
       EvictCarries, CkptFlushCarries, CkptSnapshotCarries, CkptPersistCarries, CkptRotateCarries,
       CloseSkippedCarries, CrashCarries DEF Next
  <1>2. CASE UNCHANGED vars
    <2>1. /\ disk' = disk /\ wal' = wal /\ covered' = covered /\ snap' = snap /\ phase' = phase
          /\ mem' = mem /\ tips' = tips /\ index' = index /\ replayed' = replayed
          /\ call' = call /\ log' = log /\ did' = did
      BY <1>2 DEF vars
    <2>2. PICK n \in Nat : n >= ROOT_PAGES /\ \E own : Carried(n, own)
      BY DEF Carries
    <2>3. PICK own : Carried(n, own)
      BY <2>2
    <2>4. Carried(n, own)'
      BY <2>1, <2>3 DEF Carried
    <2> QED BY <2>2, <2>4 DEF Carries
  <1> QED BY <1>1, <1>2

\* What the invariant says of chat_get
LEMMA CarriesReads == ASSUME Typed, Carries PROVE AckedReadable
  <1> SUFFICES ASSUME Serving, NEW c \in Chats, NEW k \in DOMAIN log[c]
               PROVE  ChatGet(E, c, log[c][k].id) = log[c][k]
    BY DEF AckedReadable
  <1>1. phase \in Phases \ {"closed", "replay"}
    BY DEF Serving
  <1>2. PICK n \in Nat : \E own : Works(n, own)
    BY <1>1, Working
  <1>3. PICK own : Works(n, own)
    BY <1>2
  <1> DEFINE b == Placed(phase, did.appends)
             m == log[c][k]
             key == <<c, m.id>>
  <1>4. Upto(phase, wal, replayed) = Len(wal) /\ Later(Len(wal), covered) = Len(wal)
    <2>1. Len(wal) \in Nat /\ covered \in 0 .. Len(wal)
      BY <1>3 DEF Works
    <2> QED BY <1>1, <2>1, AllReplayed DEF Upto
  <1>5. /\ n >= ROOT_PAGES /\ E \in Engine(n) /\ wal \in Seq(Recs(n)) /\ mem \in Heap(n)
        /\ PagesOK(n, own, b, disk, mem, wal) /\ LogsKept(n, b, disk, wal, covered, log)
        /\ Leads(n, index, mem) /\ Covers(index, log, wal, Len(wal))
    BY <1>3, <1>4 DEF Works, Contents, Live
  <1>6. b \in Nat
    BY <1>3 DEF Works, Placed, CallOwn
  <1> HIDE DEF b
  <1>7. m \in ToSet(log[c]) /\ m \in Msgs(b)
    <2>1. log[c] \in Seq(Message)
      BY <1>5 DEF LogsKept
    <2>2. m \in ToSet(log[c])
      BY <2>1, RowsFacts
    <2> QED BY <1>5, <2>2 DEF LogsKept
  <1> HIDE DEF m
  <1>8. key \in Keys(index)
    <2>1. \A j \in DOMAIN wal : ~(j > Len(wal))
      BY <1>5
    <2> QED BY <1>5, <1>7, <2>1 DEF Covers, Pending
  <1> DEFINE loc == GetLoc(index, c, m.id)
             rows == mem[loc.page].rows
             s == loc.slot + 1
  <1>9. loc.page \in New(n) /\ s \in DOMAIN rows /\ rows[s].id = m.id
    <2>1. loc = UnpackLoc(index.at[key]) /\ key[2] = m.id
      BY DEF GetLoc
    <2> HIDE DEF key
    <2> QED BY <1>5, <1>8, <2>1 DEF Leads
  <1> HIDE DEF loc
  <1>10. rows[s] = m
    <2> HIDE DEF s
    <2>1. rows \in Seq(Message) /\ ToSet(rows) \subseteq Msgs(b)
      BY <1>5, <1>9, PageRows DEF PagesOK, Matches
    <2> HIDE DEF rows
    <2>2. rows[s] \in ToSet(rows)
      BY <1>9, <2>1, RowsFacts
    <2>3. rows[s] \in Msgs(b) /\ rows[s].id = m.id
      BY <1>9, <2>1, <2>2
    <2>4. \A m1, m2 \in Msgs(b) : m1.id = m2.id => m1 = m2
      <3>1. b <= b
        BY <1>6
      <3> QED BY <1>6, <3>1, MsgsFacts
    <2> QED BY <1>7, <2>3, <2>4
  <1>11. E.index = index /\ E.s.mem = mem
    <2>1. E.s = [mem |-> mem, disk |-> disk] /\ E.index = index
      BY <1>5, EngineNow
    <2> QED BY <2>1
  <1>12. ChatGet(E, c, m.id) = m
    BY <1>8, <1>9, <1>10, <1>11 DEF ChatGet, loc
  <1> QED BY <1>12 DEF m

\* A message that chat_append has acknowledged is found by chat_get under its id from then
\* on, in every engine that has recovered: evictions, checkpoints, deaths of the process at any point
\* of an append, a checkpoint or a recovery, and writes of the log that fail do not lose it.
\* The hypothesis leaves out trims, which drop messages, and ids that are used twice.
THEOREM AckedIsReadable ==
    ASSUME Untrimmed
    PROVE  Spec => []AckedReadable
  <1> DEFINE Inv == Typed /\ Carries
  <1>1. Init => Inv
    BY InitTyped, InitCarries
  <1>2. Inv /\ [Next]_vars => Inv'
    BY StepTyped, StepCarries
  <1>3. Inv => AckedReadable
    BY CarriesReads
  <1> HIDE DEF Inv
  <1> QED BY <1>1, <1>2, <1>3, PTL DEF Spec
=============================================================================
