------------------------------ MODULE ChatPages ------------------------------
(***************************************************************************)
(* The page algorithms behind the chat log: the functions of engine.rs     *)
(* that keep chats on pages, in chains, with tips, an index and rings.     *)
(*                                                                         *)
(* Pages 1 to 4 are the roots of the other domains; no operator of this    *)
(* module touches them, so they are left out of the stores.  A row is a    *)
(* message [id, body].                                                     *)
(***************************************************************************)
EXTENDS Pages, MsgIndex

CONSTANT RingMax      \* Engine.chat_ring_max

\* A location has 16 bits for the slot, and a page of PAGE_SIZE bytes has fewer slots.
ASSUME ChatPagesAssumption == RingMax \in Nat \ {0} /\ PageCap <= SLOTS

EmptyHeap  == [id \in {Super} |-> Alloc("super")]
EmptyStore == [mem |-> EmptyHeap, disk |-> EmptyHeap]

SlotOf(page, id) == {k \in DOMAIN page.rows : page.rows[k].id = id}

\* alloc_page(Chat) and the write of the chat id, always together
AllocChatPage(s, c) ==
    LET a == AllocPage(s, "chat") IN [a EXCEPT !.s.mem[a.id].at32 = c]

\* read_chat_chain
ReadChain(pages, head) ==
    LET chain == Chain(pages, head)
        rows[k \in 0 .. Len(chain)] ==
            IF k = 0 THEN <<>> ELSE rows[k - 1] \o pages[chain[k]].rows
    IN  rows[Len(chain)]

LastOf(rows, n) ==
    SubSeq(rows, IF Len(rows) > n THEN Len(rows) - n + 1 ELSE 1, Len(rows))

\* push_chat_ring
PushRingUndrained(ring, m) == Append(ring, m)                        \* mutant
PushRingWrongEnd(ring, m) ==                                         \* mutant
    LET all == Append(ring, m) IN SubSeq(all, 1, Min({Len(all), RingMax}))
PushRing(ring, m) == LastOf(Append(ring, m), RingMax)

-----------------------------------------------------------------------------
(* The engine's state as far as chats go: the store, chat_tips, msg_index   *)
(* and chat_recent_ring.  The last three are functions whose domain is the  *)
(* set of keys present.                                                     *)

Tip(head, tail, count) == [head |-> head, tail |-> tail, count |-> count]
Without(f, ks) == [k \in DOMAIN f \ ks |-> f[k]]

\* apply_wal(LinkChatPage): the page keeps its rows and its next pointer.
ApplyLink(e, c, id, prev) ==
    LET s == EnsurePageCount(e.s, id + 1)
        owned == [s EXCEPT !.mem[id].ty = "chat", !.mem[id].at32 = c]
    IN  [e EXCEPT
           !.s = IF prev = 0 THEN owned ELSE [owned EXCEPT !.mem[prev].next = id],
           !.tips = Put(@, c, IF c \in DOMAIN @ THEN [@[c] EXCEPT !.tail = id]
                                                ELSE Tip(id, id, 0))]

\* apply_wal(InsertTuple): a message with this id that is already on the page
\* stands, and a page without room drops the message.
ApplyInsert(e, id, c, m) ==
    LET s == EnsurePageCount(e.s, id + 1)
        page == IF s.mem[id].ty = "free" \/ s.mem[id].rows = <<>>
                THEN [s.mem[id] EXCEPT !.ty = "chat", !.at32 = c] ELSE s.mem[id]
        there == SlotOf(page, m.id)
        fits == there = {} /\ HasRoom(page)
        tip == IF c \in DOMAIN e.tips THEN e.tips[c] ELSE Tip(id, id, 0)
    IN  IF there = {} /\ ~fits
        THEN [e EXCEPT !.s = [s EXCEPT !.mem[id] = page]]
        ELSE [e EXCEPT
                !.s = [s EXCEPT !.mem[id] = IF fits THEN Insert(page, m) ELSE page],
                !.index = SetLoc(@, c, m.id, id,
                                 IF fits THEN Len(page.rows) ELSE Min(there) - 1),
                !.tips = Put(@, c, Tip(tip.head, Max({tip.tail, id}),
                                       tip.count + IF fits THEN 1 ELSE 0))]

\* One message of the rewriting loop of trim_chat_local: onto the tail page when
\* it fits, otherwise onto another page behind it.
RewriteTarget(e, c) ==
    LET tail == e.tips[c].tail
        a == AllocChatPage(e.s, c)
    IN  IF HasRoom(e.s.mem[tail])
        THEN [id |-> tail, s |-> e.s]
        ELSE [id |-> a.id, s |-> [a.s EXCEPT !.mem[tail].next = a.id]]

RewriteTailKept(e, c, m) ==                                          \* mutant
    LET at == RewriteTarget(e, c)
    IN  [e EXCEPT
           !.s = [at.s EXCEPT !.mem[at.id] = Insert(@, m)],
           !.index = SetLoc(@, c, m.id, at.id, Len(at.s.mem[at.id].rows)),
           !.tips[c] = Tip(@.head, @.tail, @.count + 1)]
Rewrite(e, c, m) ==
    LET at == RewriteTarget(e, c)
    IN  [e EXCEPT
           !.s = [at.s EXCEPT !.mem[at.id] = Insert(@, m)],
           !.index = SetLoc(@, c, m.id, at.id, Len(at.s.mem[at.id].rows)),
           !.tips[c] = Tip(@.head, at.id, @.count + 1)]

\* What a trim keeps of a chat with more than `keep' messages
KeptFirst(all, keep) == SubSeq(all, 1, keep)                         \* mutant
Kept(all, keep) == LastOf(all, keep)

\* trim_chat_local: free the chain, then rewrite the last `keep' messages into
\* pages taken from the freelist.
TrimChat(e, c, keep) ==
    LET tip  == e.tips[c]
        all  == ReadChain(e.s.mem, tip.head)
        kept == Kept(all, keep)
        chain == Chain(e.s.mem, tip.head)
        free[k \in 0 .. Len(chain)] ==
            IF k = 0 THEN e.s ELSE FreePage(free[k - 1], chain[k])
        freed == [e EXCEPT !.s = free[Len(chain)], !.index = DeleteChat(@, c)]
        a == AllocChatPage(freed.s, c)
        start == [freed EXCEPT !.s = a.s, !.tips = Put(@, c, Tip(a.id, a.id, 0))]
        done[k \in 0 .. Len(kept)] ==
            IF k = 0 THEN start ELSE Rewrite(done[k - 1], c, kept[k])
    IN  IF c \notin DOMAIN e.tips \/ tip.count <= keep THEN e
        ELSE IF kept = <<>>
             THEN [freed EXCEPT !.tips = Without(@, {c}), !.ring = Without(@, {c})]
             ELSE [done[Len(kept)] EXCEPT !.ring = Put(@, c, LastOf(kept, RingMax))]

-----------------------------------------------------------------------------
(* Opening: what Engine::open derives from heap.ndb. *)

ChatPagesOf(heap, c) ==
    {id \in DOMAIN heap \ {Super} : heap[id].ty = "chat" /\ heap[id].at32 = c}
ChatsOn(heap) ==
    {heap[id].at32 : id \in {i \in DOMAIN heap \ {Super} : heap[i].ty = "chat"}}
\* The pages and slots, from 1, of the messages on some pages
Places(heap, ids) == UNION {{id} \X DOMAIN heap[id].rows : id \in ids}
MessagesOn(heap, ids) == Cardinality(Places(heap, ids))

\* rebuild_from_heap sets the next pointer of every page of a chat to the page
\* after it in ascending order.
Relink(heap) ==
    [id \in DOMAIN heap |->
        IF id # Super /\ heap[id].ty = "chat"
        THEN LET later == {j \in ChatPagesOf(heap, heap[id].at32) : j > id}
             IN  [heap[id] EXCEPT !.next = IF later = {} THEN 0 ELSE Min(later)]
        ELSE heap[id]]

\* The tips it computes
TipsOfLast(heap) ==                                                  \* mutant
    [c \in ChatsOn(heap) |->
        LET ids == ChatPagesOf(heap, c)
        IN  Tip(Max(ids), Max(ids), MessagesOn(heap, ids))]
TipsOf(heap) ==
    [c \in ChatsOn(heap) |->
        LET ids == ChatPagesOf(heap, c)
        IN  Tip(Min(ids), Max(ids), MessagesOn(heap, ids))]

\* rebuild_msg_index scans pages and slots in ascending order, which is that of the
\* packed locations: the last message with an id wins.
IndexFromHeap(heap) ==
    LET places == Places(heap, {id \in DOMAIN heap \ {Super} : heap[id].ty = "chat"})
        key(at) == <<heap[at[1]].at32, heap[at[1]].rows[at[2]].id>>
        keys == {key(at) : at \in places}
        of(k) == {at \in places : key(at) = k}
    IN  [at   |-> [k \in keys |-> Max({PackLoc(at[1], at[2] - 1) : at \in of(k)})],
         size |-> Cardinality(keys)]

\* warm_chat_rings
WarmRings(e) ==
    [c \in DOMAIN e.tips |-> LastOf(ReadChain(e.s.mem, e.tips[c].head), RingMax)]

-----------------------------------------------------------------------------
(* Reading. *)

NoMessage == [id |-> 0, body |-> 0]

\* chat_get: the slots of the code count from 0.
ChatGet(e, c, id) ==
    IF <<c, id>> \notin Keys(e.index) THEN NoMessage
    ELSE LET loc  == GetLoc(e.index, c, id)
             rows == e.s.mem[loc.page].rows
         IN  IF loc.slot + 1 \in DOMAIN rows /\ rows[loc.slot + 1].id = id
             THEN rows[loc.slot + 1] ELSE NoMessage

\* chat_get_batch: the pages are read first, in order, and decoded afterwards.
ChatGetBatch(e, c, ids) ==
    LET raw == [k \in DOMAIN ids |->
                  IF <<c, ids[k]>> \notin Keys(e.index) THEN NoMessage
                  ELSE LET loc  == GetLoc(e.index, c, ids[k])
                           rows == e.s.mem[loc.page].rows
                       IN  IF loc.slot + 1 \in DOMAIN rows THEN rows[loc.slot + 1]
                           ELSE NoMessage]
    IN  [k \in DOMAIN ids |-> IF raw[k].id = ids[k] THEN raw[k] ELSE NoMessage]

\* chat_recent: from the ring when it is long enough, otherwise from the pages
WantOf(limit) == IF limit = 0 THEN RingMax ELSE limit
ChatRecent(e, c, limit) ==
    LET want == WantOf(limit)
    IN  IF c \in DOMAIN e.ring /\ want <= Len(e.ring[c]) THEN LastOf(e.ring[c], want)
        ELSE IF c \notin DOMAIN e.tips THEN <<>>
        ELSE LastOf(ReadChain(e.s.mem, e.tips[c].head), want)

\* Whether chat_recent takes the second path and so refills the ring
Refills(e, c, limit) ==
    /\ ~(c \in DOMAIN e.ring /\ WantOf(limit) <= Len(e.ring[c]))
    /\ c \in DOMAIN e.tips
RefilledRing(e, c) == Put(e.ring, c, LastOf(ReadChain(e.s.mem, e.tips[c].head), RingMax))
=============================================================================
