----------------------------- MODULE ChatEngine -----------------------------
(***************************************************************************)
(* The chat log of one engine: chat_append, chat_trim_keep_last,           *)
(* chat_recent and chat_get over pages, the buffer pool's write-backs, the *)
(* redo log, checkpoint, close, crash and recovery.                        *)
(*                                                                         *)
(* The redo log is here the sequence of its records.  Which of them replay *)
(* skips is a prefix of it (RedoLog proves the order of the LSNs that this *)
(* rests on), so ENGINE.json is the length of that prefix, `covered'.      *)
(* Fsync, torn frames and power loss are the subject of RedoLog; here the  *)
(* process dies and the files stay.                                        *)
(***************************************************************************)
EXTENDS ChatPages

CONSTANTS
    Chats,        \* the chats clients use
    Wants,        \* the limits clients pass to chat_recent
    Setups        \* what one behaviour is about, see SetupType

\* The ids and trims that clients choose, and the bounds of the model: how many
\* appends, appends too big for a page, failing writes of the log, trims,
\* evictions of dirty pages, checkpoints and deaths of the process there are.
\* Without `ids', clients never use an id twice in a chat.  With `skip' they close
\* with skip_checkpoint or drop the engine.
SetupType ==
    [ids : SUBSET (Nat \ {0}), keeps : SUBSET Nat, appends : Nat, bigs : Nat,
     fails : Nat, trims : Nat, evicts : Nat, ckpts : Nat, crashes : Nat,
     skip : BOOLEAN]

ASSUME ChatEngineAssumption ==
    /\ 0 \notin Chats /\ Wants \subseteq Nat
    /\ Setups # {} /\ \A s \in Setups : s \in SetupType

VARIABLES
    \* -- the directory
    disk,      \* heap.ndb
    wal,       \* wal/redo.wal
    covered,   \* how many records of it are before ENGINE.json's checkpoint LSN
    snap,      \* snap/msg.idx, and whether its LSN is ENGINE.json's
    \* -- the process
    phase,     \* where the one running call stands
    mem,       \* the pages through the buffer pool
    tips, index, ring,
    replayed,  \* how many records replay has passed
    call,      \* the chat_append under way
    closing,   \* the running checkpoint was called by close(false)
    \* -- history
    log,       \* per chat, what the calls whose records are in the log amount to
    failed,    \* the messages of appends that failed at the log, which may be seen,
    lost,      \*   and the pages, which may be in no chain
    setup,
    did        \* how often what `setup' bounds has happened

vars == <<disk, wal, covered, snap, phase, mem, tips, index, ring, replayed,
          call, closing, log, failed, lost, setup, did>>
dirVars   == <<disk, wal, covered, snap>>
viewVars  == <<mem, tips, index, ring>>
failVars  == <<failed, lost>>
pastVars  == <<log, failVars, setup, did>>

Bounded == {"appends", "bigs", "fails", "trims", "evicts", "ckpts", "crashes"}
May(what)  == did[what] < setup[what]
Does(what) == May(what) /\ did' = [did EXCEPT ![what] = @ + 1]

\* The engine's chat state as ChatPages wants it, and back
E == [s |-> [mem |-> mem, disk |-> disk], tips |-> tips, index |-> index,
      ring |-> ring]
Becomes(e) ==
    /\ mem' = e.s.mem /\ disk' = e.s.disk
    /\ tips' = e.tips /\ index' = e.index /\ ring' = e.ring

\* The records of the log
Link(c, id, prev)   == [ty |-> "link", chat |-> c, page |-> id, prev |-> prev]
InsertRec(c, id, m) == [ty |-> "insert", chat |-> c, page |-> id, msg |-> m]
Trim(c, keep)       == [ty |-> "trim", chat |-> c, keep |-> keep]

NoCall == [chat |-> 0, msg |-> NoMessage, big |-> FALSE, page |-> 0, prev |-> 0]
NoSnap == [aligned |-> FALSE, entries |-> {}]

Phases == {"closed", "replay", "open",
           "link",       \* chat_append has a page and has not logged it
           "insert",     \*   has a tail page with room for the message
           "flushed", "snapped", "persisted"}    \* checkpoint

\* The values of the process variables when there is no process
NoView ==
    /\ mem = EmptyHeap /\ tips = <<>> /\ index = NewIndex /\ ring = <<>>
    /\ replayed = 0 /\ call = NoCall /\ closing = FALSE

Init ==
    /\ disk = EmptyHeap /\ wal = <<>> /\ covered = 0 /\ snap = NoSnap
    /\ phase = "closed" /\ NoView
    /\ log = [c \in Chats |-> <<>>]
    /\ failed = {} /\ lost = {}
    /\ setup \in Setups /\ did = [what \in Bounded |-> 0]

-----------------------------------------------------------------------------
(* Open and recovery. *)

\* Engine::open up to replay_wal: bootstrap_roots, rebuild_from_heap and the
\* index, from the snapshot when it is the checkpoint's and not empty.
Open ==
    /\ phase = "closed"
    /\ phase' = "replay"
    /\ mem' = Relink(disk) /\ tips' = TipsOf(disk)
    /\ index' = IF snap.aligned /\ snap.entries # {} THEN LoadIndex(snap.entries)
                ELSE IndexFromHeap(disk)
    /\ UNCHANGED <<dirVars, ring, replayed, call, closing, pastVars>>

Apply(e, r) ==
    CASE r.ty = "link"   -> ApplyLink(e, r.chat, r.page, r.prev)
      [] r.ty = "insert" -> ApplyInsert(e, r.page, r.chat, r.msg)
      [] r.ty = "trim"   -> TrimChat(e, r.chat, r.keep)

\* One iteration of replay_wal
Replay ==
    /\ phase = "replay" /\ replayed < Len(wal)
    /\ Becomes(IF replayed < covered THEN E ELSE Apply(E, wal[replayed + 1]))
    /\ replayed' = replayed + 1
    /\ UNCHANGED <<wal, covered, snap, phase, call, closing, pastVars>>

\* warm_chat_rings, and open returns
Opened ==
    /\ phase = "replay" /\ replayed = Len(wal)
    /\ phase' = "open" /\ replayed' = 0
    /\ ring' = WarmRings(E)
    /\ UNCHANGED <<dirVars, mem, tips, index, call, closing, pastVars>>

-----------------------------------------------------------------------------
(* chat_append, in the steps between which a page can be evicted or the     *)
(* process can die.                                                         *)

Choose(c) == IF setup.ids = {} THEN {did.appends + 1} ELSE setup.ids

\* A chat without a tip, or whose tail is full, first gets a page.
AppendStart(c) ==
    /\ phase = "open" /\ May("appends")
    /\ \E id \in Choose(c), big \in {FALSE} \cup {May("bigs")} :
        LET m == [id |-> id, body |-> did.appends + 1]
            prev == IF c \in DOMAIN tips THEN tips[c].tail ELSE 0
            fits == prev # 0 /\ HasRoom(mem[prev]) /\ ~big
            a == AllocChatPage(E.s, c)
        IN  /\ did' = [did EXCEPT !.appends = @ + 1, !.bigs = @ + IF big THEN 1 ELSE 0]
            /\ IF fits
               THEN
                 /\ phase' = "insert"
                 /\ call' = [chat |-> c, msg |-> m, big |-> big, page |-> prev, prev |-> 0]
                 /\ UNCHANGED <<mem, disk>>
               ELSE
                 /\ phase' = "link"
                 /\ call' = [chat |-> c, msg |-> m, big |-> big, page |-> a.id, prev |-> prev]
                 /\ mem' = a.s.mem /\ disk' = a.s.disk
    /\ UNCHANGED <<wal, covered, snap, tips, index, ring, replayed, closing, log,
                   failVars, setup>>

\* log(LinkChatPage) and apply_wal
AppendLink ==
    /\ phase = "link" /\ ~call.big
    /\ phase' = "insert"
    /\ wal' = Append(wal, Link(call.chat, call.page, call.prev))
    /\ Becomes(ApplyLink(E, call.chat, call.page, call.prev))
    /\ UNCHANGED <<covered, snap, replayed, call, closing, pastVars>>

\* The same when the message fits no page: the first page of a chat is followed
\* by a second one, and then, or when there was a page before, the call fails.
AppendTooLarge ==
    LET linked == ApplyLink(E, call.chat, call.page, call.prev)
        a == AllocChatPage(linked.s, call.chat)
    IN  /\ phase = "link" /\ call.big
        /\ wal' = Append(wal, Link(call.chat, call.page, call.prev))
        /\ IF call.prev = 0
           THEN /\ Becomes([linked EXCEPT !.s = a.s])
                /\ call' = [call EXCEPT !.page = a.id, !.prev = call.page]
                /\ UNCHANGED phase
           ELSE Becomes(linked) /\ call' = NoCall /\ phase' = "open"
        /\ UNCHANGED <<covered, snap, replayed, closing, pastVars>>

\* The message goes into the page, is logged, and the tip, the index and the
\* ring learn of it.
AppendInsert ==
    LET c == call.chat
        id == call.page
        page == Insert(mem[id], call.msg)
        old == IF c \in DOMAIN ring THEN ring[c] ELSE <<>>
    IN  /\ phase = "insert"
        /\ phase' = "open" /\ call' = NoCall
        /\ mem' = [mem EXCEPT ![id] = page]
        /\ wal' = Append(wal, InsertRec(c, id, call.msg))
        /\ tips' = [tips EXCEPT ![c] = Tip(@.head, id, @.count + 1)]
        /\ index' = SetLoc(index, c, call.msg.id, id, Len(page.rows) - 1)
        /\ ring' = Put(ring, c, PushRing(old, call.msg))
        /\ log' = [log EXCEPT ![c] = Append(@, call.msg)]
        /\ UNCHANGED <<disk, covered, snap, replayed, closing, failVars, setup, did>>

\* The write or the fsync of the log fails, so the call does: the page it has
\* allocated is not linked, the message it has put into a page is not counted,
\* and the record may be in the log all the same.
AppendFails ==
    LET record == IF phase = "link" THEN Link(call.chat, call.page, call.prev)
                  ELSE InsertRec(call.chat, call.page, call.msg)
    IN  /\ phase \in {"link", "insert"} /\ Does("fails")
        /\ phase' = "open" /\ call' = NoCall
        /\ wal' \in {wal, Append(wal, record)}
        /\ IF phase = "link"
           THEN lost' = lost \cup {call.page} /\ UNCHANGED <<mem, failed>>
           ELSE /\ mem' = [mem EXCEPT ![call.page] = Insert(@, call.msg)]
                /\ failed' = failed \cup {call.msg}
                /\ UNCHANGED lost
        /\ UNCHANGED <<disk, covered, snap, tips, index, ring, replayed, closing, log,
                       setup>>

\* chat_trim_keep_last.  Pages that are evicted in the middle of the rewriting
\* are not modelled: write-backs happen before and after it.
TrimKeepLast(c, keep) ==
    /\ phase = "open" /\ Does("trims") /\ keep \in setup.keeps
    /\ wal' = Append(wal, Trim(c, keep))
    /\ Becomes(TrimChat(E, c, keep))
    /\ log' = [log EXCEPT ![c] = LastOf(@, keep)]
    /\ UNCHANGED <<covered, snap, phase, replayed, call, closing, failVars, setup>>

\* chat_recent, when it has to read the pages
Recent(c, want) ==
    /\ phase = "open" /\ Refills(E, c, want)
    /\ ring' = RefilledRing(E, c)
    /\ UNCHANGED <<dirVars, phase, mem, tips, index, replayed, call, closing, pastVars>>

-----------------------------------------------------------------------------
(* The buffer pool, checkpoint, close and crash. *)

\* BufferPool::evict_if_needed writes a dirty page.
Evict(id) ==
    /\ phase \in {"replay", "open", "link", "insert"}
    /\ mem[id] # disk[id] /\ Does("evicts")
    /\ disk' = [disk EXCEPT ![id] = mem[id]]
    /\ UNCHANGED <<wal, covered, snap, phase, viewVars, replayed, call, closing, log,
                   failVars, setup>>

\* checkpoint: flush_all and heap.sync
FlushedNothing == disk                                               \* mutant
Flushed == mem

CkptFlush ==
    /\ phase = "open" /\ Does("ckpts")
    /\ phase' = "flushed" /\ closing' \in BOOLEAN
    /\ disk' = Flushed
    /\ UNCHANGED <<wal, covered, snap, viewVars, replayed, call, log, failVars, setup>>

\* The Checkpoint record and save_msg_index: until ENGINE.json follows, the
\* snapshot is not the checkpoint's.
CkptSnapshot ==
    /\ phase = "flushed" /\ CanSave(index)
    /\ phase' = "snapped"
    /\ snap' = [aligned |-> FALSE, entries |-> SaveIndex(index)]
    /\ UNCHANGED <<disk, wal, covered, viewVars, replayed, call, closing, pastVars>>

\* persist_meta
CkptPersist ==
    /\ phase = "snapped"
    /\ phase' = "persisted"
    /\ covered' = Len(wal)
    /\ snap' = [snap EXCEPT !.aligned = TRUE]
    /\ UNCHANGED <<disk, wal, viewVars, replayed, call, closing, pastVars>>

\* The process is gone; the next one starts from the files.
Gone ==
    /\ phase' = "closed"
    /\ mem' = EmptyHeap /\ tips' = <<>> /\ index' = NewIndex /\ ring' = <<>>
    /\ replayed' = 0 /\ call' = NoCall /\ closing' = FALSE

\* wal.rotate, and the end of close(false)
CkptRotate ==
    /\ phase = "persisted"
    /\ wal' = <<>> /\ covered' = 0
    /\ IF closing THEN Gone
       ELSE phase' = "open" /\ UNCHANGED <<viewVars, replayed, call, closing>>
    /\ UNCHANGED <<disk, snap, pastVars>>

\* close(true), or Drop: the pages are flushed and nothing says so.
CloseSkipped ==
    /\ setup.skip /\ phase = "open"
    /\ disk' = Flushed
    /\ Gone
    /\ UNCHANGED <<wal, covered, snap, pastVars>>

\* The process dies; a chat_append that has not returned may have logged its
\* message, and then it counts.
Crash ==
    /\ phase # "closed" /\ Does("crashes")
    /\ \/ UNCHANGED <<wal, log>>
       \/ /\ phase = "insert"
          /\ wal' = Append(wal, InsertRec(call.chat, call.page, call.msg))
          /\ log' = [log EXCEPT ![call.chat] = Append(@, call.msg)]
    /\ Gone
    /\ UNCHANGED <<disk, covered, snap, failVars, setup>>

Next ==
    \/ Open \/ Replay \/ Opened
    \/ \E c \in Chats : AppendStart(c)
    \/ AppendLink \/ AppendTooLarge \/ AppendInsert \/ AppendFails
    \/ \E c \in Chats, keep \in setup.keeps : TrimKeepLast(c, keep)
    \/ \E c \in Chats, want \in Wants : Recent(c, want)
    \/ \E id \in DOMAIN mem : Evict(id)
    \/ CkptFlush \/ CkptSnapshot \/ CkptPersist \/ CkptRotate
    \/ CloseSkipped \/ Crash

Spec == Init /\ [][Next]_vars

-----------------------------------------------------------------------------
(* Properties. *)

Serving == phase \in Phases \ {"closed", "replay"}
MaxAppends == Max({s.appends : s \in Setups})
MaxId      == Max((1 .. MaxAppends) \cup UNION {s.ids : s \in Setups})
Messages   == [id : 1 .. MaxId, body : 1 .. MaxAppends]
Message == [id : Nat, body : Nat]
Pages == [ty : {"super", "chat", "free"}, at32 : Nat \cup Chats, next : Nat,
          rows : Seq(Message)]
TipType == [head : Nat, tail : Nat, count : Nat]

TypeOK ==
    /\ \A id \in DOMAIN disk : disk[id] \in Pages
    /\ \A id \in DOMAIN mem : mem[id] \in Pages
    /\ phase # "closed" => DOMAIN mem = DOMAIN disk
    /\ DOMAIN disk = {Super} \cup (ROOT_PAGES .. SizePages(disk) - 1)
    /\ covered \in 0 .. Len(wal) /\ replayed \in 0 .. Len(wal)
    /\ phase \in Phases /\ closing \in BOOLEAN
    /\ \A c \in DOMAIN tips : c \in Chats \cup {0} /\ tips[c] \in TipType
    /\ \A k \in Keys(index) : LET loc == UnpackLoc(index.at[k])
                             IN  loc.page \in DOMAIN disk /\ loc.slot \in 0 .. PageCap - 1
    /\ failed \subseteq Message /\ lost \subseteq DOMAIN disk
    /\ setup \in Setups /\ \A what \in Bounded : did[what] \in 0 .. setup[what]
    /\ \A c \in DOMAIN ring : ring[c] \in Seq(Message) /\ Len(ring[c]) <= RingMax

\* The messages of a chat as a walk of its pages finds them
Read(c) == IF c \in DOMAIN tips THEN ReadChain(mem, tips[c].head) ELSE <<>>
ChainOf(c) == IF c \in DOMAIN tips THEN Chain(mem, tips[c].head) ELSE <<>>
Freelist == Chain(mem, FreelistHead(E.s))
FreePages == ToSet(Freelist)

\* Some rows without the messages in gone
NotIn(rows, gone) ==
    LET kept[k \in 0 .. Len(rows)] ==
            IF k = 0 THEN <<>>
            ELSE IF rows[k] \in gone THEN kept[k - 1] ELSE Append(kept[k - 1], rows[k])
    IN  kept[Len(rows)]
NotFailed(rows) == NotIn(rows, failed)

\* As long as nothing fails, a point lookup finds exactly the messages of the chat,
\* and of two with one id the later one: the index, which appends and trims
\* maintain incrementally, and the pages never disagree (chat_get,
\* trim_chat_local); and chat_get_batch answers each of its ids the same way.
IndexAnswers ==
    Serving /\ did.crashes = 0 /\ failed = {} => \A c \in Chats :
        LET rows  == Read(c)
            ids   == [k \in 1 .. MaxId |-> k]
            batch == ChatGetBatch(E, c, ids)
            at(id)    == {k \in DOMAIN rows : rows[k].id = id}
            found(id) == IF at(id) = {} THEN NoMessage ELSE rows[Max(at(id))]
        IN  /\ DOMAIN batch = DOMAIN ids
            /\ \A k \in DOMAIN ids :
                  ChatGet(E, c, ids[k]) = found(ids[k]) /\ batch[k] = found(ids[k])

\* The count that the index keeps next to its entries is their number whatever
\* happens to it, a reused id or a trimmed chat: save_msg_index would otherwise
\* write past its buffer, or leave a made-up entry in the snapshot.
IndexCounts == index.size = Cardinality(Keys(index))

\* As long as nothing fails, the ring is never behind the pages: chat_recent gives the same answer from
\* memory as from the pages, for every limit.
RecentAnswers ==
    Serving /\ did.crashes = 0 /\ failed = {} => \A c \in Chats, limit \in 0 .. MaxAppends :
        ChatRecent(E, c, limit) = LastOf(Read(c), WantOf(limit))

\* As long as the process does not die, every page beyond the roots has one owner:
\* the chain of one chat, the freelist, or the append that has just allocated it.
\* A page with two owners would be overwritten by one of them; a page with none is
\* lost for ever, as only that of an append may be that failed before its link.
OneOwner ==
    Serving /\ did.crashes = 0 =>
        LET chains == UNION {ToSet(ChainOf(c)) : c \in DOMAIN tips}
            taken  == IF phase = "link" THEN {call.page} ELSE {}
        IN  /\ \A c, d \in DOMAIN tips :
                  c # d => ToSet(ChainOf(c)) \cap ToSet(ChainOf(d)) = {}
            /\ FreePages \cap chains = {}
            /\ taken \cap (FreePages \cup chains) = {}
            /\ DOMAIN mem \ ({Super} \cup FreePages \cup taken \cup chains) \subseteq lost

\* The tip that appends rely on, as long as the process does not die: it counts
\* the messages of the chain, of which those of failed appends may be missing, it
\* ends at the last page, and the pages in between are chat pages of that chat.
TipsMatchChains ==
    Serving /\ did.crashes = 0 => \A c \in DOMAIN tips :
        /\ tips[c].count \in Len(NotFailed(Read(c))) .. Len(Read(c))
        /\ tips[c].tail = Last(ChainOf(c))
        /\ \A id \in ToSet(ChainOf(c)) : mem[id].ty = "chat" /\ mem[id].at32 = c

\* The chat log implements the abstract one: seen through the walk of the pages,
\* each step appends one message, trims one chat, or changes nothing; and between
\* a close and the end of the next open, as after a death of the process, it is
\* what the calls amount to.
Faithful == did.crashes = 0 /\ setup.fails = 0 /\ (setup.trims = 0 \/ setup.ckpts = 0)
Abstract == INSTANCE ChatLog
    WITH Keeps <- UNION {s.keeps : s \in Setups},
         log   <- [c \in Chats |-> IF Serving /\ Faithful THEN Read(c) ELSE log[c]]
ImplementsChatLog == Abstract!Spec

\* A message that was acknowledged, and that no trim has dropped since, is found
\* by its id, or a later one with that id is: the index leads to it whatever
\* happened in between.
AckedReadable ==
    Serving => \A c \in Chats : \A k \in DOMAIN log[c] :
        (\A j \in DOMAIN log[c] : j > k => log[c][j].id # log[c][k].id)
            => ChatGet(E, c, log[c][k].id) = log[c][k]

\* As long as the process does not die, a walk of the pages, as in chat_recent and
\* chat_trim_keep_last, sees these messages and those of failed appends: none
\* twice, none that a trim has dropped, none of another chat.
KeepsMessages ==
    Serving /\ did.crashes = 0 => \A c \in Chats :
        /\ ToSet(NotFailed(Read(c))) = ToSet(log[c])
        /\ Len(NotFailed(Read(c))) = Len(log[c])
        /\ IsInjective(Read(c))

\* What a trim keeps is the last messages: the newest one is never dropped.
NewestKept ==
    Serving => \A c \in Chats : log[c] # <<>> => Last(log[c]) \in ToSet(Read(c))
=============================================================================
