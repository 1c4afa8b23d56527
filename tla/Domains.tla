------------------------------- MODULE Domains -------------------------------
(***************************************************************************)
(* The four other domains of one engine: the hot page, and the page chains *)
(* of impulses, bonds and recalls, with the redo log, checkpoint, close,   *)
(* crash and recovery.                                                     *)
(*                                                                         *)
(* Each call logs one record and then applies it, and so does replay.  A   *)
(* death of the process between the two, or in the middle of the latter,   *)
(* leaves the record in the log and some of the changed pages in the file: *)
(* that is the call, evictions, and then Crash.  As in ChatEngine the      *)
(* records that replay skips are a prefix of the log.                      *)
(*                                                                         *)
(* A death after a page has been taken from the freelist, and before page 0  *)
(* says so in the file, hands the page out twice.  When two domains get it, *)
(* one reads tuples of the other, and how those decode is not modelled: the *)
(* setups with deaths and a freelist use one domain.                        *)
(*                                                                         *)
(* hot_index leads every key to the one hot page, or its absence does, so  *)
(* it is left out.  A tuple that fits no page is RedoLog's LogAndReject.   *)
(***************************************************************************)
EXTENDS Pages

CONSTANTS
    HotKeys, JobIds, BondKeys, RecallKeys,   \* the names clients use
    Times,        \* the times jobs are scheduled for
    Ttls,         \* the ttl_ms clients pass to hot_set
    Setups,       \* of one behaviour: the domains that clients use, the freelist
                  \*   as trims of chats left it, how often the process may die
    MaxNow,       \* bounds of the model: the clock,
    MaxCalls,     \*   calls that log,
    MaxFlushes,   \*   write-backs outside a checkpoint, by eviction or close(true),
    MaxCkpts      \*   checkpoints

ASSUME DomainsAssumption ==
    /\ Times \subseteq Nat /\ Ttls \subseteq Nat
    /\ {MaxNow, MaxCalls, MaxFlushes, MaxCkpts} \subseteq Nat /\ MaxNow > 0
    /\ \A setup \in Setups :
          /\ setup.free \in Seq(Nat)
          /\ setup.uses \subseteq {"hot", "impulse", "bond", "recall"}
          /\ ToSet(setup.free) = ROOT_PAGES .. ROOT_PAGES + Len(setup.free) - 1
          /\ setup.deaths \in Nat

VARIABLES
    \* -- the directory
    disk,      \* heap.ndb
    wal,       \* wal/redo.wal
    covered,   \* how many records of it are before ENGINE.json's checkpoint LSN
    \* -- the process
    phase, mem, recalls, replayed, closing,
    \* -- outside
    now,       \* SystemTime
    \* -- history
    said,      \* what the logged calls amount to
    setup,
    calls, flushes, ckpts, crashes

vars == <<disk, wal, covered, phase, mem, recalls, replayed, closing, now, said,
          setup, calls, flushes, ckpts, crashes>>

Domain == {"hot", "impulse", "bond", "recall"}
Root   == [hot |-> 1, impulse |-> 2, bond |-> 3, recall |-> 4]
Roots  == {Root[d] : d \in Domain}

\* A heap after bootstrap_roots, and after trims of chats that freed pages
HeapWith(free) ==
    [id \in 0 .. ROOT_PAGES + Len(free) - 1 |->
        IF id = Super
        THEN [Alloc("super") EXCEPT !.at32 = IF free = <<>> THEN 0 ELSE Head(free)]
        ELSE IF id \in Roots THEN Alloc(CHOOSE d \in Domain : Root[d] = id)
        ELSE LET k == CHOOSE j \in DOMAIN free : free[j] = id
             IN  [Alloc("free") EXCEPT !.next = IF k = Len(free) THEN 0 ELSE free[k + 1]]]

-----------------------------------------------------------------------------
(* The page operations of the domains. *)

\* The tuples that a rewriting keeps
Others(rows, field, x) ==
    LET kept[n \in 0 .. Len(rows)] ==
            IF n = 0 THEN <<>>
            ELSE IF rows[n][field] = x THEN kept[n - 1] ELSE Append(kept[n - 1], rows[n])
    IN  kept[Len(rows)]

Filled(page, ty, row) ==
    Insert([page EXCEPT !.ty = IF @ = "free" THEN ty ELSE @], row)

\* insert_into_chain: into the first page with room, or into a new one behind the
\* last.
Roomy(pages, chain) == {k \in DOMAIN chain : HasRoom(pages[chain[k]])}

ChainInsertUnlinked(s, ty, row) ==                                   \* mutant
    LET chain == Chain(s.mem, Root[ty])
        roomy == Roomy(s.mem, chain)
        a == AllocPage(s, ty)
    IN  IF roomy # {} THEN [s EXCEPT !.mem[chain[Min(roomy)]] = Filled(@, ty, row)]
        ELSE [a.s EXCEPT !.mem[a.id] = Insert(@, row)]
ChainInsert(s, ty, row) ==
    LET chain == Chain(s.mem, Root[ty])
        roomy == Roomy(s.mem, chain)
        a == AllocPage(s, ty)
        linked == [a.s EXCEPT !.mem[Last(chain)].next = a.id]
    IN  IF roomy # {} THEN [s EXCEPT !.mem[chain[Min(roomy)]] = Filled(@, ty, row)]
        ELSE [linked EXCEPT !.mem[a.id] = Insert(@, row)]

\* Unlike the other walks this one does not stop at a page it has seen.
Endless(pages, ty) ==
    LET chain == Chain(pages, Root[ty])
    IN  Roomy(pages, chain) = {} /\ pages[Last(chain)].next # 0

\* write_hot_local: a page that has become full keeps the new tuple only.
HotPage(rows) == [Alloc("hot") EXCEPT !.rows = rows]
WriteHotTwice(s, row) ==                                             \* mutant
    [s EXCEPT !.mem[Root.hot] =
        HotPage(IF HasRoom(@) THEN Append(@.rows, row) ELSE <<row>>)]
WriteHotIfRoom(s, row) ==                                            \* mutant
    LET kept == Others(s.mem[Root.hot].rows, "key", row.key)
        fits == Len(kept) < PageCap
    IN  [s EXCEPT !.mem[Root.hot] = HotPage(IF fits THEN Append(kept, row) ELSE kept)]
WriteHotOver(s, row) ==                                              \* mutant
    LET kept == Others(s.mem[Root.hot].rows, "key", row.key)
    IN  [s EXCEPT !.mem[Root.hot] = HotPage(Append(kept, row))]
WriteHot(s, row) ==
    LET kept == Others(s.mem[Root.hot].rows, "key", row.key)
        fits == Len(kept) < PageCap
    IN  [s EXCEPT !.mem[Root.hot] = HotPage(IF fits THEN Append(kept, row) ELSE <<row>>)]

\* delete_hot_local
DeleteHot(s, key) ==
    [s EXCEPT !.mem[Root.hot] = HotPage(Others(@.rows, "key", key))]

\* remove_impulse_local rewrites every page of the chain, in place.
RemoveJobOfRoot(s, id) ==                                            \* mutant
    [s EXCEPT !.mem[Root.impulse].rows = Others(@, "id", id)]
RemoveJob(s, id) ==
    LET chain == ToSet(Chain(s.mem, Root.impulse))
        Rewritten(page) ==
            [Alloc("impulse") EXCEPT !.next = page.next,
                                     !.rows = Others(page.rows, "id", id)]
    IN  [s EXCEPT !.mem = [p \in DOMAIN @ |->
                              IF p \in chain THEN Rewritten(@[p]) ELSE @[p]]]

\* recall_mem.retain and push
RememberFirst(rs, row) ==                                            \* mutant
    IF \E k \in DOMAIN rs : rs[k].key = row.key THEN rs ELSE Append(rs, row)
Remember(rs, row) == Append(Others(rs, "key", row.key), row)

\* rebuild_from_heap: the recall pages, of whatever chain, in ascending order
RecallsOn(heap) ==
    LET rows == FlattenSeq([k \in 1 .. SizePages(heap) - 1 |->
                               IF heap[k].ty = "recall" THEN heap[k].rows ELSE <<>>])
    IN  FoldLeft(Remember, <<>>, rows)

\* apply_wal; e is the store and recall_mem
Apply(e, r) ==
    CASE r.op = "SetHot" -> [e EXCEPT !.s = WriteHot(@, r.row)]
      [] r.op = "DelHot" -> [e EXCEPT !.s = DeleteHot(@, r.row.key)]
      [] r.op = "EnqueueImpulse" -> [e EXCEPT !.s = ChainInsert(@, "impulse", r.row)]
      [] r.op = "AckImpulse" -> [e EXCEPT !.s = RemoveJob(@, r.row.id)]
      [] r.op = "UpsertBond" -> [e EXCEPT !.s = ChainInsert(@, "bond", r.row)]
      [] r.op = "UpsertRecall" -> [e EXCEPT !.s = ChainInsert(@, "recall", r.row),
                                            !.recalls = Remember(@, r.row)]

\* The chain that applying a record inserts into
ChainOf == [EnqueueImpulse |-> "impulse", UpsertBond |-> "bond",
            UpsertRecall |-> "recall"]
Returns(pages, r) == r.op \in DOMAIN ChainOf => ~Endless(pages, ChainOf[r.op])

-----------------------------------------------------------------------------
(* Reads. *)

None == [key |-> "", v |-> 0, exp |-> 0]

\* hot_get: the first tuple of the key, unless it has expired
HotGet(pages, key, t) ==
    LET rows == pages[Root.hot].rows
        at == {k \in DOMAIN rows : rows[k].key = key}
        found == rows[Min(at)]
    IN  IF at = {} \/ found.exp \in 1 .. t THEN None ELSE found

\* impulse_due: the walk ends once it has `limit' jobs; sort_by_key is stable.
DueOn(rows, t) ==
    LET due[n \in 0 .. Len(rows)] ==
            IF n = 0 THEN <<>>
            ELSE IF rows[n].at <= t THEN Append(due[n - 1], rows[n]) ELSE due[n - 1]
    IN  due[Len(rows)]
DueFound(pages, t, limit) ==
    LET chain == Chain(pages, Root.impulse)
        found[k \in 0 .. Len(chain)] ==
            IF k = 0 THEN <<>>
            ELSE IF Len(found[k - 1]) < limit
            THEN found[k - 1] \o DueOn(pages[chain[k]].rows, t) ELSE found[k - 1]
    IN  found[Len(chain)]
Sorted(rows) ==
    LET before(j, k) == rows[j].at < rows[k].at \/ (rows[j].at = rows[k].at /\ j <= k)
        place(k) == Cardinality({j \in DOMAIN rows : before(j, k)})
    IN  [n \in DOMAIN rows |-> rows[CHOOSE k \in DOMAIN rows : place(k) = n]]
FirstOf(rows, n) == SubSeq(rows, 1, Min({n, Len(rows)}))
ImpulseDueCut(pages, t, limit) ==                                    \* mutant
    Sorted(FirstOf(DueFound(pages, t, limit), limit))
ImpulseDue(pages, t, limit) == FirstOf(Sorted(DueFound(pages, t, limit)), limit)

\* bond_list without a limit
RowsOf(pages, ty) ==
    LET chain == Chain(pages, Root[ty])
    IN  FlattenSeq([k \in DOMAIN chain |-> pages[chain[k]].rows])

-----------------------------------------------------------------------------
(* Calls. *)

Init ==
    /\ setup \in Setups
    /\ disk = HeapWith(setup.free) /\ wal = <<>> /\ covered = 0
    /\ phase = "closed" /\ mem = <<>> /\ recalls = <<>> /\ replayed = 0
    /\ closing = FALSE /\ now = 1
    /\ said = [hot |-> <<>>, lastHot |-> {}, jobs |-> {}, bonds |-> <<>>, recalls |-> <<>>]
    /\ calls = 0 /\ flushes = 0 /\ ckpts = 0 /\ crashes = 0

E == [s |-> [mem |-> mem, disk |-> disk], recalls |-> recalls]
Becomes(e) == mem' = e.s.mem /\ disk' = e.s.disk /\ recalls' = e.recalls

With(f, row) == Put(f, row.key, row)
Said(r) ==
    CASE r.op = "SetHot" -> [said EXCEPT !.hot = With(@, r.row), !.lastHot = {r.row.key}]
      [] r.op = "DelHot" -> [said EXCEPT !.hot = [k \in DOMAIN @ \ {r.row.key} |-> @[k]],
                                         !.lastHot = @ \ {r.row.key}]
      [] r.op = "EnqueueImpulse" -> [said EXCEPT !.jobs = @ \cup {r.row}]
      [] r.op = "AckImpulse" -> [said EXCEPT !.jobs = {j \in @ : j.id # r.row.id}]
      [] r.op = "UpsertBond" -> [said EXCEPT !.bonds = With(@, r.row)]
      [] r.op = "UpsertRecall" -> [said EXCEPT !.recalls = With(@, r.row)]

\* log and apply_wal
Call(domain, op, row) ==
    LET r == [op |-> op, row |-> row]
    IN  /\ domain \in setup.uses
        /\ phase = "open" /\ calls < MaxCalls
        /\ Returns(mem, r)
        /\ calls' = calls + 1
        /\ wal' = Append(wal, r)
        /\ Becomes(Apply(E, r))
        /\ said' = Said(r)
        /\ UNCHANGED <<covered, phase, replayed, closing, now, setup, flushes,
                       ckpts, crashes>>

Value == calls + 1       \* every call brings a value of its own

Expiry(ttl) == IF ttl = 0 THEN 0 ELSE now + ttl
HotSet(key, ttl)     == Call("hot", "SetHot", [key |-> key, v |-> Value, exp |-> Expiry(ttl)])
HotDel(key)          == Call("hot", "DelHot", [key |-> key])
ImpulseSchedule(id, at) == Call("impulse", "EnqueueImpulse", [id |-> id, at |-> at, v |-> Value])
ImpulseAck(id)       == Call("impulse", "AckImpulse", [id |-> id])
BondUpsert(key)      == Call("bond", "UpsertBond", [key |-> key, v |-> Value])
RecallUpsert(key)    == Call("recall", "UpsertRecall", [key |-> key, v |-> Value])

\* Only hot_set and hot_get ask for the time: what passes while there is no process
\* may as well pass once it is open.
Tick ==
    /\ phase = "open" /\ "hot" \in setup.uses /\ now < MaxNow
    /\ now' = now + 1
    /\ UNCHANGED <<disk, wal, covered, phase, mem, recalls, replayed, closing, said,
                   setup, calls, flushes, ckpts, crashes>>

-----------------------------------------------------------------------------
(* Open and recovery, checkpoint, close and crash. *)

\* Engine::open up to replay_wal
Open ==
    /\ phase = "closed"
    /\ phase' = "replay" /\ mem' = disk /\ recalls' = RecallsOn(disk)
    /\ UNCHANGED <<disk, wal, covered, replayed, closing, now, said, setup, calls,
                   flushes, ckpts, crashes>>

\* One iteration of replay_wal
SkippedNone == FALSE                                                 \* mutant
Skipped == replayed < covered

Replay ==
    /\ phase = "replay" /\ replayed < Len(wal)
    /\ Skipped \/ Returns(mem, wal[replayed + 1])
    /\ Becomes(IF Skipped THEN E ELSE Apply(E, wal[replayed + 1]))
    /\ replayed' = replayed + 1
    /\ UNCHANGED <<wal, covered, phase, closing, now, said, setup, calls, flushes,
                   ckpts, crashes>>

Opened ==
    /\ phase = "replay" /\ replayed = Len(wal)
    /\ phase' = "open" /\ replayed' = 0
    /\ UNCHANGED <<disk, wal, covered, mem, recalls, closing, now, said, setup, calls,
                   flushes, ckpts, crashes>>

\* BufferPool::evict_if_needed writes a dirty page.
Evict(id) ==
    /\ phase \in {"replay", "open"}
    /\ mem[id] # disk[id] /\ flushes < MaxFlushes
    /\ disk' = [disk EXCEPT ![id] = mem[id]]
    /\ flushes' = flushes + 1
    /\ UNCHANGED <<wal, covered, phase, mem, recalls, replayed, closing, now, said,
                   setup, calls, ckpts, crashes>>

\* checkpoint up to persist_meta.  A death before that is evictions and a crash.
CkptPersist ==
    /\ phase = "open" /\ ckpts < MaxCkpts
    /\ ckpts' = ckpts + 1
    /\ phase' = "persisted" /\ closing' \in BOOLEAN
    /\ disk' = mem /\ covered' = Len(wal)
    /\ UNCHANGED <<wal, mem, recalls, replayed, now, said, setup, calls, flushes, crashes>>

Gone ==
    /\ phase' = "closed" /\ mem' = <<>> /\ recalls' = <<>> /\ replayed' = 0
    /\ closing' = FALSE

\* wal.rotate, and the end of close(false)
CkptRotate ==
    /\ phase = "persisted"
    /\ wal' = <<>> /\ covered' = 0
    /\ IF closing THEN Gone
       ELSE phase' = "open" /\ UNCHANGED <<mem, recalls, replayed, closing>>
    /\ UNCHANGED <<disk, now, said, setup, calls, flushes, ckpts, crashes>>

\* close(true), or Drop: the pages are flushed and nothing says so.
CloseSkipped ==
    /\ phase = "open" /\ flushes < MaxFlushes
    /\ flushes' = flushes + 1
    /\ disk' = mem
    /\ Gone
    /\ UNCHANGED <<wal, covered, now, said, setup, calls, ckpts, crashes>>

Crash ==
    /\ phase # "closed" /\ crashes < setup.deaths
    /\ crashes' = crashes + 1
    /\ Gone
    /\ UNCHANGED <<disk, wal, covered, now, said, setup, calls, flushes, ckpts>>

Next ==
    \/ \E key \in HotKeys, ttl \in Ttls : HotSet(key, ttl)
    \/ \E key \in HotKeys : HotDel(key)
    \/ \E id \in JobIds, at \in Times : ImpulseSchedule(id, at)
    \/ \E id \in JobIds : ImpulseAck(id)
    \/ \E key \in BondKeys : BondUpsert(key)
    \/ \E key \in RecallKeys : RecallUpsert(key)
    \/ Tick
    \/ Open \/ Replay \/ Opened
    \/ \E id \in DOMAIN mem : Evict(id)
    \/ CkptPersist \/ CkptRotate \/ CloseSkipped \/ Crash

Spec == Init /\ [][Next]_vars

-----------------------------------------------------------------------------
(* Properties. *)

Serving == phase \in {"open", "persisted"}
Limits == 1 .. MaxCalls

JobsIn(pages) == ToSet(RowsOf(pages, "impulse"))
TimesIn(rows, row) == Cardinality({k \in DOMAIN rows : rows[k] = row})
RecallsNow == [key \in {recalls[k].key : k \in DOMAIN recalls} |->
                  recalls[CHOOSE k \in DOMAIN recalls : recalls[k].key = key]]

TypeOK ==
    /\ \A heap \in {disk, mem} : \A id \in DOMAIN heap :
          /\ heap[id].ty \in Domain \cup {"super", "free"}
          /\ heap[id].next \in 0 .. SizePages(disk) - 1
          /\ Len(heap[id].rows) <= PageCap
    /\ DOMAIN disk = 0 .. SizePages(disk) - 1
    /\ phase # "closed" => DOMAIN mem = DOMAIN disk
    /\ phase \in {"closed", "replay", "open", "persisted"}
    /\ covered \in 0 .. Len(wal) /\ replayed \in 0 .. Len(wal)
    /\ closing \in BOOLEAN /\ now \in 0 .. MaxNow

\* hot_get never gives a value that was overwritten or deleted, nor one that has
\* expired, whatever of the page a crash left and replay did to it: it gives the last
\* value set, or nothing.
HotIsFresh ==
    Serving => \A key \in HotKeys :
        LET got == HotGet(mem, key, now)
        IN  got = None \/ (key \in DOMAIN said.hot /\ got = said.hot[key]
                           /\ (got.exp = 0 \/ got.exp > now))

\* A full hot page forgets keys (write_hot_local), but never the key set last.
LastHotIsKept ==
    Serving => \A key \in said.lastHot :
        HotGet(mem, key, now) = None => said.hot[key].exp \in 1 .. now

\* A job that was scheduled is on the impulse pages until it is acknowledged, and an
\* acknowledged one never comes back: not by replay over pages that had been written
\* before or after the acknowledgement.
JobsAreKept ==
    Serving => JobsIn(mem) = said.jobs

\* The same of bonds: the last tuple of every bond is listed, and nothing that no
\* client has put there.
BondsAreListed ==
    Serving =>
        LET listed == ToSet(RowsOf(mem, "bond"))
        IN  /\ \A key \in DOMAIN said.bonds : said.bonds[key] \in listed
            /\ \A row \in listed : row.v <= said.bonds[row.key].v

\* As long as no page is written outside a checkpoint, redo adds nothing: a job is due
\* once, also when the process dies between ENGINE.json and the rotation of the log.
JobsAreSingle ==
    Serving /\ flushes = 0 =>
        \A job \in said.jobs : TimesIn(RowsOf(mem, "impulse"), job) = 1

\* impulse_due gives as many due jobs as there are up to the limit, in the order of
\* their times, and of the first page, which it always reads as a whole, it passes
\* over none for a later one.
DueAnswers ==
    Serving => \A t \in Times, limit \in Limits :
        LET due == ImpulseDue(mem, t, limit)
            all == DueOn(RowsOf(mem, "impulse"), t)
        IN  /\ Len(due) = Min({limit, Len(all)})
            /\ \A k \in DOMAIN due : TimesIn(due, due[k]) <= TimesIn(all, due[k])
            /\ \A j, k \in DOMAIN due : j < k => due[j].at <= due[k].at
            /\ \A job \in ToSet(DueOn(mem[Root.impulse].rows, t)) \ ToSet(due) :
                  \A k \in DOMAIN due : due[k].at <= job.at

\* The chains of the domains never meet each other or the freelist, hold pages of
\* their own type, and end, so that insert_into_chain returns.
ChainsAreApart ==
    phase \in {"replay", "open", "persisted"} =>
        LET chain == [d \in Domain |-> Chain(mem, Root[d])]
            free  == ToSet(Chain(mem, FreelistHead(E.s)))
        IN  \A d \in Domain :
               /\ mem[Last(chain[d])].next = 0
               /\ ToSet(chain[d]) \cap free = {}
               /\ \A other \in Domain \ {d} : ToSet(chain[d]) \cap ToSet(chain[other]) = {}
               /\ \A id \in ToSet(chain[d]) : mem[id].ty = d

\* recall_mem, which searches use, holds the last record of each message and no other,
\* also after it was rebuilt, as long as pages are handed out in ascending order.
RecallsAreLast == Serving /\ setup.free = <<>> => RecallsNow = said.recalls
                                             /\ Len(recalls) = Cardinality(DOMAIN said.recalls)

=============================================================================
