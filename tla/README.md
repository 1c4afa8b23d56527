# NyatDB: TLA+ models, checks and proofs

NyatDB is the embedded store of a chat bot. One directory holds a heap of 4 KB
pages, a redo log, a snapshot of an index and a small JSON file; an engine
inside the process serves five kinds of data from it: chat logs, hot state
(keys with an expiry), impulses (delayed jobs), bonds (relations) and recall
(vectors). There are two engines over one file format: the native one in Rust
(`src/native/src`), which is the one in production, and a TypeScript reference
engine (`src/typescript`).

This directory holds models of the native engine, and of the place where the two
engines meet, the TLC runs that check them
and proofs of the most important results. `PROJECT.json` is the index: for every
definition the lines of code it stands for, for every run what it checks, for
every property a plausible bug that it detects, and the hazards and findings.

## The system

| component | code | state | operations |
|---|---|---|---|
| redo log | `wal.rs` | `redo.wal`, the open handle, the next LSN | append, sync, rotate, replay |
| life cycle | `engine.rs` 81-133, 283-304, 914-936, 994-1035; `lib.rs` | `ENGINE.json`, `lsn`, `checkpoint_lsn`, `appends`, `closed` | open, log, checkpoint, close, Drop |
| buffer pool | `pool.rs` | frames (page, pin, dirty, reference bit), the clock's hand | get, peek, unpin, flush_all, evict_if_needed |
| heap file | `heap.rs` | `heap.ndb`, page count | read_page, write_page, append_page, ensure_page_count, sync |
| pages | `page.rs` | header, slots, tuples of one page | insert, get_tuple, set_next, ... |
| freelist | `engine.rs` 237-281 | head in page 0, next pointers of free pages | alloc_page, free_page |
| ChatLog | `engine.rs` 162-235, 306-408, 542-799 | chains of chat pages; tips, rings and index in memory | append, recent, get, get_batch, trim, rebuild |
| message index | `msg_index.rs` | (chat, message id) -> (page, slot); `snap/msg.idx` | set, get, delete_chat, save, load |
| HotState | `engine.rs` 456-515, 801-830 | one page of tuples, `hot_index` | set, get, del |
| Impulse, Bond, Recall | `engine.rs` 410-454, 517-540, 832-912 | a chain of pages each; `recall_mem` | schedule, due, ack; upsert, list; upsert, search |
| binding | `lib.rs` | a mutex around an optional engine | the API, open, close |
| encodings | `codec.rs`, `crc32.rs` | none | encode, decode |
| TS engine | `typescript/engine.ts`, `storage`, `index`, `format` | as the native engine | as the native engine |
| TS facade, loader | `facade.ts`, `native.ts`, `index.ts` | one engine per process | choose, open, close |
| body packing | `chat-log.ts` | none | pack, unpack |

A call takes the mutex, runs to its end and gives it back. An operation that
changes data appends a record to the log and changes pages through the pool
(`chat_append` in the other order). The pool writes dirty pages when it needs a
frame, in any order and whatever the log holds. A checkpoint flushes the pool,
logs a Checkpoint record, writes `msg.idx` and `ENGINE.json` (each to a temporary
file that is renamed) and empties the log. Open reads the heap, rebuilds the
chains, takes the snapshot or rebuilds the index, and redoes the log from the LSN
in `ENGINE.json`. `close(true)` and `Drop` flush the heap and leave the log as it
is.

What is hard in this design is not concurrency between calls (the mutex removes
it) but the order in which one call touches four files, what a failure or the
death of the process between two of these steps leaves, redoing records over a
heap that already has some of their effects, structures in memory that repeat
what pages say, and limits (a full page, a full pool). The complete list, with
lines, is under `hazards` in `PROJECT.json`; each names the properties that would
catch it going wrong, or says why none does yet.

What makes each component correct, in a sentence: the *log* gives back, in
order, what was acknowledged; a *checkpoint* never removes from the log what the
heap does not hold; the *pool* behaves as the file itself would; every *page* has
one owner; a *chat* is the sequence of its appended messages that no trim has
dropped, and ring, index, tip and pages say so alike; recovery changes none of it.

## Modules

| module | what it is |
|---|---|
| `RedoLog` | the log and the life cycle around it; the effect of a record is one fact, present or not in memory, in the file, in the fsynced file |
| `RedoLogProofs` | its inductive invariant and theorems |
| `Induction` | induction and recursion over numbers, in the form that the provers can use |
| `Pages` | operators: pages, the freelist, chains; what all domains share |
| `PagesProofs` | a chain as what a walk reaches |
| `MsgIndex` | operators: the message index, its packed locations, its count, its snapshot |
| `ChatPages` | operators: trim, rebuild and replay functions of the chat log over pages and index |
| `ChatLog` | abstract specification: per chat a sequence; append, keep the last n |
| `ChatEngine` | the chat log of an engine, step by step, with evictions, a log that fails, messages that fit no page, checkpoints, closes, crashes and recovery |
| `ChatEngineProofs` | the index's operators, the loops of trim and rebuild, the types of the chat log, and its lookups by id |
| `ChatChainsProofs` | the chains of the chat log: owners of pages, tips, rings, walks, and the refinement of `ChatLog` |
| `Domains` | hot state, impulses, bonds and recalls of an engine, with evictions, checkpoints, closes, crashes and recovery |
| `DomainsProofs` | types, the hot page, and the chains with the jobs and bonds on them |
| `PageStore` | abstract specification: pages whose reads see the last write, and what of it is saved |
| `BufferPool` | the pool over the file, with failing reads and writes |
| `BufferPoolProofs` | its inductive invariant, the refinement of `PageStore`, the bound |
| `Bytes` | operators: little-endian numbers and fields of byte strings |
| `SlottedPage` | operators: the bytes of a page, its header, tuples and slots |
| `Codec` | operators: the five kinds of tuples as bytes |
| `Crc32` | operators: the checksum by its table, and by its definition |
| `PageFile` | pages of bytes between the pool and the file, with reloads and power losses |
| `PageFileProofs` | the bytes of pages and tuples; its inductive invariants and theorems |
| `TwoEngines` | one directory, opened in turn by the native and the TypeScript engine |
| `MC...` | constants and symmetry for TLC |

### RedoLog

`file` is the list of frames that `RedoWal::replay` gets to, `tail` what follows
them (nothing, or part of a frame, fsynced or not), `synced` how many frames are
fsynced, `meta` and `snap` the LSNs in `ENGINE.json` and `msg.idx`. `disk` and
`durable` are the effects in `heap.ndb` and those of them that are fsynced, `mem`
those that a reader in the process sees. `phase` says between which two steps of
open or checkpoint the process stands. The calls that log are four actions, for
success, a tuple rejected after it was logged, a failing write and a failing
fsync. `Crash` keeps all files, `PowerLoss` loses a suffix of the unsynced frames
and any unsynced pages. `unreachable` and `dropped` are history: records that were
acknowledged behind a torn frame or in a file that rotate had renamed, and records
lost by power loss before their fsync, which `sync_every` allows. The properties
speak of the rest (`Promised`); what the code says of `unreachable` is finding 1.

Two abstractions. An eviction writes one record's effect; the page-level mixture
is in ChatEngine. The tmp-and-rename writes of `ENGINE.json` and `msg.idx` are
atomic, also under power loss (the code does not fsync them).

### Pages, ChatPages and ChatEngine

The heap is a function from page ids to [type, the i64 at offset 32, next, rows];
`mem` is what the pool shows and `disk` what the file holds. The store starts
empty: pages 1 to 4, the roots of other domains, are touched by no chat operation
and are left out, so new pages have ids from 5. A page holds `PageCap` messages: what
fits is a count here and bytes in SlottedPage. `big` messages fit no page.

`chat_append` is three actions, because a page can be evicted or the process can
die between them: getting a page (`AppendStart`), the logged link (`AppendLink`), the
message (`AppendInsert`). The insertion into the page, before the log record, is
part of the last one; `Crash` may leave the record of a message whose call did not
return. `AppendTooLarge` is the way of a big message: its pages are allocated, linked and
logged, and then the call fails. `AppendFails` is a log that cannot be written or
synced: the message may be on its page and even in the log, and neither tip nor index
know it (`failed` and `lost` are the messages and pages left so). `chat_trim_keep_last`, with its loop over pages and messages, is one action:
write-backs happen before and after it, not inside (that is an under-approximation,
named here because a pool smaller than a chat could write back in the middle). Replay
is one action per record.

Which records replay skips depends on LSNs; here it is the length of a prefix,
`covered`. `LsnOrder`, proved for RedoLog, is what justifies this. Fsync, torn frames
and power loss are RedoLog's; here the process dies and the files stay.

`log` is history: per chat, what the calls whose records are in the log amount to.

The index of `MsgIndex` is a function from (chat, id) to packed locations, with the
count the code keeps beside it; `SaveIndex` and `LoadIndex` are the snapshot, entry by
entry, as sets, because nothing fixes the order of a HashMap.

### Domains

Each call of the other domains logs one record and applies it (`Call`); redo applies
the same record (`Apply`). A death in the middle of a call leaves the record and some
of the changed pages, which is the call, evictions, then `Crash`: nothing in between
can be seen. `said` is history: what the logged calls amount to. `setup` is chosen at
the start: the domains that clients use together (hot state shares no page with the
others, and mixing it with them multiplies states for nothing), the freelist that
trims of chats left behind, and how often the process may die. `Tick` is the wall
clock, which hot values expire by.

The hot page keeps one tuple per key; a full one is replaced by the new tuple alone,
as the code does, so `HotIsFresh` and `LastHotIsKept` promise what is left: never a
wrong value, and never the loss of the key set last. A chain is a root page and pages
behind it; `Endless` is the walk of insert_into_chain that never stops, since that
walk alone does not remember the pages it has seen.

### BufferPool

Callers pin, change, unpin; `touched` are pages changed through a handle that has not
been unpinned as dirty, which the callers in `engine.rs` always do at the end. A miss
is several steps: each iteration of `evict_if_needed` is one. The frames are a
HashMap, whose order of keys nothing fixes; `Outcomes` says what the clock can do,
and the invariant `SweepIsOutcome` compares it with the loop (`Sweep`) for every order
of keys and every position of the hand; `ClockIsOutcome` proves it of any number of
frames. The refinement maps a page to its frame if it
is cached and to the file otherwise. A write that fails may have written
part of the page, which then holds anything (`WriteFails`); what a reader makes of such a page
is in PageFile.

### SlottedPage, Codec, Crc32 and PageFile

A page is a function from offsets to bytes, as in `page.rs`; numbers that the code
calculates with (slots, `lower`, `upper`, lengths) are numbers read from it, those it
only carries (ids, LSNs, next pointers) stay bytes. PAGE_SIZE is a constant: 4096 in the
code, any size of 16 bits in the proofs, 300 in the run. `Layout` says what the bytes
of a page with given tuples look like; it is the specification of insert and of the
slots. `Codec` encodes and decodes; zstd is external, a function that shortens texts of
one repeated byte and lengthens others, which is all that the choice to compress sees.

PageFile puts pages between memory and file: `rows`, `filed` and `synced` are history,
the rows that the page in memory, in the file, in the synced file should hold. A power
loss leaves of each unsynced page a mixture of old and new by sectors, and cuts the end
of the file. The checksum is ideal there, that is, the page's content; `Crc32` checks the
real one (known answers, the table against bitwise division for every byte, every
change of one bit in four bytes) by its ASSUMEs. Two limits. A second power loss can put
an older version together again, which a checksum then matches: `VerifyFinds` says so. And
`TornKeepsRows` is about write-backs that add rows; when a page was made anew, the
directory of one version can point into tuples of the other.

### TwoEngines

The files of one directory, as far as opening them goes: the log with its LSNs,
`ENGINE.json` with the names of its fields, the messages in the heap. `Engines` says who
may open it. One record stands for an append; a checkpoint has its four steps; Kill may
come anywhere. What differs between the engines is in `ReadMeta`, `NextLsn` and `Close`.

## Runs

| run | what it shows | bounds |
|---|---|---|
| `redo_log` | the log never disagrees with heap, meta and snapshot about an acknowledged record, with failures everywhere | 3 records, one of them rejected, LSNs to 4, sync_every 2: a checkpoint that stops half way, records on either side of it and its repetition fit |
| `chat` | appends and trims keep pages, freelist, tips, index, its count and rings consistent and implement ChatLog; what was logged is found by id after crashes at every step; closes and opens lose, duplicate and misplace nothing | 2 chats, 2 messages per page, rings of 2; six setups (`MCChatEngine`): repeated ids with two trims; two checkpoints around a trim; two crashes with evictions and Drop; two messages that fit no page with a trim; one such message with a crash; a failing log with a crash. 3 to 5 appends each |
| `buffer_pool` | the pool is a store of pages, in which only a failed write tears or undoes; flush_all saves all of it; the clock finds a victim when there is one; a call that must make room returns | 4 pages, 2 frames, 2 pinned pages with one pin each (the proofs of the safety properties cover any number), 2 values: the pool grows, and shrinks again |
| `domains` | hot values, jobs, bonds and recalls are what the calls made them, through overflow, expiry, redo over any mix of old and new pages | 4 calls, 2 rows per page, 3 hot keys, 2 job ids, one bond and one recall key; 1 write-back, 1 checkpoint, 1 crash: a second page, a full hot page, an acknowledgement after an eviction fit |
| `page_file` | tuples never overlap and come back field by field; a page is used to its last byte; verify finds half-written pages and no others; a torn write-back keeps the older rows | 2 pages of 300 bytes in sectors of 100; seven setups (`MCPageFile`): texts around the length of 64 with and without compression; values that fill a page exactly, are a byte too long, are empty; jobs, bonds and recalls; write-backs with one power loss, with new pages, with header changes; two power losses |
| `redo_log_torn_tail`, `redo_log_rejected`, `chat_order`, `chat_drop_trim`, `chat_crash_trim`, `impulse_crash`, `two_engines` | the seven findings below | the smallest that show them |

Why the bounds are enough: the violations found need at most four appends, one trim
and one crash, and each passing run allows at least that much of what it is about. In
`page_file` three sectors separate header, tuples and directory, and the rows are chosen
at the limits; the proofs cover the other sizes, for all six properties.
`two_engines` has two messages, one checkpoint and one kill. With Engines = {"native"} the
same property holds, for three of each; with {"ts"} it holds for one kill and
fails for two (finding 7).

The setups of `chat` with crashes have no trims, and the setup of `chat` with repeated ids
is not reopened: see findings 3 to 5.
`Symmetry` permutes chats, names of keys and jobs, or records that are all accepted, where nothing tells them apart;
`buffer_pool`, which checks liveness too, uses none.

The chat, domain, page and directory configurations set `CHECK_DEADLOCK FALSE`: the numbers of appends, trims,
evictions, calls, write-backs, checkpoints and crashes are bounds of the model, and when they are used up
nothing is left to do. RedoLog and BufferPool are checked for deadlock.

**Fairness.** Only `FairSpec` of BufferPool has any: weak fairness of the steps inside
a call (`Loading`, `Flushing`). A call holds the mutex and runs its loops without
waiting for anything, so it takes its next step unless the process dies. No fairness
is assumed of clients, checkpoints or recovery.

Every property has a mutant in `PROJECT.json`: a change of one definition, such as a
programming error would make, with which TLC finds the property violated. The mutated
forms are the operators marked `mutant` in the modules; nothing else uses them.

## Findings

1. *A torn frame hides later ones* (`redo_log_torn_tail`, `wal.rs:59`). A failing write
   or a crash leaves part of a frame; nothing truncates it, and frames that are
   acknowledged after it are never replayed.
2. *A rejected record makes open fail* (`redo_log_rejected`, `engine.rs:809`). A tuple
   too large for a page is logged before it is rejected; every open that finds the record, that is,
   unless a checkpoint rotated the log in time, fails. (A recall tuple always fits.)
3. *Recovery reorders a chat* (`chat_order`, `engine.rs:195`). Page ids need not ascend
   along a chain after a trim; open sorts them.
4. *Redoing a trim* (`chat_drop_trim`, `engine.rs:383`). Over a heap flushed by Drop or
   close(true), a trim that had nothing to drop drops a later message's predecessor.
5. *Pages of chat 0* (`chat_crash_trim`, `engine.rs:264`). A page appended to the file
   before its chat id joins a chain that replay does not cut; a trim then frees another
   chat's page.
6. *The freelist after a crash* (`impulse_crash`, `engine.rs:257`). Page 0 in the file
   still has as free a page that is linked into the impulse chain; it is handed out
   again, and a logged job is lost. The chain can become a cycle, in which
   insert_into_chain would walk for ever.
7. *Two field names* (`two_engines`, `engine.rs:87`). The engines write the checkpoint's
   LSN into `ENGINE.json` under different names. The native one ignores a file of the
   TypeScript one, numbers its records from 1 again, and when it dies the TypeScript one
   skips them. A second cause needs the TypeScript engine only, and two deaths of the
   process: its log continues at the LSN of `ENGINE.json`, not behind the records that
   replay has found.

Recalls suffer from the cause of 3 too: recall_mem is rebuilt in the order of page
ids, so with a freelist that descends an open brings back an older vector of a
message; the property `RecallsAreLast` is therefore stated for pages in ascending
order. Because of 6, the setups of `domains` have no crash together with a freelist.

A further effect is of the kind of 5 and has no run of its own: when only a later page of
a chat was written back before a crash, open makes that page the head, and redoing the
link of an earlier page moves the tail only, so a walk from the head misses messages
that a lookup by id finds. Where the setups of `chat` with crashes exclude trims,
and walks are checked only as long as nothing has crashed, it is because of 3 to 5.

## Proofs

TLAPS proves, for all values of the constants:

*RedoLog* (assuming only that Rejected is a subset of Ops, sync_every and the LSN bound
are positive, and the Checkpoint payload is not an operation): `TypeOK`, `LsnOrder`,
`SkippedIsOnHeap`, `Recoverable`, `Survives`, `IndexComplete`, `LossWindow`,
`LeavesCovered`, which are all its properties. None is inductive. Recoverable fails to
imply itself because of a checkpoint under way: what entitles CkptPersist to move the
LSN of ENGINE.json is that the heap was flushed in this very checkpoint and nothing
was logged since. The inductive invariant `IInv` therefore adds to the types and the
order of LSNs: `LsnRoom` and `CheckpointLsns` (where the LSNs of process, checkpoint and
ENGINE.json stand in each phase), `OnePlace` (a record is logged once), `Kept` (what is
acknowledged is in the heap or in the log; after the flush of a checkpoint, in the
heap) and `Recovering` (what replay has passed, or skips, is in memory). They make
`SkippedIsOnHeap` inductive, and `Recoverable` follows. Over it come `Indexing` (a snapshot
whose LSN the next open accepts lacks only what that open will replay; the one
being written lacks nothing) for `IndexComplete`, and `RiskBounded` (the acknowledged frames
that are not fsynced are at most `appends`, the counter of log_op) for `LossWindow`.
`LeavesCovered` is an action property; `LogChange` lists the ways in which a step
changes the log at all.

*BufferPool* (assuming a finite set of pages, positive bounds, and that "no victim" is no
page): `TypeOK`, `CleanIsSaved`, `FlushSaves`, `HandlesStay`, `Bounded`, `SweepIsOutcome`, and `ImplementsPageStore`, the
refinement. The inductive invariant is TypeOK with CleanIsSaved: that a frame nobody
marked dirty equals the file is exactly what makes the eviction of a clean frame, and
a flush of the dirty ones only, invisible to readers. `Bounded` needs `Sizes` in
addition, which counts the page that a miss is about to pin. `SweepIsOutcome` is an induction
over the probes of the clock: after k of them, either there is no victim, and of the
frames passed over the reference bits of the unpinned ones are cleared, or what was found is one
of the `Outcomes`. Conversely each outcome has an order of the keys that leads to it: the
frames whose bits it clears first, then its victim.

*MsgIndex*: `PackUnpack`, `SetLocCounts`, `DeleteChatCounts`: locations come back, and set and
delete_chat keep the count equal to the number of entries. From the count follows
`SnapshotRestores`: an index is loaded as it was saved.

*ChatEngine* (assuming that a page holds at least one message and no more than a location has
slots, that rings are not empty, and that 0 is not a chat that clients use): `TypeOK` and
`IndexCounts`, for every set of setups. The invariant `Typed` says that there is one number of
pages on which file, pool, freelist, tips, index, snapshot and every record of the log agree.
An append that fails or dies leaves pages and records that no other part knows of, so a
page may be allocated and in no chain, but never the reverse, a link to a page that is not
there; hence ensure_page_count has nothing to extend when a record is redone. That a page
which chat_append has chosen still has room when it inserts is part of `Typed` too
(`CallOK`). `FreedTyped` and `RemadeTyped` are inductions over the two loops of a trim.
`AckedIsReadable` states `AckedReadable` for clients that never trim and never use an id twice
(`Untrimmed`), as in the setups `Deaths`, `BigDead` and `Failing` of the run `chat`: whatever is
evicted, checkpointed, too big or not written to the log, and wherever the process dies,
chat_get finds each acknowledged message. Trims are left out because they drop messages (and, with
crashes, bring them back: findings 3 to 5), reused ids because a later message hides an
earlier one. Its invariant, `Carries`, gives each page an owner, one chat for good, and
bounds its rows in the file and in memory by those that the log has for it
(`LogRows`): a page's rows are a prefix of them, so that redoing a record appends
what is missing and nothing twice, and always has room. What the file may lack
are rows of records at or after the checkpoint's position (`OnFile`, `LogsKept`). The index
leads to rows that exist (`Leads`) and misses only messages whose record is still to be
redone (`Covers`), also when it comes from a snapshot that a checkpoint wrote before
the process died. The case of a failed append is the reason that `Carries` speaks of numbers
of appends, not of acknowledged ones: its row may be on a page without a record, or
have a record without being acknowledged.

`ChatChainsProofs` has the rest of what the chat log says of its pages, for behaviours that close
their engines by checkpoints (`~setup.skip`): `OneOwner`, `TipsMatchChains`, `RecentAnswers`,
`KeepsMessages` and the refinement `ImplementsChatLog`. None is inductive: that a link is
written to the end of a chain follows only from where the tail stands in it, and that a trim frees
no page of another chat only from all chains together. The invariant `Chains` therefore has, for
the freelist and for each chat, the sequence of its pages (`Lists`): the links lead
along it, the pages bear its owner, and every page is in a sequence or in `Limbo`, that is,
with the append under way or lost by one that failed. What a walk reads (`ReadOf`) is then a
function of the sequence and of the rows on its pages, and each operation
of `ChatPages` is a change of sequences: a page taken from one (`Taking`), linked at the end of
another (`Joining`), filled (`Filling`), freed (`Freeing`), all of a chat's freed and its kept
messages put on new ones (`TrimChain`), all sorted by an open (`RelinkLists`). `Tipped` relates tips
and rings to the sequences. An open relinks the pages of a chat in the order of their ids, and
that changes nothing of what is read because, without trims, they are in
that order already (`Rising`). With trims they need not be, hence the hypothesis
`InOrder` of `WalksKeepMessages`, and `Faithful` in the refinement: finding 3 is what happens without.
`Resting` says what a checkpoint leaves: a file that is what memory was, and no record
for the next open to redo. Hence the hypothesis `~setup.skip`: after close(true) and after Drop the
next open redoes records over pages that have them already, and finding 4 shows what
that does to chats that were trimmed. The hypothesis `Few` of the refinement bounds the appends and
ids of all setups together: the abstract log has a finite set of messages.

*Domains* (for every set of setups, times and names): `TypeOK`, `HotIsFresh`, `LastHotIsKept`,
and, for chains, `ChainsAreApart`, `JobsAreKept`, `BondsAreListed`, `JobsAreSingle` and
`DueAnswers`. The difficulty is
redo over pages of any age. The argument is one for all domains: a page of the file or of
memory lies between what it may have and what it must have, given the records that
replay still has to apply. What the hot page may have is `Current` (a tuple is the last of
its key, or a later record overwrites it), what it must have is `LastOn`; for the chains
they are `Allowed` and `Wanted`. A later position in the log allows less and wants more; a
write-back copies a page that satisfies more than the file needs; a checkpoint moves the
position only after `disk = mem`. For chains there are three relations between file and
memory besides: `Behind` (a link in the file is that of memory, or 0), so that the chain in
the file is a prefix; the pages of memory's chain that the file's one does not reach have
nothing that is not allowed, for they will be linked again by replay; and `Mirrors`, since a
page written back is read back. `ChainsSound` says by links alone when chains end and stay
apart (no two pages have the same next, a link keeps the type, the freelist's head has no
predecessor); `PagesProofs` relates that to the walk `Chain`. The theorems on chains have the
hypothesis `FreelistOutlived`: no setup has both a freelist and a death of the process.
It cannot be dropped: `impulse_crash` (finding 6) is a setup with both in which
`JobsAreKept` fails. Setups with a freelist and no death, and with deaths and no freelist,
are both covered, by the proof as by the run.
`JobsAreSingle` needs `JobsOnce` besides: no two rows of the chain and no two records of the log
are the same job, and no row of the chain is the job of a record that replay has yet to apply,
so that redo adds nothing twice. It is said of memory at the place where replay
stands, and of the file at the position of the checkpoint; a page written back between
checkpoints would break the latter, so it is said while there was no such write (`flushes = 0`).
`DueAnswers` compares impulse_due, which walks the chain,
stops at the limit and sorts, with what is due. `DueOn` distributes over the concatenation of pages;
hence the walk finds a beginning of all that is due, either everything or at least as many as the
limit, and in any case all of the first page; and `Sorted` rearranges what it found, because the
places that `before` counts are different for different rows. Since the answer is cut to the
limit only after sorting, none of the first page is passed over for a later one.

*SlottedPage and Codec* (assuming PAGE_SIZE from the header's 64 to 65535): `EmptyHasLayout`,
`InsertKeepsLayout`, `SlotsReadBack`, `AllTuplesBack` and `DecodeEncode`. The heart of the first
two is `InsertBytes`, which says of each byte of the page where it comes from after the six
writes of an insert; that the new directory entry lies above all tuples, and the tuple below
all entries, is what `Fits` buys. `DecodeEncode` goes through the five formats field by
field, with texts of any length below 2^32 bytes, compressed or not; of the compression it
uses only that it can be undone.

*PageFile* (assuming rows of the five kinds, sectors no smaller than the header's 36 bytes): all
six properties. The invariant `IInv` keeps `Layout` for untainted pages not only in memory but
in the file and in the synced file, since each can become another by a write-back, a
sync, a reload or a power loss; keeps the magic number and the sizes (`Header`), so that a page
can be read at all; and has, for `VerifyFinds`, that a page outside `mixed` matches its checksum
and that, until a second power loss, a page in it does not. `RowsAreKept` follows from
`LayoutOK`, `AllTuplesBack` and `DecodeEncode`. `FitsExactly` needs that the space used is what the
header's `lower` and the directory say. `TornKeepsRows` rests on `MixOf`: what both versions of
a page have in common, every mixture of their sectors has; so have the older rows their
bytes and their directory entries, and the number of slots, if old, hides only
new rows. Trying to prove it showed that its earlier form was false: a page that a first power
loss had torn was counted among those that a second one may tear. TLC finds that with two
losses; `Survivors` now leaves such pages out.

**Recursive functions.** `NatSetInduction` of `Induction` is induction over a set of numbers
instead of an operator, proved from the finiteness of intervals, and `Recursion` the
existence of functions defined by steps. With them the recursive functions of the models can
be unfolded and reasoned about: `Chain`, `ReadOf`, `NotIn`, `Others`, `AllTuples`, the
probes of `Sweep`, `DueOn`, `DueFound` and the library's `FlattenSeq`.

**Only model-checked**: of ChatEngine, `IndexAnswers`, `AckedReadable` when clients trim or reuse ids, and
the properties of chains after close(true) or Drop (the setup `Deaths` of the run `chat`); of Domains, `RecallsAreLast`; of BufferPool,
`GetReturns`, because liveness is beyond the prover; `Crc32`, whose ASSUMEs are evaluated by TLC; `TwoEngines`, which exists for its finding.

## Not modelled

- `lib.rs`: the conversions between JavaScript and Rust values, and default options. Its
  mutex and its slot for the engine have no interleavings to model: a native call is
  synchronous on the one JavaScript thread that has the handle. After a close that
  failed, the slot is empty and calls fail with "nyatdb closed" (`AfterError` of
  RedoLog).
- The TypeScript engine beyond its LSNs: pages, pool and domains follow the native ones
  function by function, and would repeat these modules. The facade, which renames fields,
  and the search for the addon. `chat-log.ts`, which encodes a body before it reaches an
  engine.
- A `msg.idx` that is truncated or damaged; renames that a power loss undoes (the code
  does not fsync the directory); `cosine`; the sizes that `stats` reports.
- A trim during which pages are evicted, hot tuples that fit no page on their page (the
  effect on the log is in RedoLog), the pin that remains then.
- A log that fails in a trim (`engine.rs:728`) or in a call of the other domains (`engine.rs:289`). An
  fsync error leaves the record in the log while the call returns an error and applies nothing, so the
  next open applies what no client was told of. For the log itself that is `LogSyncFails` of RedoLog; for pages,
  `AppendFails` of ChatEngine has it for appends. In ChatEngine's trims and in Domains logging succeeds.
- The eviction of a page between its allocation and its first tuple, inside one call of Domains.
- `error.rs` has no state; `native/index.js` is generated.

## Plan

1. `IndexAnswers`, from the invariants `Chains` and `Leads`: both lead from a message to its page.
2. `RecallsAreLast`. A death leaves pages that no chain reaches; what has to be shown is that replay,
   which links them again, finds on them only tuples that are in the log at or before the place
   where it stands.
3. A trim in steps, with evictions between them; damaged snapshots.
