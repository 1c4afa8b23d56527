------------------------------- MODULE RedoLog -------------------------------
(***************************************************************************)
(* The redo log of the native engine and the life cycle around it:         *)
(* wal.rs, and the parts of engine.rs and lib.rs that open an engine,      *)
(* replay its log, append to it, checkpoint it and close it.               *)
(*                                                                         *)
(* What a record does to the pages is abstracted to one fact, whether the  *)
(* effect of the record is present: in the process (`mem'), in heap.ndb as *)
(* the operating system holds it (`disk'), or in heap.ndb as fsync left it *)
(* (`durable').  The page-level meaning of the records is the subject of   *)
(* the module ChatEngine.                                                  *)
(***************************************************************************)
EXTENDS Integers, Sequences, FiniteSets

CONSTANTS
    Ops,         \* identities of the records a client causes, each used once
    Rejected,    \* those whose application fails after logging (too large)
    SyncEvery,   \* OpenOpts.sync_every, after the .max(1) in Engine::open
    MaxLsn       \* bound of the model on the LSN counter

ASSUME RedoLogAssumption ==
    /\ Rejected \subseteq Ops
    /\ SyncEvery \in Nat \ {0}
    /\ MaxLsn \in Nat \ {0}

CheckpointOp == "checkpoint"    \* the payload of a WalType::Checkpoint record
ASSUME CheckpointAssumption == CheckpointOp \notin Ops

VARIABLES
    \* -- the directory: survives the death of the process
    file,          \* wal/redo.wal: the frames RedoWal::replay can reach
    tail,          \* what follows them in the file
    synced,        \* how many of the reachable frames are fsynced
    meta,          \* ENGINE.json
    snap,          \* snap/msg.idx: its LSN and the records it indexes
    disk,          \* effects in heap.ndb
    durable,       \* effects in heap.ndb that are fsynced
    \* -- the process
    phase,         \* where the one running call stands
    closing,       \* the running checkpoint was called by close(false)
    attached,      \* RedoWal.file is the file at wal/redo.wal
    replayed,      \* how many of the frames read by open are applied
    lsn,           \* Engine.lsn
    walLsn,        \* RedoWal.lsn
    checkpointLsn, \* Engine.checkpoint_lsn
    appends,       \* Engine.appends
    mem,           \* effects that a reader of the pages would see
    indexed,       \* records with an entry in Engine.msg_index
    \* -- history
    used,          \* records some call has tried to log
    acked,         \* records whose call returned Ok
    unreachable,   \* records written where replay does not get to
    dropped,       \* records whose unsynced frame a power loss took
    inherited      \* Len(file) when this process opened it

walVars     == <<file, tail, synced>>
heapVars    == <<disk, durable>>
lsnVars     == <<lsn, walLsn, checkpointLsn, appends>>
viewVars    == <<mem, indexed>>
historyVars == <<used, acked, unreachable, dropped>>
vars == <<file, tail, synced, meta, snap, disk, durable, phase, closing,
          attached, replayed, lsn, walLsn, checkpointLsn, appends, mem,
          indexed, used, acked, unreachable, dropped, inherited>>

Phases == {"closed",     \* no engine
           "replay",     \* Engine::open, between the records of replay_wal
           "open",       \* between two calls
           "flushed",    \* checkpoint, after pool.flush_all and heap.sync
           "logged",     \*   after the Checkpoint record and wal.sync
           "snapped",    \*   after save_msg_index
           "persisted",  \*   after persist_meta, before wal.rotate
          "failed"}     \* close(false) got an error, its engine is not dropped yet
Serving == {"open", "flushed", "logged", "snapped", "persisted"}
Tails   == {"clean",     \* nothing: an append lands where replay finds it
            "torn",      \* part of a frame, perhaps followed by more frames
            "tornSync"}  \* the same, and fsynced

Lsns    == 0 .. MaxLsn
Records == [lsn : Lsns, op : Ops \cup {CheckpointOp}]

OpsIn(f)     == {f[i].op : i \in DOMAIN f} \ {CheckpointOp}
LsnsIn(f)    == {f[i].lsn : i \in DOMAIN f}
\* Iterator::max of a set of numbers, or the default of unwrap_or
MaxOr(S, d)  == IF S = {} THEN d ELSE CHOOSE m \in S : \A n \in S : n <= m
Larger(a, b) == IF a >= b THEN a ELSE b

-----------------------------------------------------------------------------
(* Pieces of the calls. *)

\* RedoWal::append: the frame gets the LSN `walLsn'.  It is replayable only if
\* the file handle is the file that open will read and nothing torn precedes it.
Reachable == attached /\ tail = "clean"
Frame(op) == [lsn |-> walLsn, op |-> op]
FileWith(op) == IF Reachable THEN Append(file, Frame(op)) ELSE file

\* RedoWal::sync on the open handle
SyncedTail == IF attached /\ tail = "torn" THEN "tornSync" ELSE tail

\* BufferPool::flush_all and HeapFile::sync
FlushNothing == UNCHANGED heapVars                                  \* mutant
FlushUnsynced == disk' = disk \cup mem /\ durable' = durable        \* mutant
FlushHeap == disk' = disk \cup mem /\ durable' = disk \cup mem

\* RedoWal::rotate as the next open sees it: an empty redo.wal
RotateKeepsSynced == file' = <<>> /\ tail' = "clean" /\ UNCHANGED synced \* mutant
EmptyLog == file' = <<>> /\ tail' = "clean" /\ synced' = 0

\* The engine value is gone, with everything it kept in memory.
ProcessGone ==
    /\ phase' = "closed"
    /\ closing' = FALSE /\ attached' = TRUE
    /\ replayed' = 0 /\ inherited' = 0
    /\ lsn' = 0 /\ walLsn' = 0 /\ checkpointLsn' = 0 /\ appends' = 0
    /\ mem' = {} /\ indexed' = {}

\* The orderly end: Drop for Engine, which close(true) equals
FlushAndGo ==
    /\ FlushHeap
    /\ synced' = Len(file) /\ tail' = SyncedTail
    /\ ProcessGone
    /\ UNCHANGED <<file, meta, snap, historyVars>>

Init ==
    /\ file = <<>> /\ tail = "clean" /\ synced = 0
    /\ meta = [lsn |-> 1, ckpt |-> 0]
    /\ snap = [lsn |-> 0, ops |-> {}]
    /\ disk = {} /\ durable = {}
    /\ phase = "closed" /\ closing = FALSE /\ attached = TRUE
    /\ replayed = 0 /\ inherited = 0
    /\ lsn = 0 /\ walLsn = 0 /\ checkpointLsn = 0 /\ appends = 0
    /\ mem = {} /\ indexed = {}
    /\ used = {} /\ acked = {} /\ unreachable = {} /\ dropped = {}

-----------------------------------------------------------------------------
(* Opening. *)

\* The next LSN follows both ENGINE.json and every frame in the log.
NextLsnOfMeta == meta.lsn                                            \* mutant
NextLsn == Larger(meta.lsn, MaxOr({n + 1 : n \in LsnsIn(file)}, meta.lsn))

\* load_msg_index returns the snapshot only at the checkpoint's LSN; an empty
\* one is rebuilt all the same.
SnapUsable == snap.lsn = meta.ckpt /\ snap.ops # {}

\* Engine::open up to replay_wal
Open ==
    /\ phase = "closed"
    /\ phase' = "replay"
    /\ lsn' = NextLsn /\ walLsn' = NextLsn /\ checkpointLsn' = meta.ckpt
    /\ mem' = disk
    /\ indexed' = IF SnapUsable THEN snap.ops ELSE disk
    /\ inherited' = Len(file)
    /\ UNCHANGED <<walVars, meta, snap, heapVars, closing, attached, replayed,
                   appends, historyVars>>

\* replay_wal passes over what precedes the checkpoint.
SkippedUpTo(r) == r.lsn <= checkpointLsn                             \* mutant
Skipped(r) == r.lsn < checkpointLsn

\* apply_wal indexes what it applies (the snapshot ends at the checkpoint).
NotReindexed(op) == indexed                                          \* mutant
Reindexed(op) == indexed \cup {op}

\* One iteration of replay_wal, for a record that apply_wal accepts or that is
\* before the checkpoint.
ReplayStep ==
    /\ phase = "replay" /\ replayed < Len(file)
    /\ LET r == file[replayed + 1]
       IN  IF Skipped(r)
           THEN UNCHANGED <<lsn, checkpointLsn, viewVars>>
           ELSE /\ r.op \notin Rejected
                /\ lsn' = Larger(lsn, r.lsn + 1)
                /\ IF r.op = CheckpointOp
                   THEN checkpointLsn' = r.lsn + 1 /\ UNCHANGED viewVars
                   ELSE /\ mem' = mem \cup {r.op}
                        /\ indexed' = Reindexed(r.op)
                        /\ UNCHANGED checkpointLsn
    /\ replayed' = replayed + 1
    /\ UNCHANGED <<walVars, meta, snap, heapVars, phase, closing, attached,
                   walLsn, appends, historyVars, inherited>>

\* apply_wal fails: open returns the error and the half-built engine is dropped.
ReplayFails ==
    /\ phase = "replay" /\ replayed < Len(file)
    /\ LET r == file[replayed + 1]
       IN  ~Skipped(r) /\ r.op \in Rejected
    /\ FlushAndGo

ReplayDone ==
    /\ phase = "replay" /\ replayed = Len(file)
    /\ phase' = "open" /\ replayed' = 0
    /\ UNCHANGED <<walVars, meta, snap, heapVars, closing, attached, lsnVars,
                   viewVars, historyVars, inherited>>

-----------------------------------------------------------------------------
(* Serving.  An operation logs its record and applies it. *)

CanLog(op) == phase = "open" /\ walLsn < MaxLsn /\ op \notin used

\* Engine::log counts this append and syncs when the count reaches sync_every.
SyncLate == appends >= SyncEvery                                     \* mutant
SyncDue == appends + 1 >= SyncEvery

\* Engine::log with the fsync succeeding when it is due
LogFrame(op) ==
    /\ file' = FileWith(op)
    /\ walLsn' = walLsn + 1 /\ lsn' = walLsn + 1
    /\ appends' = IF SyncDue THEN 0 ELSE appends + 1
    /\ synced' = IF SyncDue THEN Len(FileWith(op)) ELSE synced
    /\ tail' = IF SyncDue THEN SyncedTail ELSE tail

\* The history of a frame that reached the file handle
Written(op) ==
    /\ used' = used \cup {op}
    /\ unreachable' = IF Reachable THEN unreachable ELSE unreachable \cup {op}

\* A call that succeeds
LogAndApply(op) ==
    /\ CanLog(op) /\ op \notin Rejected
    /\ LogFrame(op) /\ Written(op)
    /\ mem' = mem \cup {op} /\ indexed' = indexed \cup {op}
    /\ acked' = acked \cup {op}
    /\ UNCHANGED <<meta, snap, heapVars, phase, closing, attached, replayed,
                   checkpointLsn, dropped, inherited>>

\* hot_set, impulse_schedule, bond_upsert, recall_upsert with a tuple that
\* fits no page: the record is logged before the application fails.
LogAndReject(op) ==
    /\ CanLog(op) /\ op \in Rejected
    /\ LogFrame(op) /\ Written(op)
    /\ UNCHANGED <<meta, snap, heapVars, phase, closing, attached, replayed,
                   checkpointLsn, viewVars, acked, dropped, inherited>>

\* chat_append changes the page before it logs, every other call after: when
\* logging fails the effect may or may not be in memory.
PerhapsApplied(op) == mem' \in {mem} \cup {mem \cup {o} : o \in {op} \ Rejected}

\* wal.append fails after `self.lsn = lsn + 1': none or part of the frame is
\* in the file.  Engine.lsn keeps its value.
LogWriteFails(op) ==
    /\ CanLog(op)
    /\ walLsn' = walLsn + 1
    /\ tail' \in {tail} \cup {t \in {"torn"} : Reachable}
    /\ used' = used \cup {op}
    /\ PerhapsApplied(op)
    /\ UNCHANGED <<file, synced, meta, snap, heapVars, phase, closing,
                   attached, replayed, lsn, checkpointLsn, appends, indexed,
                   acked, unreachable, dropped, inherited>>

\* The frame is written but the fsync that is due fails: the call returns an
\* error and `appends' is not reset.
LogSyncFails(op) ==
    /\ CanLog(op) /\ SyncDue
    /\ file' = FileWith(op) /\ Written(op)
    /\ walLsn' = walLsn + 1 /\ lsn' = walLsn + 1
    /\ appends' = appends + 1
    /\ PerhapsApplied(op)
    /\ UNCHANGED <<tail, synced, meta, snap, heapVars, phase, closing,
                   attached, replayed, checkpointLsn, indexed, acked, dropped,
                   inherited>>

\* The clock of BufferPool evicts a dirty page, during replay or a call.
WriteBack(op) ==
    /\ phase \in {"replay", "open"} /\ op \in mem \ disk
    /\ disk' = disk \cup {op}
    /\ UNCHANGED <<walVars, meta, snap, durable, phase, closing, attached,
                   replayed, lsnVars, viewVars, historyVars, inherited>>

-----------------------------------------------------------------------------
(* Checkpoint and close. *)

\* `checkpoint', called by the client or by close(false)
CkptFlush ==
    /\ phase = "open" /\ walLsn < MaxLsn
    /\ phase' = "flushed"
    /\ closing' \in BOOLEAN
    /\ FlushHeap
    /\ UNCHANGED <<walVars, meta, snap, attached, replayed, lsnVars, viewVars,
                   historyVars, inherited>>

\* The Checkpoint record and `self.wal.sync()'
CkptLog ==
    /\ phase = "flushed"
    /\ phase' = "logged"
    /\ file' = FileWith(CheckpointOp)
    /\ walLsn' = walLsn + 1 /\ lsn' = walLsn + 1
    /\ appends' = IF SyncDue THEN 0 ELSE appends + 1
    /\ synced' = Len(FileWith(CheckpointOp)) /\ tail' = SyncedTail
    /\ checkpointLsn' = walLsn + 1
    /\ UNCHANGED <<meta, snap, heapVars, closing, attached, replayed, viewVars,
                   historyVars, inherited>>

\* save_msg_index writes msg.idx.tmp and renames it
CkptSnapshot ==
    /\ phase = "logged"
    /\ phase' = "snapped"
    /\ snap' = [lsn |-> checkpointLsn, ops |-> indexed]
    /\ UNCHANGED <<walVars, meta, heapVars, closing, attached, replayed,
                   lsnVars, viewVars, historyVars, inherited>>

\* persist_meta writes ENGINE.json.tmp and renames it
CkptPersist ==
    /\ phase = "snapped"
    /\ phase' = "persisted"
    /\ meta' = [lsn |-> lsn, ckpt |-> checkpointLsn]
    /\ UNCHANGED <<walVars, snap, heapVars, closing, attached, replayed,
                   lsnVars, viewVars, historyVars, inherited>>

\* RedoWal::rotate; close(false) then marks the engine closed
CkptRotate ==
    /\ phase = "persisted"
    /\ EmptyLog
    /\ IF closing
       THEN ProcessGone
       ELSE /\ phase' = "open" /\ attached' = TRUE
            /\ inherited' = 0
            /\ UNCHANGED <<closing, replayed, lsnVars, viewVars>>
    /\ UNCHANGED <<meta, snap, heapVars, historyVars>>

\* `?' returns an error of a checkpoint to its caller and nothing is undone;
\* for close(false) the caller has already taken the engine out of its handle,
\* which drops it.
AfterError == phase' = IF closing THEN "failed" ELSE "open"

\* The Checkpoint record is not written, written in part, or written but not
\* fsynced; or `log' fsyncs it, which was due, and the fsync of `checkpoint' fails.
CkptLogFails ==
    /\ phase = "flushed" /\ AfterError
    /\ walLsn' = walLsn + 1
    /\ \/ /\ tail' \in {tail} \cup {t \in {"torn"} : Reachable}
          /\ UNCHANGED <<file, synced, lsn, appends>>
       \/ /\ file' = FileWith(CheckpointOp)
          /\ lsn' = walLsn + 1 /\ appends' = appends + 1
          /\ UNCHANGED <<tail, synced>>
       \/ SyncDue /\ LogFrame(CheckpointOp)
    /\ UNCHANGED <<meta, snap, heapVars, closing, attached, replayed,
                   checkpointLsn, viewVars, historyVars, inherited>>

\* save_msg_index, persist_meta or the fsync of rotate fails.
CkptAborts ==
    /\ phase \in {"logged", "snapped", "persisted"} /\ AfterError
    /\ UNCHANGED <<walVars, meta, snap, heapVars, closing, attached, replayed,
                   lsnVars, viewVars, historyVars, inherited>>

\* rotate renames redo.wal and then cannot create the new one: the handle
\* still names the renamed file, and so does every later append.
RotateFails ==
    /\ phase = "persisted" /\ AfterError
    /\ EmptyLog
    /\ attached' = FALSE /\ inherited' = 0
    /\ UNCHANGED <<meta, snap, heapVars, closing, replayed, lsnVars, viewVars,
                   historyVars>>

\* close(true), Drop, and Drop after a close(false) whose checkpoint failed
CloseWithoutCheckpoint ==
    /\ phase \in {"open", "failed"}
    /\ FlushAndGo

-----------------------------------------------------------------------------
(* Failures of the process and of the machine. *)

\* The process dies.  What it wrote is in the operating system's files; a frame
\* being appended may be there in part.
Crash ==
    /\ phase # "closed"
    /\ tail' \in {tail} \cup {t \in {"torn"} : Reachable /\ phase = "open"}
    /\ ProcessGone
    /\ UNCHANGED <<file, synced, meta, snap, heapVars, historyVars>>

\* The machine dies: a suffix of the unsynced frames is lost, perhaps leaving
\* part of one, and so are heap pages written back since the last fsync.
PowerLoss ==
    /\ \E k \in synced .. Len(file), D \in SUBSET (disk \ durable) :
          /\ file' = SubSeq(file, 1, k)
          /\ dropped' = dropped \cup (OpsIn(file) \ OpsIn(SubSeq(file, 1, k)))
          /\ tail' \in IF k < Len(file) \/ tail = "torn"
                       THEN {"clean", "torn"} ELSE {tail}
          /\ disk' = durable \cup D
    /\ ProcessGone
    /\ UNCHANGED <<synced, meta, snap, durable, used, acked, unreachable>>

Next ==
    \/ Open \/ ReplayStep \/ ReplayFails \/ ReplayDone
    \/ \E op \in Ops : \/ LogAndApply(op) \/ LogAndReject(op)
                       \/ LogWriteFails(op) \/ LogSyncFails(op)
                       \/ WriteBack(op)
    \/ CkptFlush \/ CkptLog \/ CkptSnapshot \/ CkptPersist \/ CkptRotate
    \/ CkptLogFails \/ CkptAborts \/ RotateFails \/ CloseWithoutCheckpoint
    \/ Crash \/ PowerLoss

Spec == Init /\ [][Next]_vars

-----------------------------------------------------------------------------
(* Properties. *)

LogOK ==
    /\ file \in Seq(Records) /\ tail \in Tails /\ synced \in 0 .. Len(file)
    /\ replayed \in 0 .. Len(file) /\ inherited \in 0 .. Len(file)
LsnsOK ==
    /\ meta \in [lsn : Lsns, ckpt : Lsns]
    /\ lsn \in Lsns /\ walLsn \in Lsns
    /\ checkpointLsn \in Lsns /\ appends \in Nat
EffectsOK ==
    /\ durable \subseteq disk /\ disk \subseteq Ops \ Rejected
    /\ mem \subseteq Ops \ Rejected /\ indexed \subseteq Ops
    /\ snap \in [lsn : Lsns, ops : SUBSET Ops]
ControlOK == phase \in Phases /\ closing \in BOOLEAN /\ attached \in BOOLEAN
HistoryOK ==
    /\ used \subseteq Ops /\ acked \subseteq used
    /\ unreachable \subseteq used /\ dropped \subseteq used

TypeOK == LogOK /\ LsnsOK /\ EffectsOK /\ ControlOK /\ HistoryOK

\* The LSNs in the log increase along it, across restarts, failed appends and
\* checkpoints that stopped half way, and the next append goes beyond them and
\* is at or beyond every checkpoint: replay would skip it otherwise
\* (engine.rs open and replay_wal).
LsnOrder ==
    /\ \A i, j \in DOMAIN file : i < j => file[i].lsn < file[j].lsn
    /\ phase # "closed" =>
          /\ \A i \in DOMAIN file : file[i].lsn < walLsn
          /\ meta.lsn <= walLsn /\ meta.ckpt <= checkpointLsn
          /\ checkpointLsn <= walLsn /\ lsn <= walLsn
    /\ meta.ckpt <= meta.lsn

\* What replay would skip needs no replay: a frame before the LSN of ENGINE.json
\* whose call returned Ok has its effect in the fsynced heap, wherever the
\* checkpoint that wrote ENGINE.json, or a later one, was interrupted.
SkippedIsOnHeap ==
    \A i \in DOMAIN file :
        file[i].lsn < meta.ckpt /\ file[i].op \in acked => file[i].op \in durable

\* The records that the directory still promises
Promised == acked \ (unreachable \cup dropped)
ReplayedOps == {file[i].op : i \in {j \in DOMAIN file : file[j].lsn >= meta.ckpt}}

\* At every moment, mid-checkpoint and mid-recovery included, what a call
\* acknowledged is in the fsynced heap or in the part of the log that the next
\* open replays.
Recoverable == Promised \subseteq durable \cup ReplayedOps

\* Once open returns, every acknowledged record has its effect.
Survives == phase \in Serving => Promised \subseteq mem

\* Once open returns, msg_index has every acknowledged record, whether it was
\* loaded from a snapshot of the right LSN or rebuilt.
IndexComplete == phase \in Serving => Promised \subseteq indexed

\* sync_every bounds what a power loss can take: of the records this process
\* acknowledged, fewer than sync_every are in frames that are not fsynced,
\* failed fsyncs and checkpoints notwithstanding (Engine::log).
AtRisk == {file[i].op : i \in (Larger(synced, inherited) + 1) .. Len(file)}
              \cap acked
LossWindow == phase # "closed" => Cardinality(AtRisk) < SyncEvery

\* A frame leaves the log only when its effect is in the fsynced heap, unless
\* the machine lost power before it was fsynced or its call returned an error.
LeavesCovered ==
    [][\A op \in (OpsIn(file) \cap acked) \ OpsIn(file)' :
            op \in durable' \cup dropped']_vars

\* "durability ends at the WAL": what the log acknowledged, and no power loss
\* took, is there after the next open (comment of engine.rs on
\* crash_without_flush_for_test).  A torn frame, or a rotation that stopped half
\* way, puts acknowledged frames where replay does not get to.
DurableAtWal == phase \in Serving => acked \ dropped \subseteq mem

\* "Open loads msg.idx or rebuilds the index, and replays the WAL" (the recovery
\* section of docs/README.md): no record that a call of the API left in the log
\* makes replay, and with it open, fail.
ReplayAccepts ==
    phase = "replay" /\ replayed < Len(file) =>
        \/ Skipped(file[replayed + 1])
        \/ file[replayed + 1].op \notin Rejected
=============================================================================
