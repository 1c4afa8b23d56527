----------------------------- MODULE TwoEngines -----------------------------
(***************************************************************************)
(* One data directory and the two engines that may open it, the native one *)
(* (engine.rs) and the TypeScript one (engine.ts): which log sequence      *)
(* numbers each takes up again and which records it skips.  getNyatDb      *)
(* opens the TypeScript engine whenever the addon cannot be loaded, so the *)
(* two can follow one another at every start of the process.               *)
(*                                                                         *)
(* Data are messages; a message is on a page in memory, on one in the heap *)
(* file, or in the log.  The process may be killed at any point.  Files    *)
(* keep what was written to them: power losses and failing writes are      *)
(* RedoLog's subject.                                                      *)
(***************************************************************************)
EXTENDS Naturals, Sequences, FiniteSetsExt, TLC

CONSTANTS
    Engines,     \* which of "native" and "ts" get to open the directory
    Messages,
    MaxCkpts,    \* how many checkpoints are begun
    MaxKills     \* how often the process is killed

NoMeta == [by |-> "nobody"]

VARIABLES
    meta,     \* ENGINE.json, and whose field names it uses
    log,      \* redo.wal
    heap,     \* the messages on the pages of heap.ndb
    up,       \* the engine that has the directory open, or "nobody"
    mem,      \* the messages on its pages
    next,     \* the LSN that its log gives out next
    ckpt,     \* its checkpoint LSN
    phase,    \* how far its checkpoint is
    acked,    \* history: the messages whose append has returned
    ckpts, kills

files == <<meta, log, heap>>
engine == <<up, mem, next, ckpt, phase>>
vars == <<files, engine, acked, ckpts, kills>>

Init ==
    /\ meta = NoMeta /\ log = <<>> /\ heap = {}
    /\ up = "nobody" /\ mem = {} /\ next = 1 /\ ckpt = 0 /\ phase = "idle"
    /\ acked = {} /\ ckpts = 0 /\ kills = 0

\* What an engine gets out of ENGINE.json.  The native engine calls its fields lsn
\* and checkpoint_lsn and ignores the whole file when one is missing; the TypeScript
\* engine calls them lsn and checkpointLsn and takes the second to be 0 when missing.
ReadMeta(e) ==
    [lsn  |-> IF meta.by = "nobody" \/ (e = "native" /\ meta.by = "ts") THEN 1 ELSE meta.lsn,
     ckpt |-> IF meta.by = e THEN meta.ckpt ELSE 0]

After(l) == [i \in DOMAIN l |-> l[i].lsn + 1]

\* The native engine continues after the log, the TypeScript engine where
\* ENGINE.json says; its replay raises the engine's own lsn, not the log's.
NextLsn(e) ==
    IF e = "native" THEN Max({ReadMeta(e).lsn} \cup {After(log)[i] : i \in DOMAIN log})
                    ELSE ReadMeta(e).lsn

\* The checkpoint LSN with which replay comes to the i-th record: a checkpoint
\* record that is not skipped raises it.
CkptAt(e) ==
    LET at[i \in 1 .. Len(log) + 1] ==
            IF i = 1 THEN ReadMeta(e).ckpt
            ELSE IF log[i - 1].kind = "Checkpoint" /\ log[i - 1].lsn >= at[i - 1]
                 THEN After(log)[i - 1] ELSE at[i - 1]
    IN  at

Replayed(e) ==
    {log[i].msg : i \in {j \in DOMAIN log : /\ log[j].kind = "InsertTuple"
                                            /\ log[j].lsn >= CkptAt(e)[j]}}

-----------------------------------------------------------------------------

\* Engine::open and NyatDb.open
Open(e) ==
    /\ up = "nobody" /\ up' = e
    /\ mem' = heap \cup Replayed(e)
    /\ next' = NextLsn(e)
    /\ ckpt' = CkptAt(e)[Len(log) + 1]
    /\ UNCHANGED <<files, phase, acked, ckpts, kills>>

\* wal.append, and the lsn that follows it
Log(rec) == log' = Append(log, rec @@ [lsn |-> next]) /\ next' = next + 1

ChatAppend(m) ==
    /\ up # "nobody" /\ phase = "idle" /\ m \notin acked
    /\ Log([kind |-> "InsertTuple", msg |-> m])
    /\ mem' = mem \cup {m} /\ acked' = acked \cup {m}
    /\ UNCHANGED <<meta, heap, up, ckpt, phase, ckpts, kills>>

\* The pool writes a page back.
Evict(m) ==
    /\ m \in mem \ heap /\ heap' = heap \cup {m}
    /\ UNCHANGED <<meta, log, engine, acked, ckpts, kills>>

\* checkpoint: the pages, then the record, ENGINE.json, and a new log
Flush ==
    /\ up # "nobody" /\ phase = "idle" /\ ckpts < MaxCkpts
    /\ heap' = mem /\ phase' = "flushed" /\ ckpts' = ckpts + 1
    /\ UNCHANGED <<meta, log, up, mem, next, ckpt, acked, kills>>

LogCheckpoint ==
    /\ phase = "flushed" /\ phase' = "logged"
    /\ Log([kind |-> "Checkpoint"])
    /\ ckpt' = next + 1
    /\ UNCHANGED <<meta, heap, up, mem, acked, ckpts, kills>>

PersistMeta ==
    /\ phase = "logged" /\ phase' = "persisted"
    /\ meta' = [by |-> up, lsn |-> next, ckpt |-> ckpt]
    /\ UNCHANGED <<log, heap, up, mem, next, ckpt, acked, ckpts, kills>>

Rotate ==
    /\ phase = "persisted" /\ phase' = "idle" /\ log' = <<>>
    /\ UNCHANGED <<meta, heap, up, mem, next, ckpt, acked, ckpts, kills>>

\* closeNyatDb has the engine checkpoint, which is the steps above, and then there is
\* nothing left to write.  The native engine can also be dropped, or closed without a
\* checkpoint, and then writes its pages back.
Close ==
    /\ up # "nobody" /\ phase = "idle" /\ up' = "nobody" /\ mem' = {}
    /\ up = "native" \/ (log = <<>> /\ heap = mem)
    /\ heap' = mem
    /\ UNCHANGED <<meta, log, next, ckpt, phase, acked, ckpts, kills>>

Kill ==
    /\ up # "nobody" /\ kills < MaxKills
    /\ up' = "nobody" /\ mem' = {} /\ phase' = "idle" /\ kills' = kills + 1
    /\ UNCHANGED <<files, next, ckpt, acked, ckpts>>

Next ==
    \/ \E e \in Engines : Open(e)
    \/ \E m \in Messages : ChatAppend(m) \/ Evict(m)
    \/ Flush \/ LogCheckpoint \/ PersistMeta \/ Rotate \/ Close \/ Kill

Spec == Init /\ [][Next]_vars

-----------------------------------------------------------------------------

\* An engine that has the directory open serves every message whose append has
\* returned, whichever engine took it: "Two engines, one file format" of
\* CONTRIBUTING.md, over process deaths.
AckedServed == up # "nobody" => acked \subseteq mem

=============================================================================
