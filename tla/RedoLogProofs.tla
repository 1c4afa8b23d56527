---------------------------- MODULE RedoLogProofs ----------------------------
(***************************************************************************)
(* What RedoLog guarantees for every set of records, every sync_every and  *)
(* every length of history: types, the order of the LSNs, and that no      *)
(* acknowledged record is lost by a crash, a restart, an interrupted       *)
(* checkpoint or a failed call.                                            *)
(***************************************************************************)
EXTENDS RedoLog, FiniteSetTheorems, TLAPS

\* Room for the LSN that a step is about to use, and where the replay cursor is
\* in use.
LsnRoom ==
    /\ \A i \in DOMAIN file : file[i].lsn < MaxLsn
    /\ phase = "flushed" => walLsn < MaxLsn
    /\ phase # "replay" => replayed = 0

\* Between the Checkpoint record and ENGINE.json both counters are just past it.
CheckpointLsns ==
    phase \in {"logged", "snapped"} => lsn = walLsn /\ checkpointLsn = walLsn

\* A record is in the log, or out of replay's reach, or lost: one of them.
OnePlace ==
    /\ OpsIn(file) \subseteq used
    /\ OpsIn(file) \cap (unreachable \cup dropped) = {}
    /\ acked \cap Rejected = {}

\* Why no promise is lost: outside the log it is in the fsynced heap, and the
\* log is only cut when the heap has everything.
Kept ==
    /\ Promised \subseteq durable \cup OpsIn(file)
    /\ phase \in {"flushed", "logged", "snapped", "persisted"} =>
           Promised \subseteq durable

\* How far recovery has come: what it passed is in memory, and what is ahead of
\* it is not skipped on account of a Checkpoint record it met.
Recovering ==
    /\ phase # "closed" => disk \subseteq mem
    /\ phase = "replay" =>
          \A i \in DOMAIN file :
              IF i <= replayed
              THEN file[i].lsn >= meta.ckpt /\ file[i].op \in acked
                       => file[i].op \in mem
              ELSE file[i].lsn >= meta.ckpt => file[i].lsn >= checkpointLsn

\* The inductive invariant
IInv ==
    /\ TypeOK /\ LsnRoom /\ LsnOrder /\ CheckpointLsns
    /\ OnePlace /\ SkippedIsOnHeap /\ Kept /\ Recovering /\ Survives

-----------------------------------------------------------------------------
(* Lemmas about the operators. *)

\* RedoWal::append leaves the frames before it alone and adds at most one, with
\* the LSN it was handed, and only where replay will find it.
LEMMA FileWithFacts ==
    ASSUME file \in Seq(Records), walLsn \in Lsns,
           NEW op \in Ops \cup {CheckpointOp}
    PROVE  /\ FileWith(op) \in Seq(Records)
           /\ Len(FileWith(op)) \in {Len(file), Len(file) + 1}
           /\ DOMAIN FileWith(op) = 1 .. Len(FileWith(op))
           /\ \A i \in DOMAIN file : FileWith(op)[i] = file[i]
           /\ \A i \in DOMAIN FileWith(op) \ DOMAIN file :
                  Reachable /\ FileWith(op)[i] = Frame(op)
  <1>1. Frame(op) \in Records
    BY DEF Frame, Records
  <1>2. CASE Reachable
    BY <1>1, <1>2 DEF FileWith
  <1>3. CASE ~Reachable
    BY <1>3 DEF FileWith
  <1> QED BY <1>2, <1>3

\* The maximum that open takes over a log in LSN order is at its last frame.
LEMMA NextLsnFacts ==
    ASSUME file \in Seq(Records), meta.lsn \in Nat,
           \A i, j \in DOMAIN file : i < j => file[i].lsn < file[j].lsn
    PROVE  /\ NextLsn >= meta.lsn
           /\ \A i \in DOMAIN file : file[i].lsn < NextLsn
           /\ NextLsn = meta.lsn \/ \E i \in DOMAIN file : NextLsn = file[i].lsn + 1
  <1> DEFINE S == {n + 1 : n \in LsnsIn(file)}
             top == MaxOr(S, meta.lsn)
  <1>0. \A i \in DOMAIN file : file[i] \in Records
    OBVIOUS
  <1>1. \A i \in DOMAIN file : file[i].lsn \in Nat
    BY <1>0, RedoLogAssumption DEF Records, Lsns
  <1>2. CASE file = <<>>
    <2>1. S = {}
      BY <1>2 DEF LsnsIn
    <2> QED BY <2>1, <1>2 DEF NextLsn, MaxOr, Larger
  <1>3. CASE file # <<>>
    <2>1. Len(file) \in DOMAIN file
      BY <1>3
    <2>2. \A i \in DOMAIN file : file[i].lsn <= file[Len(file)].lsn
      BY <2>1, <1>1
    <2>3. /\ file[Len(file)].lsn + 1 \in S
          /\ \A n \in S : n <= file[Len(file)].lsn + 1
      <3>1. file[Len(file)].lsn + 1 \in S
        BY <2>1 DEF LsnsIn
      <3>2. ASSUME NEW n \in S
            PROVE  n <= file[Len(file)].lsn + 1
        <4>1. PICK i \in DOMAIN file : n = file[i].lsn + 1
          BY <3>2 DEF LsnsIn
        <4> QED BY <4>1, <2>1, <2>2, <1>1
      <3> QED BY <3>1, <3>2
    <2>4. top \in S /\ \A n \in S : n <= top
      BY <2>3 DEF MaxOr
    <2>5. \A i \in DOMAIN file : file[i].lsn + 1 \in S
      BY DEF LsnsIn
    <2>6. \E i \in DOMAIN file : top = file[i].lsn + 1
      BY <2>4 DEF LsnsIn
    <2>7. top \in Nat
      BY <2>6, <1>1
    <2>8. \A i \in DOMAIN file : file[i].lsn < top
      <3> TAKE i \in DOMAIN file
      <3>1. file[i].lsn + 1 \in S
        BY <2>5
      <3>2. file[i].lsn + 1 <= top
        BY <2>4, <3>1
      <3> HIDE DEF top
      <3> QED BY <3>2, <2>7, <1>1
    <2>9. NextLsn = Larger(meta.lsn, top)
      BY DEF NextLsn
    <2> HIDE DEF top
    <2> QED BY <2>6, <2>7, <2>8, <2>9, <1>1 DEF Larger
  <1> QED BY <1>2, <1>3

\* The frames that a power loss leaves
LEMMA PrefixFacts ==
    ASSUME file \in Seq(Records), synced \in 0 .. Len(file),
           NEW k \in synced .. Len(file)
    PROVE  /\ SubSeq(file, 1, k) \in Seq(Records)
           /\ Len(SubSeq(file, 1, k)) = k
           /\ DOMAIN SubSeq(file, 1, k) = 1 .. k
           /\ \A i \in 1 .. k : SubSeq(file, 1, k)[i] = file[i]
  OBVIOUS

\* The same for the type of the log and for the room above its LSNs
LEMMA FileWithOK ==
    ASSUME LogOK, LsnsOK, LsnRoom, walLsn < MaxLsn,
           NEW op \in Ops \cup {CheckpointOp}
    PROVE  /\ FileWith(op) \in Seq(Records)
           /\ Len(file) <= Len(FileWith(op))
           /\ \A i \in DOMAIN FileWith(op) : FileWith(op)[i].lsn < MaxLsn
           /\ walLsn \in Lsns /\ walLsn + 1 \in Lsns
  <1>1. walLsn \in Lsns /\ walLsn + 1 \in Lsns
    BY RedoLogAssumption DEF LsnsOK, Lsns
  <1>2. file \in Seq(Records)
    BY DEF LogOK
  <1>3. Len(file) \in Nat
    BY <1>2
  <1>4. ASSUME NEW i \in DOMAIN FileWith(op)
        PROVE  FileWith(op)[i].lsn < MaxLsn
    <2>1. CASE i \in DOMAIN file
      BY <2>1, <1>1, <1>2, FileWithFacts DEF LsnRoom
    <2>2. CASE i \notin DOMAIN file
      <3>1. FileWith(op)[i] = Frame(op)
        BY <2>2, <1>1, <1>2, <1>4, FileWithFacts
      <3> QED BY <3>1 DEF Frame
    <2> QED BY <2>1, <2>2
  <1> QED BY <1>1, <1>2, <1>3, <1>4, FileWithFacts

-----------------------------------------------------------------------------
(* Type correctness. *)

LEMMA TypeStep ==
    ASSUME IInv, [Next]_vars
    PROVE  TypeOK' /\ LsnRoom'
  <1> USE RedoLogAssumption, CheckpointAssumption
      DEF IInv, TypeOK, Phases, Tails, Lsns, walVars, heapVars, lsnVars,
          viewVars, historyVars
  <1>1. CASE Open
    <2>0. NextLsn \in Lsns
      <3>1. file \in Seq(Records) /\ meta.lsn \in Nat
        BY DEF LogOK, LsnsOK
      <3>2. NextLsn = meta.lsn \/ \E i \in DOMAIN file : NextLsn = file[i].lsn + 1
        BY <3>1, NextLsnFacts DEF LsnOrder
      <3>3. \A i \in DOMAIN file : file[i].lsn \in Lsns
        <4>1. \A i \in DOMAIN file : file[i] \in Records
          BY <3>1
        <4> QED BY <4>1 DEF Records
      <3> QED BY <3>2, <3>3 DEF LsnRoom, LsnsOK
    <2>1. LsnsOK'
      BY <1>1, <2>0 DEF Open, LsnsOK, LogOK, LsnRoom
    <2>2. LogOK' /\ EffectsOK' /\ ControlOK' /\ HistoryOK' /\ LsnRoom'
      BY <1>1 DEF Open, LogOK, EffectsOK, ControlOK, HistoryOK, LsnRoom
    <2> QED BY <2>1, <2>2
  <1>2. CASE ReplayStep
    <2>0. /\ file[replayed + 1] \in Records
          /\ file[replayed + 1].lsn < MaxLsn
      BY <1>2 DEF ReplayStep, LogOK, LsnRoom
    <2>1. LsnsOK'
      <3> DEFINE r == file[replayed + 1]
      <3>1. r.lsn \in Nat /\ r.lsn + 1 \in Lsns
        BY <2>0 DEF Records
      <3>2. lsn' \in {lsn, Larger(lsn, r.lsn + 1)} /\ checkpointLsn' \in {checkpointLsn, r.lsn + 1}
        BY <1>2 DEF ReplayStep
      <3>3. UNCHANGED <<meta, walLsn, appends>>
        BY <1>2 DEF ReplayStep
      <3> HIDE DEF r
      <3> QED BY <3>1, <3>2, <3>3 DEF LsnsOK, Larger
    <2>2. EffectsOK'
      BY <1>2, <2>0 DEF ReplayStep, EffectsOK, Reindexed, Records
    <2>3. LogOK' /\ ControlOK' /\ HistoryOK' /\ LsnRoom'
      BY <1>2 DEF ReplayStep, LogOK, ControlOK, HistoryOK, LsnRoom
    <2> QED BY <2>1, <2>2, <2>3
  <1>3. CASE ReplayFails
    <2>1. LogOK'
      BY <1>3 DEF ReplayFails, FlushAndGo, FlushHeap, ProcessGone, historyVars, SyncedTail, LogOK
    <2>2. LsnsOK'
      BY <1>3 DEF ReplayFails, FlushAndGo, FlushHeap, ProcessGone, historyVars, SyncedTail, LsnsOK
    <2>3. EffectsOK'
      BY <1>3 DEF ReplayFails, FlushAndGo, FlushHeap, ProcessGone, historyVars, SyncedTail, EffectsOK
    <2>4. ControlOK'
      BY <1>3 DEF ReplayFails, FlushAndGo, FlushHeap, ProcessGone, historyVars, SyncedTail, ControlOK
    <2>5. HistoryOK'
      BY <1>3 DEF ReplayFails, FlushAndGo, FlushHeap, ProcessGone, historyVars, SyncedTail, HistoryOK
    <2>6. LsnRoom'
      BY <1>3 DEF ReplayFails, FlushAndGo, FlushHeap, ProcessGone, historyVars, SyncedTail, LsnRoom
    <2> QED BY <2>1, <2>2, <2>3, <2>4, <2>5, <2>6
  <1>4. CASE ReplayDone
    BY <1>4 DEF ReplayDone, LogOK, LsnsOK, EffectsOK, ControlOK, HistoryOK, LsnRoom
  <1>5. ASSUME NEW op \in Ops, LogAndApply(op)
        PROVE  TypeOK' /\ LsnRoom'
    <2>1. LogOK'
      BY <1>5, FileWithOK DEF LogAndApply, CanLog, LogFrame, Written, SyncedTail, LsnRoom, LogOK
    <2>2. LsnsOK'
      BY <1>5, FileWithOK DEF LogAndApply, CanLog, LogFrame, Written, SyncedTail, LsnRoom, LsnsOK
    <2>3. LsnRoom'
      BY <1>5, FileWithOK DEF LogAndApply, CanLog, LogFrame, Written, SyncedTail, LsnRoom, LsnRoom
    <2>4. EffectsOK' /\ ControlOK' /\ HistoryOK'
      BY <1>5 DEF LogAndApply, CanLog, LogFrame, Written, SyncedTail, EffectsOK, ControlOK, HistoryOK
    <2> QED BY <2>1, <2>2, <2>3, <2>4
  <1>6. ASSUME NEW op \in Ops, LogAndReject(op)
        PROVE  TypeOK' /\ LsnRoom'
    <2>1. LogOK'
      BY <1>6, FileWithOK DEF LogAndReject, CanLog, LogFrame, Written, SyncedTail, LsnRoom, LogOK
    <2>2. LsnsOK'
      BY <1>6, FileWithOK DEF LogAndReject, CanLog, LogFrame, Written, SyncedTail, LsnRoom, LsnsOK
    <2>3. LsnRoom'
      BY <1>6, FileWithOK DEF LogAndReject, CanLog, LogFrame, Written, SyncedTail, LsnRoom, LsnRoom
    <2>4. EffectsOK' /\ ControlOK' /\ HistoryOK'
      BY <1>6 DEF LogAndReject, CanLog, LogFrame, Written, SyncedTail, EffectsOK, ControlOK, HistoryOK
    <2> QED BY <2>1, <2>2, <2>3, <2>4
  <1>7. ASSUME NEW op \in Ops, LogWriteFails(op)
        PROVE  TypeOK' /\ LsnRoom'
    BY <1>7 DEF LogWriteFails, CanLog, PerhapsApplied, LogOK, LsnsOK, EffectsOK, ControlOK, HistoryOK, LsnRoom
  <1>8. ASSUME NEW op \in Ops, LogSyncFails(op)
        PROVE  TypeOK' /\ LsnRoom'
    <2>1. LogOK'
      BY <1>8, FileWithOK DEF LogSyncFails, CanLog, Written, PerhapsApplied, LsnRoom, LogOK
    <2>2. LsnsOK'
      BY <1>8, FileWithOK DEF LogSyncFails, CanLog, Written, PerhapsApplied, LsnRoom, LsnsOK
    <2>3. LsnRoom'
      BY <1>8, FileWithOK DEF LogSyncFails, CanLog, Written, PerhapsApplied, LsnRoom, LsnRoom
    <2>4. EffectsOK' /\ ControlOK' /\ HistoryOK'
      BY <1>8 DEF LogSyncFails, CanLog, Written, PerhapsApplied, EffectsOK, ControlOK, HistoryOK
    <2> QED BY <2>1, <2>2, <2>3, <2>4
  <1>9. ASSUME NEW op \in Ops, WriteBack(op)
        PROVE  TypeOK' /\ LsnRoom'
    BY <1>9 DEF WriteBack, LogOK, LsnsOK, EffectsOK, ControlOK, HistoryOK, LsnRoom
  <1>10. CASE CkptFlush
    BY <1>10 DEF CkptFlush, FlushHeap, LogOK, LsnsOK, EffectsOK, ControlOK, HistoryOK, LsnRoom
  <1>11. CASE CkptLog
    <2>1. LogOK'
      BY <1>11, FileWithOK DEF CkptLog, SyncedTail, LsnRoom, LogOK
    <2>2. LsnsOK'
      BY <1>11, FileWithOK DEF CkptLog, SyncedTail, LsnRoom, LsnsOK
    <2>3. LsnRoom'
      BY <1>11, FileWithOK DEF CkptLog, SyncedTail, LsnRoom, LsnRoom
    <2>4. EffectsOK' /\ ControlOK' /\ HistoryOK'
      BY <1>11 DEF CkptLog, SyncedTail, EffectsOK, ControlOK, HistoryOK
    <2> QED BY <2>1, <2>2, <2>3, <2>4
  <1>12. CASE CkptSnapshot
    <2>1. EffectsOK'
      BY <1>12 DEF CkptSnapshot, EffectsOK, LsnsOK
    <2>2. LogOK' /\ LsnsOK' /\ ControlOK' /\ HistoryOK' /\ LsnRoom'
      BY <1>12 DEF CkptSnapshot, LogOK, LsnsOK, ControlOK, HistoryOK, LsnRoom
    <2> QED BY <2>1, <2>2
  <1>13. CASE CkptPersist
    BY <1>13 DEF CkptPersist, LogOK, LsnsOK, EffectsOK, ControlOK, HistoryOK, LsnRoom
  <1>14. CASE CkptRotate
    <2>1. LogOK'
      BY <1>14 DEF CkptRotate, EmptyLog, ProcessGone, LogOK, LsnRoom
    <2>2. LsnsOK'
      BY <1>14 DEF CkptRotate, EmptyLog, ProcessGone, LsnsOK
    <2>3. EffectsOK'
      BY <1>14 DEF CkptRotate, EmptyLog, ProcessGone, EffectsOK
    <2>4. ControlOK'
      BY <1>14 DEF CkptRotate, EmptyLog, ProcessGone, ControlOK
    <2>5. HistoryOK'
      BY <1>14 DEF CkptRotate, EmptyLog, ProcessGone, HistoryOK
    <2>6. LsnRoom'
      BY <1>14 DEF CkptRotate, EmptyLog, ProcessGone, LsnRoom
    <2> QED BY <2>1, <2>2, <2>3, <2>4, <2>5, <2>6
  <1>15. CASE CkptLogFails
    <2>1. LogOK'
      BY <1>15, FileWithOK DEF CkptLogFails, LogFrame, SyncedTail, AfterError, LsnRoom, LogOK
    <2>2. LsnsOK'
      BY <1>15, FileWithOK DEF CkptLogFails, LogFrame, SyncedTail, AfterError, LsnRoom, LsnsOK
    <2>3. LsnRoom'
      BY <1>15, FileWithOK DEF CkptLogFails, LogFrame, SyncedTail, AfterError, LsnRoom, LsnRoom
    <2>4. EffectsOK' /\ ControlOK' /\ HistoryOK'
      BY <1>15 DEF CkptLogFails, LogFrame, SyncedTail, AfterError, EffectsOK, ControlOK, HistoryOK
    <2> QED BY <2>1, <2>2, <2>3, <2>4
  <1>16. CASE CkptAborts
    BY <1>16 DEF CkptAborts, AfterError, LogOK, LsnsOK, EffectsOK, ControlOK, HistoryOK, LsnRoom
  <1>17. CASE RotateFails
    <2>1. LogOK'
      BY <1>17 DEF RotateFails, AfterError, EmptyLog, LogOK, LsnRoom
    <2>2. LsnsOK'
      BY <1>17 DEF RotateFails, AfterError, EmptyLog, LsnsOK
    <2>3. EffectsOK'
      BY <1>17 DEF RotateFails, AfterError, EmptyLog, EffectsOK
    <2>4. ControlOK'
      BY <1>17 DEF RotateFails, AfterError, EmptyLog, ControlOK
    <2>5. HistoryOK'
      BY <1>17 DEF RotateFails, AfterError, EmptyLog, HistoryOK
    <2>6. LsnRoom'
      BY <1>17 DEF RotateFails, AfterError, EmptyLog, LsnRoom
    <2> QED BY <2>1, <2>2, <2>3, <2>4, <2>5, <2>6
  <1>18. CASE CloseWithoutCheckpoint
    <2>1. LogOK'
      BY <1>18 DEF CloseWithoutCheckpoint, FlushAndGo, FlushHeap, ProcessGone, SyncedTail, LogOK
    <2>2. LsnsOK'
      BY <1>18 DEF CloseWithoutCheckpoint, FlushAndGo, FlushHeap, ProcessGone, SyncedTail, LsnsOK
    <2>3. EffectsOK'
      BY <1>18 DEF CloseWithoutCheckpoint, FlushAndGo, FlushHeap, ProcessGone, SyncedTail, EffectsOK
    <2>4. ControlOK'
      BY <1>18 DEF CloseWithoutCheckpoint, FlushAndGo, FlushHeap, ProcessGone, SyncedTail, ControlOK
    <2>5. HistoryOK'
      BY <1>18 DEF CloseWithoutCheckpoint, FlushAndGo, FlushHeap, ProcessGone, SyncedTail, HistoryOK
    <2>6. LsnRoom'
      BY <1>18 DEF CloseWithoutCheckpoint, FlushAndGo, FlushHeap, ProcessGone, SyncedTail, LsnRoom
    <2> QED BY <2>1, <2>2, <2>3, <2>4, <2>5, <2>6
  <1>19. CASE Crash
    <2>1. LogOK'
      BY <1>19 DEF Crash, ProcessGone, LogOK
    <2>2. LsnsOK'
      BY <1>19 DEF Crash, ProcessGone, LsnsOK
    <2>3. EffectsOK'
      BY <1>19 DEF Crash, ProcessGone, EffectsOK
    <2>4. ControlOK'
      BY <1>19 DEF Crash, ProcessGone, ControlOK
    <2>5. HistoryOK'
      BY <1>19 DEF Crash, ProcessGone, HistoryOK
    <2>6. LsnRoom'
      BY <1>19 DEF Crash, ProcessGone, LsnRoom
    <2> QED BY <2>1, <2>2, <2>3, <2>4, <2>5, <2>6
  <1>20. CASE PowerLoss
    <2>1. LogOK'
      BY <1>20 DEF PowerLoss, ProcessGone, LogOK
    <2>2. LsnsOK'
      BY <1>20 DEF PowerLoss, ProcessGone, LsnsOK
    <2>3. EffectsOK'
      BY <1>20 DEF PowerLoss, ProcessGone, EffectsOK
    <2>4. ControlOK'
      BY <1>20 DEF PowerLoss, ProcessGone, ControlOK
    <2>5. HistoryOK'
      BY <1>20 DEF PowerLoss, ProcessGone, HistoryOK, OnePlace
    <2>6. LsnRoom'
      BY <1>20 DEF PowerLoss, ProcessGone, LsnRoom
    <2> QED BY <2>1, <2>2, <2>3, <2>4, <2>5, <2>6
  <1>21. CASE UNCHANGED vars
    BY <1>21 DEF vars, LogOK, LsnsOK, EffectsOK, ControlOK, HistoryOK, LsnRoom
  <1> QED
    BY <1>1, <1>2, <1>3, <1>4, <1>5, <1>6, <1>7, <1>8, <1>9, <1>10, <1>11, <1>12, <1>13, <1>14, <1>15, <1>16, <1>17, <1>18, <1>19, <1>20, <1>21 DEF Next

-----------------------------------------------------------------------------
(* The order of the LSNs. *)

LEMMA FrameTypes ==
    ASSUME LogOK
    PROVE  \A i \in DOMAIN file : file[i] \in Records /\ file[i].lsn \in Nat
  <1>1. \A i \in DOMAIN file : file[i] \in Records
    BY DEF LogOK
  <1> QED BY <1>1, RedoLogAssumption DEF Records, Lsns

LEMMA FileWithOrder ==
    ASSUME LogOK, LsnsOK, LsnOrder, phase # "closed",
           NEW op \in Ops \cup {CheckpointOp}
    PROVE  /\ \A i, j \in DOMAIN FileWith(op) :
                  i < j => FileWith(op)[i].lsn < FileWith(op)[j].lsn
           /\ \A i \in DOMAIN FileWith(op) : FileWith(op)[i].lsn < walLsn + 1
  <1>1. file \in Seq(Records) /\ walLsn \in Nat /\ Len(file) \in Nat
    BY RedoLogAssumption DEF LogOK, LsnsOK, Lsns
  <1>2. CASE ~Reachable
    BY <1>1, <1>2, FrameTypes DEF FileWith, LsnOrder
  <1>3. CASE Reachable
    <2> DEFINE f == Append(file, Frame(op))
    <2>1. \A i \in DOMAIN file : file[i].lsn \in Nat /\ file[i].lsn < walLsn
      BY FrameTypes DEF LsnOrder
    <2>2. /\ DOMAIN f = 1 .. Len(file) + 1 /\ DOMAIN file = 1 .. Len(file)
          /\ \A i \in DOMAIN file : f[i] = file[i]
          /\ f[Len(file) + 1].lsn = walLsn
      BY <1>1 DEF Frame
    <2>3. \A i \in DOMAIN f : f[i].lsn < walLsn + 1
      BY <1>1, <2>1, <2>2
    <2>4. \A i, j \in DOMAIN f : i < j => f[i].lsn < f[j].lsn
      <3> HIDE DEF f
      <3> TAKE i, j \in DOMAIN f
      <3> HAVE i < j
      <3>1. i \in DOMAIN file
        BY <1>1, <2>2
      <3>2. CASE j \in DOMAIN file
        BY <3>1, <3>2, <2>2 DEF LsnOrder
      <3>3. CASE j = Len(file) + 1
        BY <3>1, <3>3, <2>1, <2>2
      <3> QED BY <1>1, <2>2, <3>2, <3>3
    <2> QED BY <1>3, <2>3, <2>4 DEF FileWith
  <1> QED BY <1>2, <1>3

LEMMA LsnStep ==
    ASSUME IInv, [Next]_vars
    PROVE  LsnOrder' /\ CheckpointLsns'
  <1> USE RedoLogAssumption DEF IInv, TypeOK, LsnsOK, Lsns, walVars, heapVars, lsnVars,
          viewVars, historyVars
  <1>1. CASE Open
    <2>1. /\ NextLsn >= meta.lsn /\ NextLsn \in Nat
          /\ \A i \in DOMAIN file : file[i].lsn < NextLsn
      <3>1. file \in Seq(Records) /\ meta.lsn \in Nat
        BY DEF LogOK
      <3>2. NextLsn \in Nat
        BY <1>1, TypeStep DEF Open
      <3> QED BY <3>1, <3>2, NextLsnFacts DEF LsnOrder
    <2> QED BY <1>1, <2>1 DEF Open, LsnOrder, CheckpointLsns
  <1>2. CASE ReplayStep
    <2>1. /\ replayed + 1 \in DOMAIN file
          /\ file[replayed + 1] \in Records
      BY <1>2 DEF ReplayStep, LogOK
    <2>2. UNCHANGED <<file, meta, walLsn>> /\ phase = "replay" /\ phase' = "replay"
      BY <1>2 DEF ReplayStep
    <2>3. file[replayed + 1].lsn < walLsn
      BY <2>1, <2>2 DEF LsnOrder
    <2>4. lsn' <= walLsn /\ checkpointLsn' <= walLsn /\ meta.ckpt <= checkpointLsn'
      BY <1>2, <2>1, <2>2, <2>3 DEF ReplayStep, LsnOrder, Larger, Records, Skipped
    <2> QED BY <2>2, <2>4 DEF LsnOrder, CheckpointLsns
  <1>3. CASE ReplayFails \/ CloseWithoutCheckpoint \/ Crash
    BY <1>3 DEF ReplayFails, FlushAndGo, FlushHeap, ProcessGone, historyVars, SyncedTail, CloseWithoutCheckpoint, Crash, LsnOrder, CheckpointLsns
  <1>4. ASSUME NEW op \in Ops, LogAndApply(op) \/ LogAndReject(op) \/ LogSyncFails(op)
        PROVE  LsnOrder' /\ CheckpointLsns'
    <2>1. /\ phase = "open" /\ phase' = "open" /\ UNCHANGED <<meta, checkpointLsn>>
          /\ file' = FileWith(op) /\ walLsn' = walLsn + 1 /\ lsn' = walLsn + 1
      BY <1>4 DEF LogAndApply, LogAndReject, LogSyncFails, CanLog, LogFrame
    <2>2. /\ \A i \in DOMAIN file' : file'[i].lsn < walLsn'
          /\ \A i, j \in DOMAIN file' : i < j => file'[i].lsn < file'[j].lsn
      BY <2>1, FileWithOrder
    <2>3. /\ meta.lsn <= walLsn /\ meta.ckpt <= checkpointLsn /\ meta.ckpt <= meta.lsn
          /\ checkpointLsn <= walLsn
      BY <2>1 DEF LsnOrder
    <2>4. /\ meta'.lsn <= walLsn' /\ meta'.ckpt <= checkpointLsn' /\ meta'.ckpt <= meta'.lsn
          /\ checkpointLsn' <= walLsn' /\ lsn' <= walLsn'
      BY <2>1, <2>3
    <2> QED
      BY <2>1, <2>2, <2>4 DEF LsnOrder, CheckpointLsns
  <1>5. ASSUME NEW op \in Ops, LogWriteFails(op) \/ WriteBack(op)
        PROVE  LsnOrder' /\ CheckpointLsns'
    BY <1>5, FrameTypes DEF LogWriteFails, CanLog, PerhapsApplied, WriteBack, LsnOrder, CheckpointLsns
  <1>6. CASE ReplayDone \/ CkptFlush \/ CkptSnapshot \/ CkptAborts
    BY <1>6 DEF ReplayDone, CkptFlush, FlushHeap, CkptSnapshot, CkptAborts, AfterError, LsnOrder, CheckpointLsns, AfterError
  <1>7. CASE CkptLog \/ CkptLogFails
    BY <1>7, FileWithOrder, FrameTypes DEF CkptLog, CkptLogFails, LogFrame, SyncedTail, AfterError, LsnOrder, CheckpointLsns
  <1>8. CASE CkptPersist
    BY <1>8 DEF CkptPersist, LsnOrder, CheckpointLsns
  <1>9. CASE CkptRotate \/ RotateFails
    BY <1>9 DEF CkptRotate, EmptyLog, ProcessGone, RotateFails, AfterError, LsnOrder, CheckpointLsns
  <1>10. CASE PowerLoss
    <2>1. PICK k \in synced .. Len(file) : file' = SubSeq(file, 1, k)
      BY <1>10 DEF PowerLoss, ProcessGone
    <2>2. /\ DOMAIN file' = 1 .. k /\ k \in Nat /\ k <= Len(file)
          /\ \A i \in 1 .. k : file'[i] = file[i]
      BY <2>1, PrefixFacts DEF LogOK
    <2>3. DOMAIN file' \subseteq DOMAIN file
      BY <2>2 DEF LogOK
    <2>4. phase' = "closed" /\ meta' = meta
      BY <1>10 DEF PowerLoss, ProcessGone
    <2> QED BY <2>2, <2>3, <2>4 DEF LsnOrder, CheckpointLsns
  <1>11. CASE UNCHANGED vars
    BY <1>11 DEF vars, LsnOrder, CheckpointLsns
  <1> QED
    BY <1>1, <1>2, <1>3, <1>4, <1>5, <1>6, <1>7, <1>8, <1>9, <1>10, <1>11 DEF Next

-----------------------------------------------------------------------------
(* No promise is lost. *)

\* Where the record of an append goes
LEMMA FileWithOps ==
    ASSUME LogOK, LsnsOK, NEW op \in Ops \cup {CheckpointOp}
    PROVE  /\ OpsIn(file) \subseteq OpsIn(FileWith(op))
           /\ OpsIn(FileWith(op)) \subseteq OpsIn(file) \cup {op}
           /\ Reachable /\ op \in Ops => op \in OpsIn(FileWith(op))
           /\ ~Reachable => OpsIn(FileWith(op)) = OpsIn(file)
  <1>1. file \in Seq(Records) /\ Len(file) \in Nat
    BY DEF LogOK
  <1>2. CASE ~Reachable
    BY <1>2 DEF FileWith
  <1>3. CASE Reachable
    <2> DEFINE f == Append(file, Frame(op))
    <2>1. /\ DOMAIN f = 1 .. Len(file) + 1 /\ DOMAIN file = 1 .. Len(file)
          /\ \A i \in DOMAIN file : f[i] = file[i]
          /\ f[Len(file) + 1].op = op
      BY <1>1 DEF Frame
    <2> HIDE DEF f
    <2>2. OpsIn(file) \subseteq OpsIn(f) /\ OpsIn(f) \subseteq OpsIn(file) \cup {op}
      <3>1. DOMAIN file \subseteq DOMAIN f
        BY <1>1, <2>1
      <3>2. \A i \in DOMAIN f : i \in DOMAIN file \/ i = Len(file) + 1
        BY <1>1, <2>1
      <3> QED BY <2>1, <3>1, <3>2 DEF OpsIn
    <2>3. op \in Ops => op \in OpsIn(f)
      <3>1. Len(file) + 1 \in DOMAIN f
        BY <1>1, <2>1
      <3> QED BY <2>1, <3>1, CheckpointAssumption DEF OpsIn
    <2>4. FileWith(op) = f
      BY <1>3 DEF f, FileWith
    <2> QED BY <1>3, <2>2, <2>3, <2>4
  <1> QED BY <1>2, <1>3

LEMMA CheckpointOps ==
    ASSUME LogOK, LsnsOK
    PROVE  OpsIn(FileWith(CheckpointOp)) = OpsIn(file)
  <1>1. CheckpointOp \notin OpsIn(FileWith(CheckpointOp))
    BY DEF OpsIn
  <1> QED BY <1>1, FileWithOps

LEMMA EmptyOps == OpsIn(<<>>) = {} /\ DOMAIN <<>> = {}
  BY DEF OpsIn

LEMMA PrefixOps ==
    ASSUME LogOK, NEW k \in synced .. Len(file)
    PROVE  OpsIn(SubSeq(file, 1, k)) \subseteq OpsIn(file)
  <1>1. /\ DOMAIN SubSeq(file, 1, k) \subseteq DOMAIN file
        /\ \A i \in DOMAIN SubSeq(file, 1, k) : SubSeq(file, 1, k)[i] = file[i]
    BY PrefixFacts DEF LogOK
  <1> QED BY <1>1 DEF OpsIn

LEMMA PlaceStep ==
    ASSUME IInv, [Next]_vars
    PROVE  OnePlace'
  <1> USE DEF IInv, TypeOK, walVars, heapVars, lsnVars, viewVars, historyVars
  <1>1. CASE Open \/ ReplayStep \/ ReplayDone \/ CkptFlush \/ CkptSnapshot \/ CkptPersist \/ CkptAborts
    BY <1>1 DEF Open, ReplayStep, ReplayDone, CkptFlush, FlushHeap, CkptSnapshot, CkptPersist, CkptAborts, AfterError, OnePlace
  <1>2. CASE ReplayFails \/ CloseWithoutCheckpoint \/ Crash
    BY <1>2 DEF ReplayFails, FlushAndGo, FlushHeap, ProcessGone, historyVars, SyncedTail, CloseWithoutCheckpoint, Crash, OnePlace
  <1>3. ASSUME NEW op \in Ops, LogAndApply(op) \/ LogAndReject(op) \/ LogSyncFails(op)
        PROVE  OnePlace'
    BY <1>3, FileWithOps DEF LogAndApply, CanLog, LogFrame, Written, SyncedTail, LogAndReject, LogSyncFails, PerhapsApplied, OnePlace, HistoryOK
  <1>4. ASSUME NEW op \in Ops, LogWriteFails(op) \/ WriteBack(op)
        PROVE  OnePlace'
    BY <1>4 DEF LogWriteFails, CanLog, PerhapsApplied, WriteBack, OnePlace
  <1>5. CASE CkptLog \/ CkptLogFails
    BY <1>5, FileWithOps, CheckpointOps DEF CkptLog, CkptLogFails, LogFrame, SyncedTail, AfterError, OnePlace
  <1>6. CASE CkptRotate \/ RotateFails
    BY <1>6, EmptyOps DEF CkptRotate, EmptyLog, ProcessGone, RotateFails, AfterError, OnePlace
  <1>7. CASE PowerLoss
    <2>1. PICK k \in synced .. Len(file) :
              /\ file' = SubSeq(file, 1, k)
              /\ dropped' = dropped \cup (OpsIn(file) \ OpsIn(file'))
      BY <1>7 DEF PowerLoss, ProcessGone
    <2>2. OpsIn(file') \subseteq OpsIn(file)
      BY <2>1, PrefixOps
    <2>3. UNCHANGED <<used, acked, unreachable>>
      BY <1>7 DEF PowerLoss, ProcessGone
    <2> QED BY <2>1, <2>2, <2>3 DEF OnePlace
  <1>8. CASE UNCHANGED vars
    BY <1>8 DEF vars, OnePlace
  <1> QED
    BY <1>1, <1>2, <1>3, <1>4, <1>5, <1>6, <1>7, <1>8 DEF Next

\* A frame that an append adds is not before the checkpoint in ENGINE.json.
LEMMA FileWithNew ==
    ASSUME IInv, phase # "closed", NEW op \in Ops \cup {CheckpointOp},
           NEW i \in DOMAIN FileWith(op), FileWith(op)[i].lsn < meta.ckpt
    PROVE  i \in DOMAIN file
  <1> USE RedoLogAssumption DEF IInv, TypeOK, LogOK, LsnsOK
  <1>1. meta.ckpt <= walLsn /\ meta.ckpt \in Nat /\ walLsn \in Nat
    BY DEF LsnOrder, Lsns
  <1>2. i \notin DOMAIN file => FileWith(op)[i] = Frame(op)
    BY FileWithFacts
  <1> QED BY <1>1, <1>2 DEF Frame

LEMMA SkippedStep ==
    ASSUME IInv, [Next]_vars
    PROVE  SkippedIsOnHeap'
  <1> USE DEF IInv, TypeOK, walVars, heapVars, lsnVars, viewVars, historyVars
  <1>1. CASE Open \/ ReplayStep \/ ReplayDone \/ CkptFlush \/ CkptSnapshot \/ CkptAborts
    BY <1>1 DEF Open, ReplayStep, ReplayDone, CkptFlush, FlushHeap, CkptSnapshot, CkptAborts, AfterError, SkippedIsOnHeap, EffectsOK
  <1>2. CASE ReplayFails \/ CloseWithoutCheckpoint \/ Crash
    BY <1>2 DEF ReplayFails, FlushAndGo, FlushHeap, ProcessGone, historyVars, SyncedTail, CloseWithoutCheckpoint, Crash, SkippedIsOnHeap, EffectsOK
  <1>3. ASSUME NEW op \in Ops, LogAndApply(op) \/ LogAndReject(op) \/ LogSyncFails(op)
        PROVE  SkippedIsOnHeap'
    <2>1. /\ file' = FileWith(op) /\ acked' \subseteq acked \cup {op}
          /\ UNCHANGED <<meta, durable>> /\ op \notin used /\ phase = "open"
      BY <1>3 DEF LogAndApply, CanLog, LogFrame, Written, SyncedTail, LogAndReject, LogSyncFails, PerhapsApplied
    <2> SUFFICES ASSUME NEW i \in DOMAIN file', file'[i].lsn < meta.ckpt,
                        file'[i].op \in acked'
                 PROVE  file'[i].op \in durable
      BY <2>1 DEF SkippedIsOnHeap
    <2>2. i \in DOMAIN file
      BY <2>1, FileWithNew
    <2>3. file'[i] = file[i]
      BY <2>1, <2>2, FileWithFacts DEF LogOK, LsnsOK
    <2>4. file[i].op \in OpsIn(file) \/ file[i].op = CheckpointOp
      BY <2>2 DEF OpsIn
    <2>5. file[i].op # op
      BY <2>1, <2>4, CheckpointAssumption DEF OnePlace
    <2> QED BY <2>1, <2>2, <2>3, <2>5 DEF SkippedIsOnHeap
  <1>4. ASSUME NEW op \in Ops, LogWriteFails(op) \/ WriteBack(op)
        PROVE  SkippedIsOnHeap'
    BY <1>4 DEF LogWriteFails, CanLog, PerhapsApplied, WriteBack, SkippedIsOnHeap
  <1>5. CASE CkptLog \/ CkptLogFails
    <2>1. /\ file' = FileWith(CheckpointOp) \/ file' = file
          /\ UNCHANGED <<meta, durable, acked>> /\ phase = "flushed"
      BY <1>5 DEF CkptLog, CkptLogFails, LogFrame, SyncedTail, AfterError
    <2> SUFFICES ASSUME NEW i \in DOMAIN file', file'[i].lsn < meta.ckpt,
                        file'[i].op \in acked
                 PROVE  file'[i].op \in durable
      BY <2>1 DEF SkippedIsOnHeap
    <2>2. i \in DOMAIN file
      BY <2>1, FileWithNew
    <2>3. file'[i] = file[i]
      BY <2>1, <2>2, FileWithFacts DEF LogOK, LsnsOK
    <2> QED BY <2>1, <2>2, <2>3 DEF SkippedIsOnHeap
  <1>6. CASE CkptPersist
    <2>1. Promised \subseteq durable /\ UNCHANGED <<file, acked, durable>>
      BY <1>6 DEF CkptPersist, Kept
    <2> SUFFICES ASSUME NEW i \in DOMAIN file, file[i].op \in acked
                 PROVE  file[i].op \in durable
      BY <2>1 DEF SkippedIsOnHeap
    <2>2. file[i].op \in OpsIn(file)
      BY CheckpointAssumption DEF OpsIn, HistoryOK
    <2> QED BY <2>1, <2>2 DEF OnePlace, Promised
  <1>7. CASE CkptRotate \/ RotateFails
    BY <1>7, EmptyOps DEF CkptRotate, EmptyLog, ProcessGone, RotateFails, AfterError, SkippedIsOnHeap
  <1>8. CASE PowerLoss
    <2>1. PICK k \in synced .. Len(file) : file' = SubSeq(file, 1, k)
      BY <1>8 DEF PowerLoss, ProcessGone
    <2>2. /\ DOMAIN file' \subseteq DOMAIN file
          /\ \A i \in DOMAIN file' : file'[i] = file[i]
      BY <2>1, PrefixFacts DEF LogOK
    <2>3. UNCHANGED <<meta, acked, durable>>
      BY <1>8 DEF PowerLoss, ProcessGone
    <2> QED BY <2>2, <2>3 DEF SkippedIsOnHeap
  <1>9. CASE UNCHANGED vars
    BY <1>9 DEF vars, SkippedIsOnHeap
  <1> QED
    BY <1>1, <1>2, <1>3, <1>4, <1>5, <1>6, <1>7, <1>8, <1>9 DEF Next

LEMMA KeptStep ==
    ASSUME IInv, [Next]_vars
    PROVE  Kept'
  <1> USE DEF IInv, TypeOK, walVars, heapVars, lsnVars, viewVars, historyVars
  <1>1. CASE Open \/ ReplayStep \/ ReplayDone \/ CkptSnapshot \/ CkptPersist \/ CkptAborts
    BY <1>1 DEF Open, ReplayStep, ReplayDone, CkptSnapshot, CkptPersist, CkptAborts, AfterError, Kept, Promised, AfterError
  <1>2. CASE ReplayFails \/ CloseWithoutCheckpoint \/ Crash
    BY <1>2 DEF ReplayFails, FlushAndGo, FlushHeap, ProcessGone, historyVars, SyncedTail, CloseWithoutCheckpoint, Crash, Kept, Promised, EffectsOK
  <1>3. ASSUME NEW op \in Ops, LogAndApply(op) \/ LogAndReject(op) \/ LogSyncFails(op)
        PROVE  Kept'
    BY <1>3, FileWithOps DEF LogAndApply, CanLog, LogFrame, Written, SyncedTail, LogAndReject, LogSyncFails, PerhapsApplied, Kept, Promised
  <1>4. ASSUME NEW op \in Ops, LogWriteFails(op) \/ WriteBack(op)
        PROVE  Kept'
    BY <1>4 DEF LogWriteFails, CanLog, PerhapsApplied, WriteBack, Kept, Promised
  <1>5. CASE CkptFlush
    BY <1>5 DEF CkptFlush, FlushHeap, Kept, Promised, Survives, Serving
  <1>6. CASE CkptLog \/ CkptLogFails
    BY <1>6, FileWithOps DEF CkptLog, CkptLogFails, LogFrame, SyncedTail, AfterError, Kept, Promised
  <1>7. CASE CkptRotate \/ RotateFails
    BY <1>7 DEF CkptRotate, EmptyLog, ProcessGone, RotateFails, AfterError, Kept, Promised
  <1>8. CASE PowerLoss
    BY <1>8 DEF PowerLoss, ProcessGone, Kept, Promised
  <1>9. CASE UNCHANGED vars
    BY <1>9 DEF vars, Kept, Promised
  <1> QED
    BY <1>1, <1>2, <1>3, <1>4, <1>5, <1>6, <1>7, <1>8, <1>9 DEF Next

LEMMA RecoveringStep ==
    ASSUME IInv, [Next]_vars
    PROVE  Recovering'
  <1> USE DEF IInv, TypeOK, walVars, heapVars, lsnVars, viewVars, historyVars
  <1>1. CASE Open
    <2>1. /\ UNCHANGED <<file, meta>> /\ replayed' = 0 /\ checkpointLsn' = meta.ckpt
          /\ mem' = disk /\ disk' = disk /\ phase' = "replay"
      BY <1>1 DEF Open, LsnRoom
    <2>2. DOMAIN file \subseteq Nat \ {0}
      BY DEF LogOK
    <2> QED BY <2>1, <2>2 DEF Recovering
  <1>2. CASE ReplayStep
    <2> DEFINE r == file[replayed + 1]
    <2>1. /\ UNCHANGED <<file, meta, acked, disk, phase>> /\ phase = "replay"
          /\ replayed' = replayed + 1 /\ replayed \in Nat
          /\ replayed + 1 \in DOMAIN file /\ DOMAIN file \subseteq Nat
      BY <1>2 DEF ReplayStep, LogOK
    <2>2. mem \subseteq mem'
      BY <1>2 DEF ReplayStep
    <2>3. \A i \in DOMAIN file : file[i].lsn \in Nat
      BY FrameTypes
    <2>4. meta.ckpt \in Nat /\ checkpointLsn \in Nat
      BY RedoLogAssumption DEF LsnsOK, Lsns
    <2>5. r.lsn >= meta.ckpt /\ r.op \in acked => r.op \in mem'
      <3>1. SUFFICES ASSUME r.lsn >= meta.ckpt, r.op \in acked
                     PROVE  r.op \in mem'
        OBVIOUS
      <3>2. r.lsn >= checkpointLsn
        BY <2>1, <3>1 DEF Recovering
      <3>3. r.op # CheckpointOp
        BY <3>1, CheckpointAssumption DEF HistoryOK
      <3>4. ~Skipped(r)
        BY <2>1, <2>3, <2>4, <3>2 DEF Skipped
      <3>5. mem' = mem \cup {r.op}
        BY <1>2, <3>3, <3>4 DEF ReplayStep
      <3> QED BY <3>5
    <2>6. ASSUME NEW i \in DOMAIN file, i > replayed + 1, file[i].lsn >= meta.ckpt
          PROVE  file[i].lsn >= checkpointLsn'
      <3>1. file[i].lsn >= checkpointLsn
        BY <2>1, <2>6 DEF Recovering
      <3>2. checkpointLsn' = checkpointLsn \/ checkpointLsn' = r.lsn + 1
        BY <1>2 DEF ReplayStep
      <3>3. file[i].lsn > r.lsn
        BY <2>1, <2>6 DEF LsnOrder
      <3> QED BY <2>1, <2>3, <3>1, <3>2, <3>3
    <2> HIDE DEF r
    <2>7. \A i \in DOMAIN file :
             IF i <= replayed'
             THEN file[i].lsn >= meta.ckpt /\ file[i].op \in acked => file[i].op \in mem'
             ELSE file[i].lsn >= meta.ckpt => file[i].lsn >= checkpointLsn'
      <3> TAKE i \in DOMAIN file
      <3>1. CASE i <= replayed
        BY <2>1, <2>2, <3>1 DEF Recovering
      <3>2. CASE i = replayed + 1
        BY <2>1, <2>5, <3>2 DEF r
      <3>3. CASE i > replayed + 1
        BY <2>1, <2>6, <3>3
      <3> QED BY <2>1, <3>1, <3>2, <3>3
    <2>8. disk \subseteq mem
      BY <2>1 DEF Recovering
    <2> QED BY <2>1, <2>2, <2>7, <2>8 DEF Recovering
  <1>3. CASE ReplayDone \/ CkptFlush \/ CkptSnapshot \/ CkptPersist \/ CkptAborts
    BY <1>3 DEF ReplayDone, CkptFlush, FlushHeap, CkptSnapshot, CkptPersist, CkptAborts, AfterError, Recovering, AfterError
  <1>4. CASE ReplayFails \/ CloseWithoutCheckpoint \/ Crash \/ PowerLoss
    BY <1>4 DEF ReplayFails, FlushAndGo, FlushHeap, ProcessGone, historyVars, SyncedTail, CloseWithoutCheckpoint, Crash, PowerLoss, Recovering
  <1>5. ASSUME NEW op \in Ops, LogAndApply(op) \/ LogAndReject(op) \/ LogSyncFails(op) \/ LogWriteFails(op)
        PROVE  Recovering'
    BY <1>5 DEF LogAndApply, CanLog, LogFrame, Written, SyncedTail, LogAndReject, LogSyncFails, PerhapsApplied, LogWriteFails, Recovering
  <1>6. ASSUME NEW op \in Ops, WriteBack(op)
        PROVE  Recovering'
    BY <1>6 DEF WriteBack, Recovering
  <1>7. CASE CkptLog \/ CkptLogFails
    BY <1>7 DEF CkptLog, CkptLogFails, LogFrame, SyncedTail, AfterError, Recovering
  <1>8. CASE CkptRotate \/ RotateFails
    BY <1>8 DEF CkptRotate, EmptyLog, ProcessGone, RotateFails, AfterError, Recovering
  <1>9. CASE UNCHANGED vars
    BY <1>9 DEF vars, Recovering
  <1> QED
    BY <1>1, <1>2, <1>3, <1>4, <1>5, <1>6, <1>7, <1>8, <1>9 DEF Next

LEMMA SurvivesStep ==
    ASSUME IInv, [Next]_vars
    PROVE  Survives'
  <1> USE DEF IInv, TypeOK, walVars, heapVars, lsnVars, viewVars, historyVars
  <1>1. CASE ReplayDone
    <2>1. UNCHANGED <<acked, unreachable, dropped, mem>>
      BY <1>1 DEF ReplayDone
    <2>2. phase = "replay" /\ replayed = Len(file)
      BY <1>1 DEF ReplayDone
    <2>3. disk \subseteq mem
      BY <2>2 DEF Recovering
    <2> SUFFICES ASSUME NEW op \in Promised PROVE op \in mem
      BY <2>1 DEF Survives, Promised
    <2>4. CASE op \in durable
      BY <2>3, <2>4 DEF EffectsOK
    <2>5. CASE op \in OpsIn(file)
      <3>1. PICK i \in DOMAIN file : file[i].op = op
        BY <2>5 DEF OpsIn
      <3>2. op \in acked
        BY DEF Promised
      <3>3. i <= replayed
        BY <2>2 DEF LogOK
      <3>4. CASE file[i].lsn < meta.ckpt
        BY <3>1, <3>2, <3>4, <2>3 DEF SkippedIsOnHeap, EffectsOK
      <3>5. CASE ~(file[i].lsn < meta.ckpt)
        <4>1. file[i].lsn >= meta.ckpt
          BY <3>5, FrameTypes, RedoLogAssumption DEF LsnsOK, Lsns
        <4> QED BY <2>2, <3>1, <3>2, <3>3, <4>1 DEF Recovering
      <3> QED BY <3>4, <3>5
    <2> QED BY <2>4, <2>5 DEF Kept
  <1>2. CASE Open \/ ReplayStep
    BY <1>2 DEF Open, ReplayStep, Survives, Serving
  <1>3. CASE CkptFlush \/ CkptSnapshot \/ CkptPersist \/ CkptAborts
    BY <1>3 DEF CkptFlush, FlushHeap, CkptSnapshot, CkptPersist, CkptAborts, AfterError, Survives, Serving, Promised, AfterError
  <1>4. CASE ReplayFails \/ CloseWithoutCheckpoint \/ Crash \/ PowerLoss
    BY <1>4 DEF ReplayFails, FlushAndGo, FlushHeap, ProcessGone, historyVars, SyncedTail, CloseWithoutCheckpoint, Crash, PowerLoss, Survives, Serving
  <1>5. ASSUME NEW op \in Ops, LogAndApply(op) \/ LogAndReject(op) \/ LogSyncFails(op) \/ LogWriteFails(op)
        PROVE  Survives'
    BY <1>5 DEF LogAndApply, CanLog, LogFrame, Written, SyncedTail, LogAndReject, LogSyncFails, PerhapsApplied, LogWriteFails, Survives, Serving, Promised
  <1>6. ASSUME NEW op \in Ops, WriteBack(op)
        PROVE  Survives'
    BY <1>6 DEF WriteBack, Survives, Serving, Promised
  <1>7. CASE CkptLog \/ CkptLogFails
    BY <1>7 DEF CkptLog, CkptLogFails, LogFrame, SyncedTail, AfterError, Survives, Serving, Promised, AfterError
  <1>8. CASE CkptRotate \/ RotateFails
    BY <1>8 DEF CkptRotate, EmptyLog, ProcessGone, RotateFails, AfterError, Survives, Serving, Promised, AfterError
  <1>9. CASE UNCHANGED vars
    BY <1>9 DEF vars, Survives, Promised
  <1> QED
    BY <1>1, <1>2, <1>3, <1>4, <1>5, <1>6, <1>7, <1>8, <1>9 DEF Next

\* A promise is in the fsynced heap, or in a frame, and if replay skips that
\* frame then in the fsynced heap all the same.
LEMMA RecoverableHolds == IInv => Recoverable
  <1> SUFFICES ASSUME IInv, NEW op \in Promised
               PROVE  op \in durable \cup ReplayedOps
    BY DEF Recoverable
  <1> USE DEF IInv, TypeOK
  <1>1. CASE op \in OpsIn(file)
    <2>1. PICK i \in DOMAIN file : file[i].op = op
      BY <1>1 DEF OpsIn
    <2>2. op \in acked
      BY DEF Promised
    <2>3. CASE file[i].lsn < meta.ckpt
      BY <2>1, <2>2, <2>3 DEF SkippedIsOnHeap
    <2>4. CASE ~(file[i].lsn < meta.ckpt)
      <3>1. file[i].lsn >= meta.ckpt
        BY <2>4, FrameTypes, RedoLogAssumption DEF LsnsOK, Lsns
      <3> QED BY <2>1, <3>1 DEF ReplayedOps
    <2> QED BY <2>3, <2>4
  <1> QED BY <1>1 DEF Kept

-----------------------------------------------------------------------------
(* The index.  A snapshot is used when its LSN is that of ENGINE.json; a       *)
(* checkpoint writes the one before the other, and may stop in between.        *)

\* No record has two frames.
OneFrame ==
    \A i, j \in DOMAIN file :
        file[i].op = file[j].op => i = j \/ file[i].op = CheckpointOp

\* What replay has yet to index
StillAhead ==
    {file[i].op : i \in {j \in DOMAIN file : j > replayed /\ file[j].lsn >= meta.ckpt}}

\* Why the index is complete: the snapshot that the next open would use lacks
\* nothing but what it will replay, the one being written lacks nothing, and
\* while replay runs the index lacks nothing but what is ahead.
Indexing ==
    /\ OneFrame
    /\ snap.lsn = meta.ckpt => Promised \subseteq snap.ops \cup ReplayedOps
    /\ phase \in {"logged", "snapped"} => meta.ckpt < checkpointLsn
    /\ phase = "snapped" => snap.lsn = checkpointLsn
    /\ phase = "persisted" => snap.lsn = meta.ckpt
    /\ phase \in {"snapped", "persisted"} => Promised \subseteq snap.ops
    /\ phase = "replay" => Promised \subseteq indexed \cup StillAhead
    /\ IndexComplete

\* An append leaves what will be replayed, and adds to it when it is reachable.
LEMMA AppendReplayed ==
    ASSUME IInv, phase # "closed", NEW op \in Ops \cup {CheckpointOp},
           file' = FileWith(op), meta' = meta
    PROVE  /\ ReplayedOps \subseteq ReplayedOps'
           /\ Reachable => op \in ReplayedOps'
  <1> USE DEF IInv, TypeOK
  <1>1. /\ file \in Seq(Records) /\ walLsn \in Lsns /\ walLsn \in Nat
        /\ meta.ckpt \in Nat /\ Len(file) \in Nat
    BY RedoLogAssumption DEF LogOK, LsnsOK, Lsns
  <1>2. /\ DOMAIN file \subseteq DOMAIN file'
        /\ \A i \in DOMAIN file : file'[i] = file[i]
    BY <1>1, FileWithFacts
  <1>3. ReplayedOps \subseteq ReplayedOps'
    BY <1>2 DEF ReplayedOps
  <1>4. ASSUME Reachable
        PROVE  op \in ReplayedOps'
    <2>1. file' = Append(file, Frame(op))
      BY <1>4 DEF FileWith
    <2>2. Len(file) + 1 \in DOMAIN file' /\ file'[Len(file) + 1] = Frame(op)
      BY <1>1, <2>1
    <2>3. meta.ckpt <= walLsn
      BY <1>1 DEF LsnOrder, LsnsOK, Lsns
    <2>4. Frame(op).lsn >= meta'.ckpt /\ Frame(op).op = op
      BY <1>1, <2>3 DEF Frame
    <2> QED BY <2>2, <2>4 DEF ReplayedOps
  <1> QED BY <1>3, <1>4

LEMMA OneFrameStep ==
    ASSUME IInv, OneFrame, [Next]_vars
    PROVE  OneFrame'
  <1> USE DEF IInv, TypeOK, walVars, historyVars
  <1>1. CASE UNCHANGED file
    BY <1>1 DEF OneFrame
  <1>2. CASE file' = <<>>
    BY <1>2, EmptyOps DEF OneFrame
  <1>3. ASSUME NEW op \in Ops \cup {CheckpointOp}, file' = FileWith(op),
               op \notin used
        PROVE  OneFrame'
    <2>1. /\ \A i \in DOMAIN file : file'[i] = file[i]
          /\ \A i \in DOMAIN file' \ DOMAIN file : file'[i] = Frame(op)
          /\ Len(file') \in {Len(file), Len(file) + 1} /\ Len(file) \in Nat
          /\ DOMAIN file' = 1 .. Len(file') /\ DOMAIN file = 1 .. Len(file)
      BY <1>3, FileWithFacts DEF LogOK, LsnsOK
    <2>2. \A i \in DOMAIN file : file[i].op \in used \cup {CheckpointOp}
      BY DEF OnePlace, OpsIn
    <2>3. Frame(op).op = op
      BY DEF Frame
    <2>4. \A i \in DOMAIN file' \ DOMAIN file : i = Len(file) + 1
      <3> DEFINE n == Len(file)
      <3>1. DOMAIN file = 1 .. n /\ DOMAIN file' \in {1 .. n, 1 .. n + 1} /\ n \in Nat
        BY <2>1
      <3> HIDE DEF n
      <3>2. \A i \in DOMAIN file' \ DOMAIN file : i = n + 1
        BY ONLY <3>1
      <3> QED BY <3>2 DEF n
    <2>5. OneFrame
      OBVIOUS
    <2> SUFFICES ASSUME NEW i \in DOMAIN file', NEW j \in DOMAIN file',
                        file'[i].op = file'[j].op, file'[i].op # CheckpointOp
                 PROVE  i = j
      BY DEF OneFrame
    <2>6. CASE i \in DOMAIN file /\ j \in DOMAIN file
      BY <2>1, <2>5, <2>6 DEF OneFrame
    <2>7. CASE i \in DOMAIN file /\ j \notin DOMAIN file
      BY <1>3, <2>1, <2>2, <2>3, <2>7
    <2>8. CASE i \notin DOMAIN file /\ j \in DOMAIN file
      BY <1>3, <2>1, <2>2, <2>3, <2>8
    <2> QED BY <2>4, <2>6, <2>7, <2>8
  <1>4. ASSUME NEW k \in synced .. Len(file), file' = SubSeq(file, 1, k)
        PROVE  OneFrame'
    <2>1. /\ DOMAIN file' \subseteq DOMAIN file
          /\ \A i \in DOMAIN file' : file'[i] = file[i]
      BY <1>4, PrefixFacts DEF LogOK
    <2> QED BY <2>1 DEF OneFrame
  <1>5. CheckpointOp \notin used
    BY CheckpointAssumption DEF HistoryOK
  <1>6. \/ file' \in {file, <<>>}
        \/ \E op \in Ops : file' = FileWith(op) /\ op \notin used
        \/ file' = FileWith(CheckpointOp)
        \/ \E k \in synced .. Len(file) : file' = SubSeq(file, 1, k)
    BY DEF Next, vars, Open, ReplayStep, ReplayFails, FlushAndGo, ReplayDone, LogAndApply,
           LogAndReject, LogWriteFails, LogSyncFails, LogFrame, CanLog, WriteBack,
           CkptFlush, CkptLog, CkptSnapshot, CkptPersist, CkptRotate, EmptyLog,
           CkptLogFails, CkptAborts, RotateFails, CloseWithoutCheckpoint, Crash,
           PowerLoss
  <1> QED BY <1>1, <1>2, <1>3, <1>4, <1>5, <1>6

LEMMA IndexingStep ==
    ASSUME IInv, Indexing, [Next]_vars
    PROVE  Indexing'
  <1> USE DEF IInv, TypeOK, walVars, heapVars, lsnVars, viewVars, historyVars
  <1>0. OneFrame'
    BY OneFrameStep DEF Indexing
  <1>1. CASE Open
    <2>1. /\ UNCHANGED <<file, meta, snap, acked, unreachable, dropped>>
          /\ phase' = "replay" /\ replayed' = 0
          /\ indexed' = IF SnapUsable THEN snap.ops ELSE disk
      BY <1>1 DEF Open, LsnRoom
    <2>2. StillAhead' = ReplayedOps
      <3>1. \A j \in DOMAIN file : j > 0
        BY DEF LogOK
      <3> QED BY <2>1, <3>1 DEF StillAhead, ReplayedOps
    <2>3. Promised \subseteq indexed' \cup ReplayedOps
      <3>1. CASE SnapUsable
        BY <2>1, <3>1 DEF SnapUsable, Indexing
      <3>2. CASE ~SnapUsable
        BY <2>1, <3>2, RecoverableHolds DEF Recoverable, EffectsOK
      <3> QED BY <3>1, <3>2
    <2> QED BY <1>0, <2>1, <2>2, <2>3
         DEF Indexing, Promised, ReplayedOps, IndexComplete, Serving
  <1>2. CASE ReplayStep
    <2> DEFINE r == file[replayed + 1]
    <2>1. /\ UNCHANGED <<file, meta, snap, acked, unreachable, dropped, phase>>
          /\ phase = "replay" /\ replayed' = replayed + 1 /\ replayed \in Nat
          /\ replayed + 1 \in DOMAIN file /\ DOMAIN file \subseteq Nat
      BY <1>2 DEF ReplayStep, LogOK
    <2>2. indexed \subseteq indexed'
      BY <1>2 DEF ReplayStep, Reindexed
    <2>3. r.lsn >= meta.ckpt /\ r.op \in Promised => r.op \in indexed'
      <3> SUFFICES ASSUME r.lsn >= meta.ckpt, r.op \in Promised
                   PROVE  r.op \in indexed'
        OBVIOUS
      <3>1. r.lsn >= checkpointLsn
        BY <2>1 DEF Recovering
      <3>2. r.op # CheckpointOp
        BY CheckpointAssumption DEF HistoryOK, Promised
      <3>3. ~Skipped(r)
        BY <2>1, <3>1, FrameTypes, RedoLogAssumption DEF Skipped, LsnsOK, Lsns
      <3>4. indexed' = indexed \cup {r.op}
        BY <1>2, <3>2, <3>3 DEF ReplayStep, Reindexed
      <3> QED BY <3>4
    <2>4. \A j \in DOMAIN file : j > replayed => j = replayed + 1 \/ j > replayed + 1
      BY <2>1
    <2> HIDE DEF r
    <2>5. Promised \subseteq indexed' \cup StillAhead'
      <3> SUFFICES ASSUME NEW op \in Promised, op \notin indexed'
                   PROVE  op \in StillAhead'
        OBVIOUS
      <3>1. op \in StillAhead
        BY <2>1, <2>2 DEF Indexing
      <3>2. PICK j \in DOMAIN file : j > replayed /\ file[j].lsn >= meta.ckpt /\ file[j].op = op
        BY <3>1 DEF StillAhead
      <3>3. j # replayed + 1
        BY <2>3, <3>2 DEF r
      <3>4. j > replayed'
        BY <2>1, <2>4, <3>2, <3>3
      <3> QED BY <2>1, <3>2, <3>4 DEF StillAhead
    <2> QED BY <1>0, <2>1, <2>5
         DEF Indexing, Promised, ReplayedOps, IndexComplete, Serving
  <1>3. CASE ReplayDone
    <2>1. /\ UNCHANGED <<file, meta, snap, acked, unreachable, dropped, indexed>>
          /\ phase = "replay" /\ replayed = Len(file) /\ phase' = "open"
      BY <1>3 DEF ReplayDone
    <2>2. StillAhead = {}
      BY <2>1 DEF StillAhead, LogOK
    <2>3. Promised \subseteq indexed
      BY <2>1, <2>2 DEF Indexing
    <2> QED BY <1>0, <2>1, <2>3
         DEF Indexing, Promised, ReplayedOps, IndexComplete
  <1>4. CASE ReplayFails \/ CloseWithoutCheckpoint \/ Crash
    <2>1. UNCHANGED <<file, meta, snap, acked, unreachable, dropped>> /\ phase' = "closed"
      BY <1>4 DEF ReplayFails, FlushAndGo, ProcessGone, CloseWithoutCheckpoint, Crash
    <2> QED BY <1>0, <2>1 DEF Indexing, Promised, ReplayedOps, IndexComplete, Serving
  <1>5. ASSUME NEW op \in Ops, LogAndApply(op) \/ LogAndReject(op) \/ LogSyncFails(op)
        PROVE  Indexing'
    <2>1. /\ phase = "open" /\ phase' = "open" /\ UNCHANGED <<meta, snap>>
          /\ file' = FileWith(op) /\ Promised' \subseteq Promised \cup {op}
          /\ (op \in Promised' \ Promised) => Reachable /\ op \in indexed'
          /\ indexed \subseteq indexed'
      BY <1>5 DEF LogAndApply, LogAndReject, LogSyncFails, CanLog, LogFrame,
                  Written, Promised
    <2>2. /\ ReplayedOps \subseteq ReplayedOps'
          /\ Reachable => op \in ReplayedOps'
      BY <2>1, AppendReplayed
    <2> QED BY <1>0, <2>1, <2>2 DEF Indexing, IndexComplete, Serving
  <1>6. ASSUME NEW op \in Ops, LogWriteFails(op) \/ WriteBack(op)
        PROVE  Indexing'
    <2>1. /\ UNCHANGED <<file, meta, snap, phase, replayed, indexed, checkpointLsn>>
          /\ UNCHANGED <<acked, unreachable, dropped>>
      BY <1>6 DEF LogWriteFails, WriteBack
    <2> QED BY <1>0, <2>1
         DEF Indexing, Promised, ReplayedOps, StillAhead, IndexComplete
  <1>7. CASE CkptFlush \/ CkptAborts
    <2>1. /\ UNCHANGED <<file, meta, snap, indexed>>
          /\ UNCHANGED <<acked, unreachable, dropped>>
          /\ phase \in Serving /\ phase' \in {"flushed", "open", "failed"}
      BY <1>7 DEF CkptFlush, CkptAborts, AfterError, Serving
    <2> QED BY <1>0, <2>1 DEF Indexing, Promised, ReplayedOps, IndexComplete, Serving
  <1>8. CASE CkptLog
    <2>1. /\ phase = "flushed" /\ phase' = "logged" /\ UNCHANGED <<meta, snap, indexed>>
          /\ file' = FileWith(CheckpointOp) /\ UNCHANGED <<acked, unreachable, dropped>>
          /\ checkpointLsn' = walLsn + 1
      BY <1>8 DEF CkptLog
    <2>2. ReplayedOps \subseteq ReplayedOps'
      BY <2>1, AppendReplayed
    <2>3. meta.ckpt < walLsn + 1
      BY <2>1, RedoLogAssumption DEF LsnOrder, LsnsOK, Lsns
    <2>4. Promised' = Promised /\ IndexComplete'
      BY <2>1 DEF Promised, Indexing, IndexComplete, Serving
    <2> QED BY <1>0, <2>1, <2>2, <2>3, <2>4 DEF Indexing
  <1>9. CASE CkptSnapshot
    <2>1. /\ phase = "logged" /\ phase' = "snapped" /\ UNCHANGED <<meta, indexed, checkpointLsn>>
          /\ snap'.lsn = checkpointLsn /\ snap'.ops = indexed
          /\ UNCHANGED <<acked, unreachable, dropped>>
      BY <1>9 DEF CkptSnapshot
    <2>2. meta.ckpt < checkpointLsn /\ Promised \subseteq indexed
      BY <2>1 DEF Indexing, IndexComplete, Serving
    <2>3. Promised' = Promised /\ snap'.lsn # meta'.ckpt
      BY <2>1, <2>2, RedoLogAssumption DEF Promised, LsnsOK, Lsns
    <2> QED BY <1>0, <2>1, <2>2, <2>3 DEF Indexing, IndexComplete
  <1>10. CASE CkptPersist
    <2>1. /\ phase = "snapped" /\ phase' = "persisted" /\ UNCHANGED <<snap, indexed>>
          /\ meta'.ckpt = checkpointLsn /\ UNCHANGED <<acked, unreachable, dropped>>
      BY <1>10 DEF CkptPersist
    <2>2. Promised' = Promised /\ snap.lsn = checkpointLsn /\ Promised \subseteq snap.ops
      BY <2>1 DEF Indexing, Promised
    <2>3. Promised \subseteq indexed
      BY <2>1 DEF Indexing, IndexComplete, Serving
    <2> QED BY <1>0, <2>1, <2>2, <2>3 DEF Indexing, IndexComplete
  <1>11. CASE CkptRotate \/ RotateFails
    <2>1. /\ phase = "persisted" /\ phase' \in {"closed", "open", "failed"}
          /\ UNCHANGED <<meta, snap>> /\ UNCHANGED <<acked, unreachable, dropped>>
          /\ phase' # "closed" => UNCHANGED indexed
      BY <1>11 DEF CkptRotate, RotateFails, AfterError, ProcessGone
    <2>2. /\ Promised' = Promised /\ snap.lsn = meta.ckpt /\ Promised \subseteq snap.ops
          /\ Promised \subseteq indexed
      BY <2>1 DEF Indexing, Promised, IndexComplete, Serving
    <2> QED BY <1>0, <2>1, <2>2 DEF Indexing, IndexComplete, Serving
  <1>12. CASE CkptLogFails
    <2>1. /\ phase = "flushed" /\ phase' \in {"open", "failed"}
          /\ UNCHANGED <<meta, snap, indexed>> /\ UNCHANGED <<acked, unreachable, dropped>>
          /\ file' = file \/ file' = FileWith(CheckpointOp)
      BY <1>12 DEF CkptLogFails, LogFrame, SyncedTail, AfterError
    <2>2. ReplayedOps \subseteq ReplayedOps'
      <3>1. CASE file' = file
        BY <2>1, <3>1 DEF ReplayedOps
      <3> QED BY <2>1, <3>1, AppendReplayed
    <2>3. Promised' = Promised /\ Promised \subseteq indexed
      BY <2>1 DEF Promised, Indexing, IndexComplete, Serving
    <2> QED BY <1>0, <2>1, <2>2, <2>3 DEF Indexing, IndexComplete
  <1>13. CASE PowerLoss
    <2>1. PICK k \in synced .. Len(file) :
              /\ file' = SubSeq(file, 1, k)
              /\ dropped' = dropped \cup (OpsIn(file) \ OpsIn(file'))
      BY <1>13 DEF PowerLoss
    <2>2. UNCHANGED <<meta, snap, acked, unreachable>> /\ phase' = "closed"
      BY <1>13 DEF PowerLoss, ProcessGone
    <2>3. /\ DOMAIN file' \subseteq DOMAIN file
          /\ \A i \in DOMAIN file' : file'[i] = file[i]
      BY <2>1, PrefixFacts DEF LogOK
    <2>4. Promised' \subseteq Promised
      BY <2>1, <2>2 DEF Promised
    <2>5. ASSUME NEW op \in Promised', op \in ReplayedOps
          PROVE  op \in ReplayedOps'
      <3>1. PICK i \in DOMAIN file : file[i].lsn >= meta.ckpt /\ file[i].op = op
        BY <2>5 DEF ReplayedOps
      <3>2. op # CheckpointOp
        BY <2>2, <2>5, CheckpointAssumption DEF HistoryOK, Promised
      <3>3. op \in OpsIn(file')
        BY <2>1, <2>5, <3>1, <3>2 DEF Promised, OpsIn
      <3>4. PICK j \in DOMAIN file' : file'[j].op = op
        BY <3>3 DEF OpsIn
      <3>5. j = i
        BY <2>3, <3>1, <3>2, <3>4 DEF Indexing, OneFrame
      <3> QED BY <2>2, <2>3, <3>1, <3>4, <3>5 DEF ReplayedOps
    <2> QED BY <1>0, <2>2, <2>4, <2>5 DEF Indexing, IndexComplete, Serving
  <1>14. CASE UNCHANGED vars
    BY <1>0, <1>14
    DEF vars, Indexing, Promised, ReplayedOps, StillAhead, IndexComplete
  <1> QED
    BY <1>1, <1>2, <1>3, <1>4, <1>5, <1>6, <1>7, <1>8, <1>9, <1>10, <1>11, <1>12,
       <1>13, <1>14 DEF Next

-----------------------------------------------------------------------------
(* What a power loss can take, and what leaves the log. *)

\* Why the loss is bounded: every acknowledged frame that is not fsynced has
\* been counted since the last fsync of this process.
RiskBounded ==
    phase # "closed" =>
        /\ IsFiniteSet(AtRisk)
        /\ Cardinality(AtRisk) <= appends
        /\ Cardinality(AtRisk) < SyncEvery

\* How a step changes the log: not at all, by one append, by emptying it when
\* the heap has everything, or by a loss of power.
LEMMA LogChange ==
    ASSUME IInv, [Next]_vars
    PROVE  \/ file' = file
           \/ \E op \in Ops \cup {CheckpointOp} : file' = FileWith(op)
           \/ file' = <<>> /\ phase = "persisted" /\ durable' = durable
           \/ PowerLoss
  BY DEF Next, vars, walVars, heapVars, Open, ReplayStep, ReplayFails, FlushAndGo,
         ReplayDone, LogAndApply, LogAndReject, LogWriteFails, LogSyncFails,
         LogFrame, WriteBack, CkptFlush, CkptLog, CkptSnapshot, CkptPersist,
         CkptRotate, EmptyLog, CkptLogFails, CkptAborts, RotateFails,
         CloseWithoutCheckpoint, Crash

LEMMA LeavingStep ==
    ASSUME IInv, [Next]_vars,
           NEW op \in (OpsIn(file) \cap acked) \ OpsIn(file)'
    PROVE  op \in durable' \cup dropped'
  <1> USE DEF IInv, TypeOK
  <1>1. CASE file' = file
    BY <1>1 DEF OpsIn
  <1>2. ASSUME NEW o \in Ops \cup {CheckpointOp}, file' = FileWith(o)
        PROVE  FALSE
    <2>1. OpsIn(file) \subseteq OpsIn(FileWith(o))
      BY FileWithOps
    <2> QED BY <1>2, <2>1 DEF OpsIn
  <1>3. CASE file' = <<>> /\ phase = "persisted" /\ durable' = durable
    <2>1. op \in Promised
      BY DEF OnePlace, Promised
    <2> QED BY <1>3, <2>1 DEF Kept
  <1>4. CASE PowerLoss
    BY <1>4 DEF PowerLoss, OpsIn
  <1> QED BY <1>1, <1>2, <1>3, <1>4, LogChange

\* The frames after the last fsync of this process, as an append leaves them
LEMMA AppendAtRisk ==
    ASSUME LogOK, LsnsOK, NEW op \in Ops \cup {CheckpointOp},
           file' = FileWith(op), UNCHANGED <<synced, inherited>>,
           acked' \subseteq acked \cup {op}
    PROVE  AtRisk' \subseteq AtRisk \cup ({op} \cap acked')
  <1>1. /\ \A i \in DOMAIN file : file'[i] = file[i]
        /\ \A i \in DOMAIN file' \ DOMAIN file : file'[i].op = op
        /\ DOMAIN file' = 1 .. Len(file') /\ DOMAIN file = 1 .. Len(file)
        /\ Len(file) \in Nat /\ Len(file') \in Nat
    BY FileWithFacts DEF LogOK, LsnsOK, Frame
  <1>2. Larger(synced, inherited) \in Nat
    BY <1>1 DEF LogOK, Larger
  <1> DEFINE from == Larger(synced, inherited) + 1
  <1>3. from' = from
    BY DEF Larger
  <1> SUFFICES ASSUME NEW i \in from .. Len(file'), file'[i].op \in acked',
                      file'[i].op # op
               PROVE  file'[i].op \in AtRisk
    BY <1>3 DEF AtRisk
  <1>4. i \in DOMAIN file'
    BY <1>1, <1>2
  <1>5. i \in DOMAIN file
    BY <1>1, <1>4
  <1>6. i \in from .. Len(file) /\ file'[i].op = file[i].op
    BY <1>1, <1>2, <1>5
  <1> HIDE DEF from
  <1>7. file[i].op \in acked
    BY <1>6
  <1> QED BY <1>6, <1>7 DEF AtRisk, from

\* Nothing is at risk right after an fsync, in an empty log, or in what an open
\* found there.
LEMMA NoRisk ==
    ASSUME LogOK', \/ synced' = Len(file')
                   \/ inherited' = Len(file')
    PROVE  AtRisk' = {}
  <1>1. Len(file') \in Nat /\ synced' \in 0 .. Len(file') /\ inherited' \in 0 .. Len(file')
    BY DEF LogOK
  <1>2. Larger(synced', inherited') = Len(file')
    BY <1>1 DEF Larger
  <1> QED BY <1>1, <1>2 DEF AtRisk

LEMMA RiskStep ==
    ASSUME IInv, IInv', RiskBounded, [Next]_vars
    PROVE  RiskBounded'
  <1> USE RedoLogAssumption DEF IInv, TypeOK, walVars, lsnVars, historyVars
  <1>0. appends \in Nat /\ appends' \in Nat
    BY DEF LsnsOK
  <1>1. CASE phase' = "closed"
    BY <1>1 DEF RiskBounded
  <1>2. ASSUME AtRisk' = {}
        PROVE  RiskBounded'
    <2>1. IsFiniteSet(AtRisk') /\ Cardinality(AtRisk') = 0
      BY <1>2, FS_EmptySet
    <2>2. IsFiniteSet(AtRisk)' /\ Cardinality(AtRisk)' = 0
      BY <2>1
    <2> QED BY <1>0, <2>2 DEF RiskBounded
  <1>3. ASSUME AtRisk' \subseteq AtRisk, phase # "closed", appends' >= appends
        PROVE  RiskBounded'
    <2>1. IsFiniteSet(AtRisk) /\ Cardinality(AtRisk) \in Nat
      BY <1>3, FS_CardinalityType DEF RiskBounded
    <2>2. /\ IsFiniteSet(AtRisk') /\ Cardinality(AtRisk') \in Nat
          /\ Cardinality(AtRisk') <= Cardinality(AtRisk)
      BY <1>3, <2>1, FS_Subset, FS_CardinalityType
    <2> QED BY <1>0, <1>3, <2>1, <2>2 DEF RiskBounded
  <1>4. CASE Open
    <2>1. inherited' = Len(file')
      BY <1>4 DEF Open
    <2>2. AtRisk' = {}
      BY <2>1, NoRisk
    <2> QED BY <1>2, <2>2
  <1>5. CASE CkptLog
    <2>1. synced' = Len(file')
      BY <1>5 DEF CkptLog
    <2>2. AtRisk' = {}
      BY <2>1, NoRisk
    <2> QED BY <1>2, <2>2
  <1>6. CASE CkptRotate \/ RotateFails
    <2>1. synced' = Len(file')
      BY <1>6 DEF CkptRotate, RotateFails, EmptyLog
    <2>2. AtRisk' = {}
      BY <2>1, NoRisk
    <2> QED BY <1>2, <2>2
  <1>7. ASSUME NEW op \in Ops, LogAndApply(op) \/ LogAndReject(op)
        PROVE  RiskBounded'
    <2>1. CASE SyncDue
      <3>1. synced' = Len(file')
        BY <1>7, <2>1 DEF LogAndApply, LogAndReject, LogFrame
      <3>2. AtRisk' = {}
        BY <3>1, NoRisk
      <3> QED BY <1>2, <3>2
    <2>2. CASE ~SyncDue
      <3>1. /\ file' = FileWith(op) /\ UNCHANGED <<synced, inherited>>
            /\ acked' \subseteq acked \cup {op} /\ phase = "open"
            /\ appends' = appends + 1 /\ appends + 1 < SyncEvery
        BY <1>0, <1>7, <2>2 DEF LogAndApply, LogAndReject, LogFrame, CanLog, SyncDue
      <3>2. AtRisk' \subseteq AtRisk \cup {op}
        BY <3>1, AppendAtRisk
      <3>3. IsFiniteSet(AtRisk) /\ Cardinality(AtRisk) \in Nat /\ Cardinality(AtRisk) <= appends
        BY <3>1, FS_CardinalityType DEF RiskBounded
      <3>4. /\ IsFiniteSet(AtRisk \cup {op}) /\ Cardinality(AtRisk \cup {op}) \in Nat
            /\ Cardinality(AtRisk \cup {op}) <= Cardinality(AtRisk) + 1
        BY <3>3, FS_AddElement, FS_CardinalityType
      <3>5. /\ IsFiniteSet(AtRisk') /\ Cardinality(AtRisk') \in Nat
            /\ Cardinality(AtRisk') <= Cardinality(AtRisk \cup {op})
        BY <3>2, <3>4, FS_Subset, FS_CardinalityType
      <3> QED BY <1>0, <3>1, <3>3, <3>4, <3>5 DEF RiskBounded
    <2> QED BY <2>1, <2>2
  <1>8. ASSUME NEW op \in Ops, LogSyncFails(op)
        PROVE  RiskBounded'
    <2>1. /\ file' = FileWith(op) /\ UNCHANGED <<synced, inherited, acked>>
          /\ phase = "open" /\ appends' = appends + 1 /\ op \notin acked
      BY <1>8 DEF LogSyncFails, CanLog, HistoryOK
    <2>2. AtRisk' \subseteq AtRisk
      BY <2>1, AppendAtRisk
    <2> QED BY <1>0, <1>3, <2>1, <2>2
  <1>9. CASE CkptLogFails
    <2>1. CASE SyncDue /\ LogFrame(CheckpointOp)
      <3>1. synced' = Len(file')
        BY <2>1 DEF LogFrame
      <3>2. AtRisk' = {}
        BY <3>1, NoRisk
      <3> QED BY <1>2, <3>2
    <2>2. CASE ~(SyncDue /\ LogFrame(CheckpointOp))
      <3>1. /\ \/ file' = file /\ appends' = appends
               \/ file' = FileWith(CheckpointOp) /\ appends' = appends + 1
            /\ UNCHANGED <<synced, inherited, acked>>
            /\ phase = "flushed" /\ CheckpointOp \notin acked
        BY <1>9, <2>2, CheckpointAssumption DEF CkptLogFails, HistoryOK
      <3>2. AtRisk' \subseteq AtRisk
        <4>1. CASE file' = file
          BY <3>1, <4>1 DEF AtRisk, Larger
        <4>2. CASE file' = FileWith(CheckpointOp)
          BY <3>1, <4>2, AppendAtRisk
        <4> QED BY <3>1, <4>1, <4>2
      <3> QED BY <1>0, <1>3, <3>1, <3>2
    <2> QED BY <2>1, <2>2
  <1>10. CASE ReplayStep \/ ReplayDone \/ CkptFlush \/ CkptSnapshot \/ CkptPersist \/ CkptAborts
    <2>1. UNCHANGED <<file, synced, inherited, acked, appends>> /\ phase # "closed"
      BY <1>10 DEF ReplayStep, ReplayDone, CkptFlush, CkptSnapshot, CkptPersist, CkptAborts
    <2>2. AtRisk' = AtRisk
      BY <2>1 DEF AtRisk, Larger
    <2> QED BY <1>0, <1>3, <2>1, <2>2
  <1>11. ASSUME NEW op \in Ops, LogWriteFails(op) \/ WriteBack(op)
         PROVE  RiskBounded'
    <2>1. UNCHANGED <<file, synced, inherited, acked, appends>> /\ phase # "closed"
      BY <1>11 DEF LogWriteFails, CanLog, WriteBack
    <2>2. AtRisk' = AtRisk
      BY <2>1 DEF AtRisk, Larger
    <2> QED BY <1>0, <1>3, <2>1, <2>2
  <1>12. CASE ReplayFails \/ CloseWithoutCheckpoint \/ Crash \/ PowerLoss
    <2>1. phase' = "closed"
      BY <1>12 DEF ReplayFails, FlushAndGo, ProcessGone, CloseWithoutCheckpoint, Crash, PowerLoss
    <2> QED BY <1>1, <2>1
  <1>13. CASE UNCHANGED vars
    <2>1. UNCHANGED <<file, synced, inherited, acked, appends, phase>>
      BY <1>13 DEF vars
    <2>2. AtRisk' = AtRisk
      BY <2>1 DEF AtRisk, Larger
    <2> QED BY <2>1, <2>2 DEF RiskBounded
  <1> QED
    BY <1>4, <1>5, <1>6, <1>7, <1>8, <1>9, <1>10, <1>11, <1>12, <1>13 DEF Next

-----------------------------------------------------------------------------
(* The theorems. *)

LEMMA InitIInv == Init => IInv
  <1> SUFFICES ASSUME Init PROVE IInv
    OBVIOUS
  <1> USE RedoLogAssumption DEF Init
  <1>1. LogOK
    BY DEF LogOK, Tails
  <1>2. LsnsOK /\ EffectsOK /\ ControlOK /\ HistoryOK
    <2>1. 0 \in Lsns /\ 1 \in Lsns
      BY DEF Lsns
    <2>2. LsnsOK
      BY <2>1 DEF LsnsOK
    <2>3. EffectsOK
      BY <2>1 DEF EffectsOK
    <2>4. ControlOK /\ HistoryOK
      BY DEF ControlOK, HistoryOK, Phases
    <2> QED BY <2>2, <2>3, <2>4
  <1>3. LsnRoom /\ LsnOrder /\ CheckpointLsns
    BY EmptyOps DEF LsnRoom, LsnOrder, CheckpointLsns
  <1>4. OnePlace /\ SkippedIsOnHeap
    BY EmptyOps DEF OnePlace, SkippedIsOnHeap
  <1>5. Kept /\ Recovering /\ Survives
    BY EmptyOps DEF Kept, Promised, Recovering, Survives, Serving
  <1> QED BY <1>1, <1>2, <1>3, <1>4, <1>5 DEF IInv, TypeOK

\* The invariant is inductive, whatever the records, their number, sync_every
\* and the failures.
THEOREM Invariance == Spec => []IInv
  <1>1. Init => IInv
    BY InitIInv
  <1>2. IInv /\ [Next]_vars => IInv'
    <2> SUFFICES ASSUME IInv, [Next]_vars PROVE IInv'
      OBVIOUS
    <2> QED BY TypeStep, LsnStep, PlaceStep, SkippedStep, KeptStep,
               RecoveringStep, SurvivesStep DEF IInv
  <1> QED BY <1>1, <1>2, PTL DEF Spec

\* Every variable has its type.
THEOREM TypeCorrect == Spec => []TypeOK
  BY Invariance, PTL DEF IInv

\* LSNs increase along the log, and the next one is beyond the log and not
\* before any checkpoint: no later frame is ever skipped by mistake.
THEOREM LsnsIncrease == Spec => []LsnOrder
  BY Invariance, PTL DEF IInv

\* A frame that replay skips and whose call returned Ok is in the fsynced heap.
THEOREM SkippingIsSafe == Spec => []SkippedIsOnHeap
  BY Invariance, PTL DEF IInv

\* At every moment the fsynced heap and the replayed part of the log together
\* hold every acknowledged record that is within replay's reach.
THEOREM AlwaysRecoverable == Spec => []Recoverable
  BY RecoverableHolds, Invariance, PTL

\* When open returns, and until the engine is closed, every acknowledged record
\* within replay's reach has its effect.
THEOREM AcknowledgedSurvive == Spec => []Survives
  BY Invariance, PTL DEF IInv

\* The invariant together with what the index rests on
LEMMA AlwaysIndexing == Spec => [](IInv /\ Indexing)
  <1>1. Init => Indexing
    BY EmptyOps DEF Init, Indexing, OneFrame, Promised, IndexComplete, Serving
  <1>2. IInv /\ Indexing /\ [Next]_vars => Indexing'
    BY IndexingStep
  <1> QED BY <1>1, <1>2, Invariance, PTL DEF Spec

\* When open returns, the index has every acknowledged record within replay's
\* reach, whether it was rebuilt or loaded from a snapshot, and wherever the
\* checkpoint that wrote the snapshot was interrupted.
THEOREM IndexIsComplete == Spec => []IndexComplete
  BY AlwaysIndexing, PTL DEF Indexing

\* Fewer than sync_every of the records that this process acknowledged are in
\* frames that are not fsynced, whatever append, fsync or checkpoint failed.
THEOREM LossIsBounded == Spec => []LossWindow
  <1>1. Init => RiskBounded
    BY DEF Init, RiskBounded
  <1>2. IInv /\ IInv' /\ RiskBounded /\ [Next]_vars => RiskBounded'
    BY RiskStep
  <1>3. RiskBounded => LossWindow
    BY DEF RiskBounded, LossWindow
  <1> QED BY <1>1, <1>2, <1>3, Invariance, PTL DEF Spec

\* A frame of an acknowledged record leaves the log only when its effect is in
\* the fsynced heap, or a loss of power takes it.
THEOREM LeavingIsCovered == Spec => LeavesCovered
  <1>1. IInv /\ [Next]_vars =>
            [\A op \in (OpsIn(file) \cap acked) \ OpsIn(file)' : op \in durable' \cup dropped']_vars
    BY LeavingStep
  <1> QED BY <1>1, Invariance, PTL DEF Spec, LeavesCovered

=============================================================================
