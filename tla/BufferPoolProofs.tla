-------------------------- MODULE BufferPoolProofs ---------------------------
(***************************************************************************)
(* What is proved of BufferPool for every set of pages and values and      *)
(* every bound.  `Inv' is inductive: types, and that a frame which nobody  *)
(* marked dirty is what the file holds.  It gives the saving of flush_all, *)
(* the refinement of PageStore and, with `Sizes', the bound of the pool.   *)
(* What the loop of the clock does, by induction over its probes, follows  *)
(* from the types alone.                                                   *)
(***************************************************************************)
EXTENDS BufferPool, Induction

Inv == TypeOK /\ CleanIsSaved

-----------------------------------------------------------------------------
(* Frames. *)

\* The victim of every outcome of the clock is cached and unpinned.
LEMMA VictimUnpinned ==
    ASSUME NEW o \in Outcomes
    PROVE  o.victim \in Unpinned
BY DEF Outcomes, Outcome

\* Removing the victim leaves the other frames, except for their bits.
LEMMA RemainingFrames ==
    ASSUME TypeOK, NEW o
    PROVE  /\ DOMAIN Remaining(o) = Cached \ {o.victim}
           /\ Remaining(o) \in [Cached \ {o.victim} -> Frame]
           /\ \A id \in Cached \ {o.victim} :
                 /\ Remaining(o)[id].page = frames[id].page
                 /\ Remaining(o)[id].dirty = frames[id].dirty
                 /\ Remaining(o)[id].pin = frames[id].pin
<1>1. \A id \in Cached : frames[id] \in Frame
  BY DEF TypeOK
<1>2. \A id \in Cached : (frames[id].ref /\ id \notin o.cleared) \in BOOLEAN
  OBVIOUS
<1> QED
  BY <1>1, <1>2 DEF Remaining, Frame

\* A frame in which a field or two are changed within their types is a frame.
LEMMA FrameUpdates ==
    ASSUME NEW f \in Frame, NEW n \in Nat, NEW b \in BOOLEAN
    PROVE  /\ [f EXCEPT !.dirty = b] \in Frame
           /\ [f EXCEPT !.ref = b] \in Frame
           /\ [f EXCEPT !.ref = b, !.pin = n] \in Frame
           /\ [f EXCEPT !.dirty = b, !.pin = n] \in Frame
<1>1. [f EXCEPT !.dirty = b] \in Frame
  BY DEF Frame
<1>2. [f EXCEPT !.ref = b] \in Frame
  BY DEF Frame
<1>3. [f EXCEPT !.ref = b, !.pin = n] \in Frame
  BY DEF Frame
<1>4. [f EXCEPT !.dirty = b, !.pin = n] \in Frame
  BY DEF Frame
<1> QED
  BY <1>1, <1>2, <1>3, <1>4

\* A step that changes one frame only.
LEMMA OneFrame ==
    ASSUME TypeOK, NEW id \in Cached, NEW g \in Frame,
           frames' = [frames EXCEPT ![id] = g]
    PROVE  /\ DOMAIN frames' = Cached
           /\ frames' \in [Cached -> Frame]
           /\ frames'[id] = g
           /\ \A o \in Cached \ {id} : frames'[o] = frames[o]
BY DEF TypeOK

\* What TypeOK says of a cached page.
LEMMA CachedFrame ==
    ASSUME TypeOK, NEW id \in Cached
    PROVE  /\ id \in Pages /\ frames[id] \in Frame
           /\ frames[id].page \in Values /\ frames[id].dirty \in BOOLEAN
           /\ frames[id].pin \in Nat /\ frames[id].ref \in BOOLEAN
BY DEF TypeOK, Frame

-----------------------------------------------------------------------------
(* The invariant, action by action. *)

\* get and peek of a cached page change its bit and add a pin, or none.
LEMMA HitPreserves ==
    ASSUME Inv, NEW id \in Pages, GetHit(id) \/ PeekHit(id)
    PROVE  Inv'
<1>1. id \in Cached /\ UNCHANGED <<disk, pc, wanted, todo, touched>>
      /\ pc = "idle" /\ event' = "call"
  BY DEF GetHit, PeekHit
<1>2. /\ frames[id] \in Frame /\ frames[id].pin \in Nat
  BY <1>1, CachedFrame DEF Inv
<1>3. PICK h \in Frame :
          /\ frames' = [frames EXCEPT ![id] = h]
          /\ h.page = frames[id].page /\ h.dirty = frames[id].dirty
          /\ h.pin >= frames[id].pin /\ h.pin \in Nat
  <2>1. CASE GetHit(id)
    <3> DEFINE n == frames[id].pin + 1
               k == [frames[id] EXCEPT !.ref = TRUE, !.pin = n]
    <3>0. n \in Nat
      BY <1>2
    <3>1. k \in Frame
      <4> HIDE DEF n
      <4> QED
        BY <1>2, <3>0, FrameUpdates
    <3>2. frames' = [frames EXCEPT ![id] = k]
      BY <2>1 DEF GetHit
    <3>3. k.page = frames[id].page /\ k.dirty = frames[id].dirty
          /\ k.pin = frames[id].pin + 1
      BY <1>2 DEF Frame
    <3> WITNESS k \in Frame
    <3> HIDE DEF k
    <3> QED
      BY <1>2, <3>2, <3>3
  <2>2. CASE PeekHit(id)
    <3> DEFINE k == [frames[id] EXCEPT !.ref = TRUE]
    <3>1. k \in Frame
      BY <1>2, FrameUpdates
    <3>2. frames' = [frames EXCEPT ![id] = k]
      BY <2>2 DEF PeekHit
    <3>3. k.page = frames[id].page /\ k.dirty = frames[id].dirty
          /\ k.pin = frames[id].pin
      BY <1>2 DEF Frame
    <3> WITNESS k \in Frame
    <3> HIDE DEF k
    <3> QED
      BY <1>2, <3>2, <3>3
  <2> QED
    BY <2>1, <2>2
<1>4. /\ DOMAIN frames' = Cached /\ frames' \in [Cached -> Frame] /\ frames'[id] = h
      /\ \A o \in Cached \ {id} : frames'[o] = frames[o]
  BY <1>1, <1>3, OneFrame DEF Inv
<1>5. Pinned \subseteq Pinned'
  BY <1>2, <1>3, <1>4, CachedFrame DEF Inv, Pinned, Cached
<1>6. TypeOK'
  BY <1>1, <1>4, <1>5 DEF Inv, TypeOK, Cached
<1>7. CleanIsSaved'
  BY <1>1, <1>3, <1>4 DEF Inv, CleanIsSaved, TypeOK, Cached
<1> QED
  BY <1>6, <1>7 DEF Inv

LEMMA MissPreserves ==
    ASSUME Inv, NEW id \in Pages, NEW pin \in {0, 1}, Miss(id, pin)
    PROVE  Inv'
<1>1. TypeOK'
  BY DEF Inv, TypeOK, Miss, Cached, Pinned, Wanted
<1>2. CleanIsSaved'
  BY DEF Inv, CleanIsSaved, Miss, Cached
<1> QED
  BY <1>1, <1>2 DEF Inv

\* Removing an unpinned victim keeps the pinned frames.
LEMMA PinnedRemain ==
    ASSUME TypeOK, NEW o \in Outcomes, frames' = Remaining(o)
    PROVE  /\ Cached' = Cached \ {o.victim} /\ Pinned' = Pinned
           /\ o.victim \in Cached \ Pinned
<1>1. o.victim \in Cached \ Pinned
  BY VictimUnpinned DEF Unpinned
<1>2. Cached' = Cached \ {o.victim}
  BY RemainingFrames DEF Cached
<1> QED
  BY <1>1, <1>2, RemainingFrames DEF Pinned, Cached

\* The write of a victim puts it in the file, and no other page.
LEMMA VictimWritten ==
    ASSUME TypeOK, NEW id \in Cached, WriteBack(id)
    PROVE  /\ disk' \in [Pages -> Values]
           /\ \A o \in Pages \ {id} : disk'[o] = disk[o]
           /\ disk'[id] = IF frames[id].dirty THEN frames[id].page ELSE disk[id]
BY CachedFrame DEF TypeOK, WriteBack, WritePage

\* A write that fails changes that page of the file at most.
LEMMA WriteTears ==
    ASSUME TypeOK, NEW id \in Pages, WriteFails(id)
    PROVE  /\ disk' \in [Pages -> Values]
           /\ \A o \in Pages \ {id} : disk'[o] = disk[o]
BY DEF TypeOK, WriteFails

LEMMA EvictPreserves ==
    ASSUME Inv, Evict \/ EvictFails
    PROVE  Inv'
<1>1. PICK o \in Outcomes :
          /\ frames' = Remaining(o)
          /\ \/ Evict /\ WriteBack(o.victim)
             \/ EvictFails /\ WriteFails(o.victim)
  BY DEF Evict, EvictFails
<1>2. /\ Cached' = Cached \ {o.victim} /\ Pinned' = Pinned
      /\ o.victim \in Cached \ Pinned
  BY <1>1, PinnedRemain DEF Inv
<1>3. /\ DOMAIN frames' = Cached \ {o.victim}
      /\ frames' \in [Cached \ {o.victim} -> Frame]
      /\ \A id \in Cached \ {o.victim} :
            frames'[id].page = frames[id].page /\ frames'[id].dirty = frames[id].dirty
  BY <1>1, RemainingFrames DEF Inv
<1>4. /\ disk' \in [Pages -> Values]
      /\ \A id \in Pages \ {o.victim} : disk'[id] = disk[id]
  BY <1>1, <1>2, VictimWritten, WriteTears, CachedFrame DEF Inv
<1>5. /\ pc = "miss" /\ UNCHANGED <<todo, touched>>
      /\ \/ UNCHANGED <<pc, wanted, event>>
         \/ pc' = "idle" /\ wanted' = Nothing /\ event' = "error"
  BY DEF Evict, EvictFails
<1>6. TypeOK'
  BY <1>2, <1>3, <1>4, <1>5 DEF Inv, TypeOK
<1>7. CleanIsSaved'
  <2>1. \A id \in Cached \ {o.victim} : id \in Pages
    BY CachedFrame DEF Inv
  <2> QED
    BY <1>2, <1>3, <1>4, <1>5, <2>1 DEF Inv, CleanIsSaved
<1> QED
  BY <1>6, <1>7 DEF Inv

LEMMA LoadPreserves ==
    ASSUME Inv, Load
    PROVE  Inv'
<1> DEFINE w == wanted.page
           g == [page |-> disk[w], dirty |-> FALSE, pin |-> wanted.pin, ref |-> TRUE]
<1>1. w \in Pages \ Cached /\ wanted.pin \in {0, 1} /\ disk[w] \in Values
  BY DEF Inv, TypeOK, Load
<1>2. g \in Frame /\ g.page = disk[w]
  BY <1>1 DEF Frame
<1>3. /\ DOMAIN frames' = Cached \cup {w}
      /\ frames' \in [Cached \cup {w} -> Frame]
      /\ frames'[w] = g
      /\ \A id \in Cached : frames'[id] = frames[id]
  <2> HIDE DEF g
  <2>1. frames' = [id \in Cached \cup {w} |-> IF id = w THEN g ELSE frames[id]]
    BY DEF Load, g
  <2> QED
    BY <1>1, <1>2, <2>1, CachedFrame DEF Inv
<1>4. Pinned \subseteq Pinned'
  BY <1>3 DEF Pinned, Cached
<1>5. TypeOK'
  BY <1>1, <1>3, <1>4 DEF Inv, TypeOK, Cached, Load
<1>6. CleanIsSaved'
  BY <1>1, <1>2, <1>3 DEF Inv, CleanIsSaved, Cached, Load
<1> QED
  BY <1>5, <1>6 DEF Inv

LEMMA LoadFailsPreserves ==
    ASSUME Inv, LoadFails
    PROVE  Inv'
<1>1. TypeOK'
  BY DEF Inv, TypeOK, LoadFails, Cached, Pinned
<1>2. CleanIsSaved'
  BY DEF Inv, CleanIsSaved, LoadFails, Cached
<1> QED
  BY <1>1, <1>2 DEF Inv

\* A page changed in place is `touched' until it is unpinned as dirty.
LEMMA ChangePreserves ==
    ASSUME Inv, NEW id \in Pages, NEW v \in Values, Change(id, v)
    PROVE  Inv'
<1> DEFINE g == [frames[id] EXCEPT !.page = v]
<1>1. id \in Cached /\ id \in Pinned
  BY DEF Change, Pinned
<1>2. g \in Frame /\ g.pin = frames[id].pin
  <2>1. frames[id] \in Frame
    BY <1>1, CachedFrame DEF Inv
  <2> QED
    BY <2>1 DEF Frame
<1>3. /\ DOMAIN frames' = Cached /\ frames' \in [Cached -> Frame] /\ frames'[id] = g
      /\ \A o \in Cached \ {id} : frames'[o] = frames[o]
  <2>1. frames' = [frames EXCEPT ![id] = g]
    BY DEF Change
  <2> HIDE DEF g
  <2> QED
    BY <1>1, <1>2, <2>1 DEF Inv, TypeOK, Cached
<1> HIDE DEF g
<1>4. Pinned' = Pinned
  BY <1>1, <1>2, <1>3 DEF Pinned, Cached
<1>5. TypeOK'
  BY <1>1, <1>3, <1>4 DEF Inv, TypeOK, Cached, Change
<1>6. CleanIsSaved'
  BY <1>1, <1>3 DEF Inv, CleanIsSaved, TypeOK, Cached, Change
<1> QED
  BY <1>5, <1>6 DEF Inv

\* The last unpin of a changed page says that it is dirty.
LEMMA UnpinPreserves ==
    ASSUME Inv, NEW id \in Pages, NEW dirty \in BOOLEAN, Unpin(id, dirty)
    PROVE  Inv'
<1> DEFINE b == DirtyAfter(frames[id].dirty, dirty)
           n == frames[id].pin - 1
           g == [frames[id] EXCEPT !.dirty = b, !.pin = n]
<1>1. id \in Cached /\ id \in Pinned /\ frames[id].pin > 0
  BY DEF Unpin, Pinned
<1>2. /\ frames[id] \in Frame /\ n \in Nat /\ b \in BOOLEAN
  BY <1>1, CachedFrame DEF Inv, DirtyAfter
<1>3. /\ g \in Frame /\ g.pin = n /\ g.page = frames[id].page
      /\ g.dirty = b
  <2> HIDE DEF b, n
  <2>1. g \in Frame
    BY <1>2, FrameUpdates
  <2> QED
    BY <1>2, <2>1 DEF Frame
<1>4. /\ DOMAIN frames' = Cached /\ frames' \in [Cached -> Frame] /\ frames'[id] = g
      /\ \A o \in Cached \ {id} : frames'[o] = frames[o]
  <2>1. frames' = [frames EXCEPT ![id] = g]
    BY DEF Unpin
  <2> HIDE DEF g
  <2> QED
    BY <1>1, <1>3, <2>1, OneFrame DEF Inv
<1> HIDE DEF g, b, n
<1>5. Pinned \ {id} \subseteq Pinned'
  BY <1>4 DEF Pinned, Cached
<1>6. frames[id].pin # 1 => id \in Pinned'
  BY <1>1, <1>2, <1>3, <1>4, CachedFrame DEF Inv, Pinned, Cached, n
<1>7. touched' \subseteq Pinned'
  <2>1. touched' = IF dirty THEN touched \ {id} ELSE touched
    BY DEF Unpin
  <2>2. id \in touched /\ frames[id].pin = 1 => dirty
    BY DEF Unpin
  <2> QED
    BY <1>5, <1>6, <2>1, <2>2 DEF Inv, TypeOK
<1>8. TypeOK'
  BY <1>4, <1>7 DEF Inv, TypeOK, Cached, Unpin
<1>9. CleanIsSaved'
  <2>1. /\ UNCHANGED <<disk, pc, todo>> /\ pc = "idle"
        /\ touched' = IF dirty THEN touched \ {id} ELSE touched
    BY DEF Unpin
  <2>2. ~b => ~frames[id].dirty /\ ~dirty
    BY DEF b, DirtyAfter
  <2> QED
    BY <1>3, <1>4, <2>1, <2>2 DEF Inv, CleanIsSaved, Cached
<1> QED
  BY <1>8, <1>9 DEF Inv

LEMMA FlushOnePreserves ==
    ASSUME Inv, NEW id \in Pages, FlushOne(id)
    PROVE  Inv'
<1> DEFINE g == [frames[id] EXCEPT !.dirty = FALSE]
<1>1. id \in Cached /\ id \in todo /\ pc = "flush" /\ touched = {}
  BY DEF Inv, TypeOK, FlushOne
<1>2. g \in Frame /\ g.pin = frames[id].pin /\ g.page = frames[id].page /\ ~g.dirty
  <2>1. frames[id] \in Frame
    BY <1>1, CachedFrame DEF Inv
  <2>2. g \in Frame
    BY <2>1, FrameUpdates
  <2> QED
    BY <2>1, <2>2 DEF Frame
<1>3. /\ DOMAIN frames' = Cached /\ frames' \in [Cached -> Frame] /\ frames'[id] = g
      /\ \A o \in Cached \ {id} : frames'[o] = frames[o]
  BY <1>1, <1>2, OneFrame DEF Inv, FlushOne
<1> HIDE DEF g
<1>4. /\ disk' \in [Pages -> Values] /\ disk'[id] = frames[id].page
      /\ \A o \in Pages \ {id} : disk'[o] = disk[o]
  BY <1>1, CachedFrame DEF Inv, TypeOK, FlushOne, WritePage
<1>5. TypeOK'
  BY <1>1, <1>3, <1>4 DEF Inv, TypeOK, Cached, FlushOne
<1>6. CleanIsSaved'
  BY <1>1, <1>2, <1>3, <1>4, CachedFrame DEF Inv, CleanIsSaved, Cached, FlushOne
<1> QED
  BY <1>5, <1>6 DEF Inv

\* The other steps of flush_all leave frames as they are, and the file but for a
\* page of a dirty frame.
LEMMA FlushPreserves ==
    ASSUME Inv, FlushStart \/ FlushFails \/ FlushDone
    PROVE  Inv'
<1>1. CASE FlushFails
  <2>1. PICK id \in todo : WriteFails(id)
    BY <1>1 DEF FlushFails
  <2>2. id \in Cached /\ id \in Pages /\ frames[id].dirty
    BY <1>1, <2>1 DEF FlushFails, Inv, TypeOK, CleanIsSaved
  <2>3. disk' \in [Pages -> Values] /\ \A o \in Pages \ {id} : disk'[o] = disk[o]
    BY <2>1, <2>2, WriteTears DEF Inv
  <2>4. /\ pc' = "idle" /\ todo' = {} /\ event' = "error"
        /\ UNCHANGED <<frames, wanted, touched>>
    BY <1>1 DEF FlushFails
  <2>5. TypeOK'
    BY <2>3, <2>4 DEF Inv, TypeOK, Cached, Pinned
  <2>6. CleanIsSaved'
    BY <2>2, <2>3, <2>4 DEF Inv, TypeOK, CleanIsSaved, Cached
  <2> QED
    BY <2>5, <2>6 DEF Inv
<1>2. CASE FlushStart \/ FlushDone
  <2>1. TypeOK'
    BY <1>2 DEF Inv, TypeOK, FlushStart, FlushDone, Cached, Pinned
  <2>2. CleanIsSaved'
    BY <1>2 DEF Inv, TypeOK, CleanIsSaved, FlushStart, FlushDone, Cached
  <2> QED
    BY <2>1, <2>2 DEF Inv
<1> QED
  BY <1>1, <1>2 DEF Inv

LEMMA InitInv == Init => Inv
BY BufferPoolAssumption
   DEF Init, Inv, TypeOK, CleanIsSaved, Cached, Pinned, Nothing, Frame

LEMMA StepInv ==
    ASSUME Inv, [Next]_vars
    PROVE  Inv'
<1>1. CASE UNCHANGED vars
  BY <1>1 DEF vars, Inv, TypeOK, CleanIsSaved, Cached, Pinned
<1>2. ASSUME NEW id \in Pages, GetHit(id) \/ PeekHit(id)
      PROVE  Inv'
  BY <1>2, HitPreserves
<1>3. ASSUME NEW id \in Pages, Miss(id, 1) \/ Miss(id, 0)
      PROVE  Inv'
  BY <1>3, MissPreserves
<1>4. ASSUME NEW id \in Pages, Unpin(id, TRUE) \/ Unpin(id, FALSE)
      PROVE  Inv'
  BY <1>4, UnpinPreserves
<1>5. ASSUME NEW id \in Pages, NEW v \in Values, Change(id, v)
      PROVE  Inv'
  BY <1>5, ChangePreserves
<1>6. CASE Loading
  BY <1>6, EvictPreserves, LoadPreserves, LoadFailsPreserves DEF Loading
<1>7. CASE Flushing \/ FlushStart
  BY <1>7, FlushOnePreserves, FlushPreserves DEF Flushing
<1> QED
  BY <1>1, <1>2, <1>3, <1>4, <1>5, <1>6, <1>7 DEF Next

THEOREM Invariance == Spec => []Inv
<1>1. Inv /\ [Next]_vars => Inv'
  BY StepInv
<1> QED
  BY InitInv, <1>1, PTL DEF Spec

-----------------------------------------------------------------------------
(* Theorems. *)

\* Type correctness.
THEOREM TypeCorrect == Spec => []TypeOK
BY Invariance, PTL DEF Inv

\* A frame not marked dirty is what the file holds (pool.rs evicts it unwritten),
\* and flush_all has every other frame on its list.
THEOREM CleanFramesAreSaved == Spec => []CleanIsSaved
BY Invariance, PTL DEF Inv

\* When flush_all (pool.rs:81) returns Ok the file holds every page as callers
\* see it.
THEOREM FlushIsComplete == Spec => []FlushSaves
<1>1. Inv => FlushSaves
  BY DEF Inv, TypeOK, CleanIsSaved, FlushSaves, Content
<1> QED
  BY <1>1, Invariance, PTL

\* No page leaves the pool while a caller has a handle to it (the clock of
\* evict_if_needed passes over pinned frames).
THEOREM PinnedStay == Spec => HandlesStay
<1>1. ASSUME Inv, [Next]_vars
      PROVE  [\A id \in Pinned : id \in DOMAIN frames']_vars
  <2>1. CASE UNCHANGED vars
    BY <2>1
  <2>2. CASE Evict \/ EvictFails
    <3>1. PICK o \in Outcomes : frames' = Remaining(o)
      BY <2>2 DEF Evict, EvictFails
    <3>2. o.victim \notin Pinned /\ DOMAIN frames' = Cached \ {o.victim}
      BY <1>1, <3>1, VictimUnpinned, RemainingFrames DEF Inv, Unpinned
    <3> QED
      BY <3>2 DEF Pinned
  <2>3. CASE ~(Evict \/ EvictFails) /\ Next
    <3>1. Cached \subseteq DOMAIN frames'
      BY <2>3 DEF Next, GetHit, PeekHit, Miss, Unpin, Change, Loading, Load, LoadFails,
                  Flushing, FlushStart, FlushOne, FlushFails, FlushDone, Cached
    <3> QED
      BY <3>1 DEF Pinned
  <2> QED
    BY <1>1, <2>1, <2>2, <2>3
<1> QED
  BY <1>1, Invariance, PTL DEF Spec, HandlesStay

-----------------------------------------------------------------------------
(* The pool implements PageStore: reads see the last write. *)

\* Content' and disk' of a step that changes neither.
LEMMA SameContent ==
    ASSUME TypeOK, DOMAIN frames' = Cached, disk' = disk,
           \A id \in Cached : frames'[id].page = frames[id].page
    PROVE  \A id \in Pages : Content(id)' = Content(id)
BY DEF Content, Cached

LEMMA CallRefines ==
    ASSUME Inv, NEW id \in Pages,
           \/ GetHit(id) \/ PeekHit(id) \/ Miss(id, 1) \/ Miss(id, 0)
           \/ Unpin(id, TRUE) \/ Unpin(id, FALSE)
    PROVE  Store!Other
<1>1. event' = "call" /\ disk' = disk
  BY DEF GetHit, PeekHit, Miss, Unpin
<1>2. DOMAIN frames' = Cached /\ \A o \in Cached : frames'[o].page = frames[o].page
  <2>1. \A o \in Cached : frames[o] \in Frame
    BY CachedFrame DEF Inv
  <2>2. CASE GetHit(id)
    BY <2>1, <2>2 DEF GetHit, Cached, Frame
  <2>3. CASE PeekHit(id)
    BY <2>1, <2>3 DEF PeekHit, Cached, Frame
  <2>4. CASE Miss(id, 1) \/ Miss(id, 0)
    BY <2>4 DEF Miss, Cached
  <2>5. ASSUME NEW d \in BOOLEAN, Unpin(id, d)
        PROVE  DOMAIN frames' = Cached /\ \A o \in Cached : frames'[o].page = frames[o].page
    BY <2>1, <2>5 DEF Unpin, Cached, Frame
  <2> QED
    BY <2>2, <2>3, <2>4, <2>5
<1>3. \A o \in Pages : Content(o)' = Content(o)
  BY <1>1, <1>2, SameContent DEF Inv
<1> QED
  BY <1>1, <1>3 DEF Store!Other

\* Writing a dirty victim saves it; a clean one is saved already.
LEMMA EvictRefines ==
    ASSUME Inv, Evict
    PROVE  \/ \E id \in Pages : Store!Save(id)
           \/ UNCHANGED <<[id \in Pages |-> Content(id)], disk, event>>
<1>1. PICK o \in Outcomes : frames' = Remaining(o) /\ WriteBack(o.victim)
  BY DEF Evict
<1> DEFINE v == o.victim
<1>2. /\ v \in Cached \ Pinned /\ v \in Pages /\ v \notin touched
      /\ Cached' = Cached \ {v} /\ event' = event
  BY <1>1, PinnedRemain, CachedFrame DEF Inv, TypeOK, Evict
<1>3. \A id \in Cached \ {v} : frames'[id].page = frames[id].page
  BY <1>1, RemainingFrames DEF Inv
<1>4. /\ \A id \in Pages \ {v} : disk'[id] = disk[id]
      /\ disk'[v] = frames[v].page
  BY <1>1, <1>2, VictimWritten DEF Inv, CleanIsSaved
<1>5. \A id \in Pages : Content(id)' = Content(id)
  BY <1>2, <1>3, <1>4 DEF Content
<1>6. CASE frames[v].dirty
  <2>1. disk' = [disk EXCEPT ![v] = Content(v)]
    BY <1>1, <1>2, <1>6 DEF WriteBack, WritePage, Content
  <2>2. disk' = [disk EXCEPT ![v] = [id \in Pages |-> Content(id)][v]]
    BY <1>2, <2>1
  <2>3. Store!Save(v)
    BY <1>2, <1>5, <2>2 DEF Store!Save
  <2> QED
    BY <1>2, <2>3
<1>7. CASE ~frames[v].dirty
  BY <1>1, <1>2, <1>5, <1>7 DEF WriteBack
<1> QED
  BY <1>6, <1>7

\* A victim whose write fails is what the file holds from now on, torn or not.
LEMMA EvictFailsRefines ==
    ASSUME Inv, EvictFails
    PROVE  \E id \in Pages : Store!Lose(id)
<1>1. PICK o \in Outcomes : frames' = Remaining(o) /\ WriteFails(o.victim)
  BY DEF EvictFails
<1> DEFINE v == o.victim
<1>2. /\ v \in Cached /\ v \in Pages /\ Cached' = Cached \ {v}
      /\ event' = "error" /\ \E torn \in Values : disk' = [disk EXCEPT ![v] = torn]
  BY <1>1, PinnedRemain, CachedFrame DEF Inv, EvictFails, WriteFails
<1>3. \A id \in Cached \ {v} : frames'[id].page = frames[id].page
  BY <1>1, RemainingFrames DEF Inv
<1>a. \A id \in Pages \ {v} : disk'[id] = disk[id]
  BY <1>1, <1>2, WriteTears DEF Inv
<1>4. \A id \in Pages : Content(id)' = IF id = v THEN disk'[v] ELSE Content(id)
  BY <1>2, <1>3, <1>a DEF Content
<1>5. [id \in Pages |-> Content(id)]' = [[id \in Pages |-> Content(id)] EXCEPT ![v] = disk'[v]]
  BY <1>4
<1> QED
  BY <1>2, <1>5 DEF Store!Lose

LEMMA ChangeRefines ==
    ASSUME Inv, NEW id \in Pages, NEW v \in Values, Change(id, v)
    PROVE  Store!Write(id, v)
<1>1. id \in Cached /\ frames[id] \in Frame
  BY CachedFrame DEF Inv, Change, Pinned
<1>2. /\ DOMAIN frames' = Cached /\ frames'[id].page = v
      /\ \A o \in Cached \ {id} : frames'[o] = frames[o]
  BY <1>1 DEF Change, Frame, Cached
<1>3. \A o \in Pages : Content(o)' = IF o = id THEN v ELSE Content(o)
  BY <1>1, <1>2 DEF Change, Content, Cached
<1>4. [o \in Pages |-> Content(o)]' = [[o \in Pages |-> Content(o)] EXCEPT ![id] = v]
  BY <1>3
<1> QED
  BY <1>4 DEF Store!Write, Change

LEMMA FlushOneRefines ==
    ASSUME Inv, NEW id \in Pages, FlushOne(id)
    PROVE  Store!Save(id)
<1>1. id \in Cached /\ frames[id] \in Frame
  BY CachedFrame DEF Inv, TypeOK, FlushOne
<1>2. /\ DOMAIN frames' = Cached
      /\ \A o \in Cached : frames'[o].page = frames[o].page
  BY <1>1 DEF FlushOne, Frame, Cached
<1>3. /\ disk' = [disk EXCEPT ![id] = frames[id].page] /\ event' = event
      /\ disk' \in [Pages -> Values] /\ disk \in [Pages -> Values]
  BY <1>1, CachedFrame DEF FlushOne, WritePage, Inv, TypeOK
<1>4. \A o \in Pages : Content(o)' = Content(o)
  BY <1>1, <1>2, <1>3 DEF Content, Cached
<1>5. disk' = [disk EXCEPT ![id] = [o \in Pages |-> Content(o)][id]]
  BY <1>1, <1>3 DEF Content
<1> QED
  BY <1>3, <1>4, <1>5 DEF Store!Save

\* Loading a page shows what the file holds, as before.
LEMMA LoadRefines ==
    ASSUME Inv, Load
    PROVE  UNCHANGED <<[id \in Pages |-> Content(id)], disk, event>>
<1>1. wanted.page \in Pages \ Cached
  BY DEF Inv, TypeOK, Load
<1>2. \A id \in Pages : Content(id)' = Content(id)
  BY <1>1 DEF Load, Content, Cached
<1> QED
  BY <1>2 DEF Load

\* The steps that end a call, with or without an error.
LEMMA EndRefines ==
    ASSUME Inv, LoadFails \/ FlushStart \/ FlushDone
    PROVE  \/ Store!Other
           \/ UNCHANGED <<[id \in Pages |-> Content(id)], disk, event>>
<1>1. frames' = frames /\ disk' = disk
  BY DEF LoadFails, FlushStart, FlushDone
<1>2. \A id \in Pages : Content(id)' = Content(id)
  BY <1>1, SameContent DEF Inv, Cached
<1> QED
  BY <1>1, <1>2 DEF Store!Other, LoadFails, FlushStart, FlushDone

\* The page that flush_all could not write is still cached.
LEMMA FlushFailsRefines ==
    ASSUME Inv, FlushFails
    PROVE  \E id \in Pages : Store!SaveFails(id)
<1>1. PICK id \in todo : WriteFails(id)
  BY DEF FlushFails
<1>2. id \in Cached /\ id \in Pages /\ frames' = frames /\ event' = "error"
  BY DEF FlushFails, Inv, TypeOK
<1>3. \A o \in Pages \ {id} : disk'[o] = disk[o]
  BY <1>1, <1>2, WriteTears DEF Inv
<1>4. \A o \in Pages : Content(o)' = Content(o)
  BY <1>2, <1>3 DEF Content, Cached
<1> QED
  BY <1>1, <1>2, <1>4 DEF Store!SaveFails, WriteFails

\* pool.rs implements a store of pages in which a read sees the last write, and
\* only a failed write-back, which some call reports, undoes writes or tears a page.
THEOREM PoolIsPageStore == Spec => ImplementsPageStore
<1>1. Init => Store!Init
  BY DEF Init, Store!Init, Content, Cached
<1>2. ASSUME Inv, [Next]_vars
      PROVE  [Store!Next]_<<[id \in Pages |-> Content(id)], disk, event>>
  <2>1. CASE UNCHANGED vars
    <3>1. \A id \in Pages : Content(id)' = Content(id)
      BY <2>1 DEF vars, Content, Cached
    <3> QED
      BY <2>1, <3>1 DEF vars
  <2>2. ASSUME NEW id \in Pages,
               \/ GetHit(id) \/ PeekHit(id) \/ Miss(id, 1) \/ Miss(id, 0)
               \/ Unpin(id, TRUE) \/ Unpin(id, FALSE)
        PROVE  Store!Next
    BY <1>2, <2>2, CallRefines DEF Store!Next
  <2>3. ASSUME NEW id \in Pages, NEW v \in Values, Change(id, v)
        PROVE  Store!Next
    BY <1>2, <2>3, ChangeRefines DEF Store!Next
  <2>4. CASE Loading
    BY <1>2, <2>4, EvictRefines, EvictFailsRefines, LoadRefines, EndRefines
       DEF Loading, Store!Next
  <2>5. CASE Flushing \/ FlushStart
    BY <1>2, <2>5, FlushOneRefines, FlushFailsRefines, EndRefines DEF Flushing, Store!Next
  <2> QED
    BY <1>2, <2>1, <2>2, <2>3, <2>4, <2>5 DEF Next
<1> QED
  BY <1>1, <1>2, Invariance, PTL DEF Spec, ImplementsPageStore, Store!Spec

-----------------------------------------------------------------------------
(* The size of the pool. *)

\* Callers pin at most MaxPinned pages, the one that is being loaded included.
Sizes ==
    /\ IsFiniteSet(Cached) /\ Bounded
    /\ Cardinality(Pinned) <= MaxPinned
    /\ pc = "miss" /\ wanted.pin = 1 => Cardinality(Pinned \cup {wanted.page}) <= MaxPinned

LEMMA InitSizes == Init => Sizes
<1> SUFFICES ASSUME Init PROVE Sizes
  OBVIOUS
<1>1. Cached = {} /\ Pinned = {} /\ pc = "idle"
  BY DEF Init, Cached, Pinned
<1> QED
  BY <1>1, FS_EmptySet, BufferPoolAssumption DEF Sizes, Bounded, Larger

\* A step that caches and pins no more pages than before.
LEMMA NoMoreSizes ==
    ASSUME Sizes, Cached' \subseteq Cached, Pinned' \subseteq Pinned,
           \/ pc' # "miss"
           \/ pc = "miss" /\ UNCHANGED <<pc, wanted>>
    PROVE  Sizes'
<1>1. /\ IsFiniteSet(Cached') /\ Cardinality(Cached') <= Cardinality(Cached)
      /\ Cardinality(Cached) \in Nat /\ Cardinality(Cached') \in Nat
  BY FS_Subset, FS_CardinalityType DEF Sizes
<1>2. Pinned \subseteq Cached
  BY DEF Pinned
<1>3. /\ IsFiniteSet(Pinned) /\ Cardinality(Pinned') <= Cardinality(Pinned)
      /\ Cardinality(Pinned) \in Nat /\ Cardinality(Pinned') \in Nat
  BY <1>2, FS_Subset, FS_CardinalityType DEF Sizes
<1>4. pc = "miss" /\ wanted' = wanted =>
        /\ Cardinality(Pinned' \cup {wanted'.page}) <= Cardinality(Pinned \cup {wanted.page})
        /\ Cardinality(Pinned' \cup {wanted'.page}) \in Nat
        /\ Cardinality(Pinned \cup {wanted.page}) \in Nat
  <2>1. IsFiniteSet(Pinned \cup {wanted.page})
    BY <1>3, FS_AddElement
  <2>2. wanted' = wanted => Pinned' \cup {wanted'.page} \subseteq Pinned \cup {wanted.page}
    OBVIOUS
  <2> QED
    BY <2>1, <2>2, FS_Subset, FS_CardinalityType
<1> QED
  BY <1>1, <1>3, <1>4, BufferPoolAssumption DEF Sizes, Bounded, Larger

LEMMA StepSizes ==
    ASSUME Inv, Sizes, [Next]_vars
    PROVE  Sizes'
<1>1. CASE UNCHANGED vars
  BY <1>1, NoMoreSizes DEF vars, Cached, Pinned, Sizes, Bounded, Larger
<1>2. ASSUME NEW id \in Pages, GetHit(id)
      PROVE  Sizes'
  <2>1. Cached' = Cached /\ pc' = "idle" /\ Cardinality(Pinned \cup {id}) <= MaxPinned
    BY <1>2 DEF GetHit, Cached, MayPin
  <2>2. Pinned' \subseteq Pinned \cup {id}
    BY <1>2 DEF GetHit, Pinned, Cached
  <2>3. IsFiniteSet(Pinned)
    BY FS_Subset DEF Sizes, Pinned
  <2>4. Cardinality(Pinned') <= MaxPinned
    BY <2>1, <2>2, <2>3, FS_AddElement, FS_Subset, FS_CardinalityType, BufferPoolAssumption
  <2> QED
    BY <2>1, <2>4 DEF Sizes, Bounded
<1>3. ASSUME NEW id \in Pages, PeekHit(id)
      PROVE  Sizes'
  <2>1. \A o \in Cached : frames'[o].pin = frames[o].pin
    BY <1>3, CachedFrame DEF PeekHit, Frame, Cached, Inv
  <2>2. Cached' = Cached /\ Pinned' = Pinned /\ pc' = "idle"
    BY <1>3, <2>1 DEF PeekHit, Cached, Pinned
  <2> QED
    BY <2>2, NoMoreSizes
<1>4. ASSUME NEW id \in Pages, NEW pin \in {0, 1}, Miss(id, pin)
      PROVE  Sizes'
  <2>1. Cached' = Cached /\ Pinned' = Pinned /\ wanted' = [page |-> id, pin |-> pin]
    BY <1>4 DEF Miss, Cached, Pinned, Wanted
  <2>2. pin = 1 => Cardinality(Pinned \cup {id}) <= MaxPinned
    BY <1>4 DEF Miss, MayPin
  <2> QED
    BY <2>1, <2>2 DEF Sizes, Bounded
<1>5. ASSUME NEW id \in Pages, NEW d \in BOOLEAN, Unpin(id, d)
      PROVE  Sizes'
  <2>1. \A o \in Cached : frames'[o].pin > 0 => frames[o].pin > 0
    BY <1>5, CachedFrame DEF Unpin, Frame, Cached, Inv, Pinned
  <2>2. Cached' = Cached /\ Pinned' \subseteq Pinned /\ pc' = "idle"
    BY <1>5, <2>1 DEF Unpin, Cached, Pinned
  <2> QED
    BY <2>2, NoMoreSizes
<1>6. ASSUME NEW id \in Pages, NEW v \in Values, Change(id, v)
      PROVE  Sizes'
  <2>1. \A o \in Cached : frames'[o].pin = frames[o].pin
    BY <1>6, CachedFrame DEF Change, Frame, Cached, Inv
  <2>2. Cached' = Cached /\ Pinned' = Pinned /\ pc' = "idle"
    BY <1>6, <2>1 DEF Change, Cached, Pinned
  <2> QED
    BY <2>2, NoMoreSizes
<1>7. CASE Evict \/ EvictFails
  <2>1. Cached' \subseteq Cached /\ Pinned' = Pinned
    BY <1>7, PinnedRemain DEF Evict, EvictFails, Inv
  <2> QED
    BY <1>7, <2>1, NoMoreSizes DEF Evict, EvictFails
<1>8. CASE Load
  <2> DEFINE w == wanted.page
  <2>1. /\ w \in Pages \ Cached /\ wanted.pin \in {0, 1} /\ pc = "miss" /\ pc' = "idle"
        /\ Cached' = Cached \cup {w}
    BY <1>8 DEF Load, Inv, TypeOK, Cached
  <2>2. Pinned' = IF wanted.pin = 1 THEN Pinned \cup {w} ELSE Pinned
    BY <1>8, <2>1 DEF Load, Pinned, Cached
  <2>3. /\ IsFiniteSet(Cached') /\ Cardinality(Cached') = Cardinality(Cached) + 1
        /\ Cardinality(Cached) \in Nat
    BY <2>1, FS_AddElement, FS_CardinalityType DEF Sizes
  <2>4. Cardinality(Cached) < MaxFrames \/ Cached = Pinned
    BY <1>8, <2>3, BufferPoolAssumption DEF Load, Room, Full, Unpinned, Pinned
  <2>5. Bounded'
    BY <2>3, <2>4, BufferPoolAssumption DEF Bounded, Larger, Sizes
  <2>6. Cardinality(Pinned') <= MaxPinned
    BY <2>1, <2>2 DEF Sizes
  <2> QED
    BY <2>1, <2>3, <2>5, <2>6 DEF Sizes
<1>9. CASE LoadFails \/ FlushStart \/ FlushFails \/ FlushDone
  BY <1>9, NoMoreSizes DEF LoadFails, FlushStart, FlushFails, FlushDone, Cached, Pinned
<1>10. ASSUME NEW id \in Pages, FlushOne(id)
       PROVE  Sizes'
  <2>1. \A o \in Cached : frames'[o].pin = frames[o].pin
    BY <1>10, CachedFrame DEF FlushOne, Frame, Cached, Inv
  <2>2. Cached' = Cached /\ Pinned' = Pinned /\ pc' = "flush"
    BY <1>10, <2>1 DEF FlushOne, Cached, Pinned
  <2> QED
    BY <2>2, NoMoreSizes
<1> QED
  BY <1>1, <1>2, <1>3, <1>4, <1>5, <1>6, <1>7, <1>8, <1>9, <1>10
     DEF Next, Loading, Flushing

\* The pool holds max_frames pages, or one more than callers pin, whichever is
\* larger (evict_if_needed grows only when every frame is pinned).
THEOREM PoolIsBounded == Spec => []Bounded
<1>1. Inv /\ Sizes /\ [Next]_vars => Sizes'
  BY StepSizes
<1>2. Sizes => Bounded
  BY DEF Sizes
<1> QED
  BY InitSizes, <1>1, <1>2, Invariance, PTL DEF Spec

-----------------------------------------------------------------------------
(* The clock of evict_if_needed. *)

\* The key at the k-th probe, and what a probe does.
Turn(keys, start, k) == keys[((start + (k + 1)) % Len(keys)) + 1]
Probe(o, id) ==
    IF o.victim # NoVictim \/ id \in Pinned THEN o
    ELSE IF frames[id].ref /\ id \notin o.cleared
         THEN Outcome(NoVictim, o.cleared \cup {id})
         ELSE Outcome(id, o.cleared)

\* p[k] is what the sweep has come to after k probes.
Probing(p, keys, start, n) ==
    /\ p[0] = Outcome(NoVictim, {})
    /\ \A k \in 1 .. 2 * n : p[k] = Probe(p[k - 1], Turn(keys, start, k - 1))

\* What is left by the division of a small number
LEMMA SmallRest ==
    ASSUME NEW n \in Nat \ {0}, NEW a \in Nat
    PROVE  /\ a < n => a % n = a
           /\ a \in n .. 2 * n - 1 => a % n = a - n
           /\ a \in 2 * n .. 3 * n - 1 => a % n = a - 2 * n
  OBVIOUS

\* Where in the order of keys the k-th probe is
LEMMA TurnOf ==
    ASSUME NEW n \in Nat \ {0}, NEW keys, Len(keys) = n, NEW start \in 0 .. n - 1,
           NEW k \in 0 .. 2 * n - 1
    PROVE  /\ start + 1 + k < n => Turn(keys, start, k) = keys[start + 1 + k + 1]
           /\ start + 1 + k \in n .. 2 * n - 1 => Turn(keys, start, k) = keys[start + 1 + k - n + 1]
           /\ start + 1 + k >= 2 * n => Turn(keys, start, k) = keys[start + 1 + k - 2 * n + 1]
  <1> DEFINE a == start + 1 + k
  <1>1. a \in Nat /\ a < 3 * n
    OBVIOUS
  <1>2. Turn(keys, start, k) = keys[(a % n) + 1]
    <2>1. start + (k + 1) = a
      OBVIOUS
    <2> HIDE DEF a
    <2> QED BY <2>1 DEF Turn
  <1>3. a >= 2 * n => a \in 2 * n .. 3 * n - 1
    BY <1>1
  <1> HIDE DEF a
  <1>4. /\ a < n => a % n = a
        /\ a \in n .. 2 * n - 1 => a % n = a - n
        /\ a \in 2 * n .. 3 * n - 1 => a % n = a - 2 * n
    BY <1>1, SmallRest
  <1>5. /\ a < n => Turn(keys, start, k) = keys[a + 1]
        /\ a \in n .. 2 * n - 1 => Turn(keys, start, k) = keys[a - n + 1]
        /\ a >= 2 * n => Turn(keys, start, k) = keys[a - 2 * n + 1]
    BY <1>2, <1>3, <1>4
  <1> QED BY <1>5 DEF a

\* The clock comes to every key once in each of two rounds.
Turns(keys, start, n) ==
    /\ \A k \in 0 .. 2 * n - 1 : Turn(keys, start, k) \in Cached
    /\ \A k \in 0 .. n - 1 : Turn(keys, start, k + n) = Turn(keys, start, k)
    /\ \A j, k \in 0 .. n - 1 : Turn(keys, start, j) = Turn(keys, start, k) => j = k
    /\ \A id \in Cached : \E k \in 0 .. n - 1 : Turn(keys, start, k) = id

\* An order of n keys
Order(keys, n) ==
    /\ keys \in [1 .. n -> Cached] /\ Len(keys) = n
    /\ \A i, j \in 1 .. n : keys[i] = keys[j] => i = j
    /\ \A id \in Cached : \E i \in 1 .. n : keys[i] = id

\* In an order of n keys the clock does so, from wherever it starts.
LEMMA OrderTurns ==
    ASSUME NEW n \in Nat \ {0}, NEW keys, Order(keys, n), NEW start \in 0 .. n - 1
    PROVE  Turns(keys, start, n)
  <1> DEFINE at(k) == Turn(keys, start, k)
             pos(k) == IF start + 1 + k < n THEN start + 1 + k + 1 ELSE start + 1 + k - n + 1
  <1>1. Len(keys) = n
    BY DEF Order
  <1>2. \A k \in 0 .. n - 1 : pos(k) \in 1 .. n /\ at(k) = keys[pos(k)]
    <2> TAKE k \in 0 .. n - 1
    <2>1. k \in 0 .. 2 * n - 1
      OBVIOUS
    <2>2. CASE start + 1 + k < n
      BY <1>1, <2>1, <2>2, TurnOf
    <2>3. CASE ~(start + 1 + k < n)
      <3>1. start + 1 + k \in n .. 2 * n - 1
        BY <2>3
      <3> QED BY <1>1, <2>1, <2>3, <3>1, TurnOf
    <2> QED BY <2>2, <2>3
  <1>3. \A k \in 0 .. n - 1 : at(k + n) = keys[pos(k)]
    <2> TAKE k \in 0 .. n - 1
    <2>1. k + n \in 0 .. 2 * n - 1
      OBVIOUS
    <2>2. CASE start + 1 + k < n
      <3>1. start + 1 + (k + n) \in n .. 2 * n - 1 /\ start + 1 + (k + n) - n + 1 = start + 1 + k + 1
        BY <2>2
      <3> QED BY <1>1, <2>1, <2>2, <3>1, TurnOf
    <2>3. CASE ~(start + 1 + k < n)
      <3>1. start + 1 + (k + n) >= 2 * n /\ start + 1 + (k + n) - 2 * n + 1 = start + 1 + k - n + 1
        BY <2>3
      <3> QED BY <1>1, <2>1, <2>3, <3>1, TurnOf
    <2> QED BY <2>2, <2>3
  <1>4. \A j, k \in 0 .. n - 1 : pos(j) = pos(k) => j = k
    OBVIOUS
  <1>5. \A i \in 1 .. n : \E k \in 0 .. n - 1 : pos(k) = i
    <2> TAKE i \in 1 .. n
    <2>1. CASE i - 1 >= start + 1
      <3>1. i - 1 - start - 1 \in 0 .. n - 1 /\ pos(i - 1 - start - 1) = i
        BY <2>1
      <3> QED BY <3>1
    <2>2. CASE ~(i - 1 >= start + 1)
      <3>1. i - 1 - start - 1 + n \in 0 .. n - 1 /\ pos(i - 1 - start - 1 + n) = i
        BY <2>2
      <3> QED BY <3>1
    <2> QED BY <2>1, <2>2
  <1>6. \A k \in 0 .. 2 * n - 1 : k \in 0 .. n - 1 \/ (k - n \in 0 .. n - 1 /\ k = (k - n) + n)
    OBVIOUS
  <1> HIDE DEF pos, at
  <1>7. \A k \in 0 .. 2 * n - 1 : at(k) \in Cached
    <2> TAKE k \in 0 .. 2 * n - 1
    <2>1. CASE k \in 0 .. n - 1
      BY <1>2, <2>1 DEF Order
    <2>2. CASE k - n \in 0 .. n - 1 /\ k = (k - n) + n
      <3>1. PICK m \in 0 .. n - 1 : k = m + n
        BY <2>2
      <3>2. at(m + n) = keys[pos(m)] /\ keys[pos(m)] \in Cached
        BY <1>2, <1>3 DEF Order
      <3> QED BY <3>1, <3>2
    <2> QED BY <1>6, <2>1, <2>2
  <1>8. \A k \in 0 .. n - 1 : at(k + n) = at(k)
    BY <1>2, <1>3
  <1>9. \A j, k \in 0 .. n - 1 : at(j) = at(k) => j = k
    BY <1>2, <1>4 DEF Order
  <1>10. \A id \in Cached : \E k \in 0 .. n - 1 : at(k) = id
    <2> TAKE id \in Cached
    <2>1. PICK i \in 1 .. n : keys[i] = id
      BY DEF Order
    <2>2. PICK k \in 0 .. n - 1 : pos(k) = i
      BY <1>5
    <2> QED BY <1>2, <2>1, <2>2
  <1> QED BY <1>7, <1>8, <1>9, <1>10 DEF Turns, at

\* The members of Orders are orders of all the frames.
LEMMA OrdersOrder ==
    ASSUME IsFiniteSet(Cached), NEW keys \in Orders
    PROVE  Order(keys, Cardinality(Cached))
  <1> DEFINE n == Cardinality(Cached)
  <1>1. n \in Nat /\ keys \in [1 .. n -> Cached]
    BY FS_CardinalityType DEF Orders
  <1>2. Len(keys) = n
    BY <1>1
  <1>3. \A i, j \in 1 .. n : keys[i] = keys[j] => i = j
    BY <1>1 DEF Orders
  <1>4. keys \in Injection(1 .. n, Cached)
    BY <1>1, <1>3 DEF Injection, IsInjective
  <1>5. Cardinality(1 .. n) = n
    BY <1>1, FS_Interval
  <1>6. keys \in Surjection(1 .. n, Cached)
    BY <1>4, <1>5, FS_Injection
  <1> QED BY <1>1, <1>2, <1>3, <1>6 DEF Order, Surjection

\* What the loop of `Sweep' computes
LEMMA SweepProbes ==
    ASSUME IsFiniteSet(Cached), NEW n \in Nat \ {0}, n = Cardinality(Cached),
           NEW keys, Order(keys, n), NEW start \in 0 .. n - 1
    PROVE  \E p : Probing(p, keys, start, n) /\ Sweep(keys, start) = p[2 * n]
  <1> DEFINE len == Probes
             at(k) == keys[((start + k) % Len(keys)) + 1]
             Step(f, k) == IF k = 0 THEN Outcome(NoVictim, {})
                           ELSE LET o == f[k - 1]
                                    id == at(k)
                                IN  IF o.victim # NoVictim \/ id \in Pinned THEN o
                                    ELSE IF frames[id].ref /\ id \notin o.cleared
                                         THEN Outcome(NoVictim, o.cleared \cup {id})
                                         ELSE Outcome(id, o.cleared)
             V == [victim : Cached \cup {NoVictim}, cleared : SUBSET Cached]
             step == [i \in 1 .. len |-> [o \in V |-> Probe(o, Turn(keys, start, i - 1))]]
             none == Outcome(NoVictim, {})
             probe == CHOOSE f : f = [k \in 0 .. len |-> Step(f, k)]
  <1>0. Probes = 2 * n
    BY DEF Probes
  <1>1. len \in Nat /\ len = 2 * n /\ \A i \in 1 .. len : Turn(keys, start, i - 1) \in Cached
    <2>1. \A i \in 1 .. 2 * n : i - 1 \in 0 .. 2 * n - 1
      OBVIOUS
    <2>2. Turns(keys, start, n)
      BY OrderTurns
    <2>3. \A i \in 1 .. 2 * n : Turn(keys, start, i - 1) \in Cached
      BY <2>1, <2>2 DEF Turns
    <2> QED BY <1>0, <2>3
  <1>2. \A f : \A k \in 1 .. len : Step(f, k) = Probe(f[k - 1], Turn(keys, start, k - 1))
    <2> TAKE f
    <2> TAKE k \in 1 .. len
    <2>1. k # 0 /\ (k - 1) + 1 = k
      BY <1>1
    <2>2. Turn(keys, start, k - 1) = at(k)
      BY <2>1 DEF Turn
    <2> HIDE DEF at
    <2> QED BY <2>1, <2>2 DEF Probe
  <1>3. \A f : Step(f, 0) = none
    OBVIOUS
  <1>4. none \in V /\ \A o \in V, id \in Cached : Probe(o, id) \in V
    BY DEF Probe, Outcome
  <1>5. step \in [1 .. len -> [V -> V]]
    <2>1. \A i \in 1 .. len : [o \in V |-> Probe(o, Turn(keys, start, i - 1))] \in [V -> V]
      <3> HIDE DEF V, len
      <3> QED BY <1>1, <1>4
    <2> HIDE DEF V, len
    <2> QED BY <2>1
  <1>6. \E f : f = [k \in 0 .. len |-> Step(f, k)]
    <2>1. len \in Nat /\ none \in V /\ step \in [1 .. len -> [V -> V]]
      BY <1>1, <1>4, <1>5
    <2>2. PICK f \in [0 .. len -> V] :
             /\ f[0] = none
             /\ \A i \in 1 .. len : f[i] = step[i][f[i - 1]]
      <3> HIDE DEF step, V, len, none
      <3>2. \E f \in [0 .. len -> V] :
                /\ f[0] = none
                /\ \A i \in 1 .. len : f[i] = step[i][f[i - 1]]
        BY ONLY <2>1, Recursion
      <3> QED BY <3>2
    <2> HIDE DEF V, Step, none
    <2>3. \A i \in 1 .. len : f[i] = Step(f, i)
      <3> TAKE i \in 1 .. len
      <3>1. i - 1 \in 0 .. len /\ i # 0
        BY <1>1
      <3>2. f[i - 1] \in V
        BY <2>2, <3>1
      <3>4. f[i] = Probe(f[i - 1], Turn(keys, start, i - 1))
        <4> HIDE DEF len
        <4> QED BY <2>2, <3>2
      <3> QED BY <1>2, <3>1, <3>4
    <2>4. \A k \in 0 .. len : f[k] = Step(f, k)
      <3> TAKE k \in 0 .. len
      <3>1. k = 0 \/ k \in 1 .. len
        BY <1>1
      <3> HIDE DEF len
      <3> QED BY <1>3, <2>2, <2>3, <3>1
    <2>5. f = [k \in 0 .. len |-> Step(f, k)]
      <3>1. f = [k \in 0 .. len |-> f[k]]
        BY <2>2
      <3> QED BY <2>4, <3>1
    <2> QED BY <2>5
  <1>7. probe = [k \in 0 .. len |-> Step(probe, k)]
    BY <1>6, Zenon
  <1>8. Sweep(keys, start) = probe[len]
    BY ONLY TRUE DEF Sweep
  <1> HIDE DEF probe, Step, none
  <1>9. \A k \in 0 .. len : probe[k] = Step(probe, k)
    BY <1>7
  <1>10. Probing(probe, keys, start, n)
    <2>1. probe[0] = none
      BY <1>1, <1>3, <1>9
    <2>2. \A k \in 1 .. len : k \in 0 .. len /\ k # 0
      BY <1>1
    <2>3. \A k \in 1 .. len : probe[k] = Probe(probe[k - 1], Turn(keys, start, k - 1))
      <3> HIDE DEF len
      <3> QED BY <1>2, <1>9, <2>2
    <2> QED BY <1>1, <2>1, <2>3 DEF Probing, none
  <1> QED BY <1>1, <1>8, <1>10

\* The frames that the first k probes have passed over
Passed(keys, start, k) == {Turn(keys, start, j) : j \in 0 .. k - 1} \cap Unpinned

\* What holds after k probes: either there is no victim yet, and the bits of what
\* was passed over are cleared, or the outcome is one of `Outcomes'.
NoneYet(o, keys, start, k, n) ==
    /\ o.victim = NoVictim /\ o.cleared = Passed(keys, start, k)
    /\ \A id \in o.cleared : frames[id].ref
    /\ \A j \in 0 .. n - 1 : j + n < k => Turn(keys, start, j) \in Pinned
Swung(o, keys, start, k, n) == NoneYet(o, keys, start, k, n) \/ o \in Outcomes

\* One more probe passes over one more frame, unless it is pinned.
LEMMA PassedNext ==
    ASSUME NEW keys, NEW start, NEW k \in Nat
    PROVE  Passed(keys, start, k + 1)
              = Passed(keys, start, k) \cup ({Turn(keys, start, k)} \cap Unpinned)
  <1>1. \A j : j \in 0 .. (k + 1) - 1 <=> j \in 0 .. k - 1 \/ j = k
    OBVIOUS
  <1> QED BY <1>1 DEF Passed

\* A probe keeps this.
LEMMA ProbeSwung ==
    ASSUME TypeOK, BufferPoolAssumption, NEW n \in Nat \ {0}, NEW keys, NEW start,
           Turns(keys, start, n), NEW k \in 0 .. 2 * n - 1, NEW o, Swung(o, keys, start, k, n)
    PROVE  Swung(Probe(o, Turn(keys, start, k)), keys, start, k + 1, n)
  <1> DEFINE id == Turn(keys, start, k)
             spared == {i \in Unpinned : frames[i].ref}
  <1>0. Cached \subseteq Pages /\ Unpinned \subseteq Cached /\ id \in Cached
    BY DEF TypeOK, Unpinned, Turns
  <1>a. \A v : v \in Unpinned => v # NoVictim
    BY <1>0, BufferPoolAssumption DEF BufferPoolAssumption
  <1>1. CASE o \in Outcomes
    <2>1. o.victim \in Unpinned
      BY <1>1 DEF Outcomes, Outcome
    <2>2. Probe(o, id) = o
      BY <1>a, <2>1 DEF Probe
    <2> QED BY <1>1, <2>2 DEF Swung
  <1>2. CASE NoneYet(o, keys, start, k, n) /\ id \in Pinned
    <2>1. Probe(o, id) = o
      BY <1>2 DEF Probe
    <2>2. Passed(keys, start, k + 1) = Passed(keys, start, k)
      <3>1. {id} \cap Unpinned = {}
        BY <1>2 DEF Unpinned
      <3>2. k \in Nat
        OBVIOUS
      <3>3. Passed(keys, start, k + 1) = Passed(keys, start, k) \cup ({id} \cap Unpinned)
        BY <3>2, PassedNext
      <3> HIDE DEF id
      <3> QED BY <3>1, <3>3
    <2>3. \A j \in 0 .. n - 1 : j + n < k + 1 => Turn(keys, start, j) \in Pinned
      <3> SUFFICES ASSUME NEW j \in 0 .. n - 1, j + n < k + 1
                   PROVE  Turn(keys, start, j) \in Pinned
        OBVIOUS
      <3>1. CASE j + n < k
        BY <1>2, <3>1 DEF NoneYet
      <3>2. CASE ~(j + n < k)
        <4>1. j + n = k
          BY <3>2
        <4> QED BY <1>2, <4>1 DEF Turns
      <3> QED BY <3>1, <3>2
    <2> QED BY <1>2, <2>1, <2>2, <2>3 DEF Swung, NoneYet
  <1>3. ASSUME NoneYet(o, keys, start, k, n), id \in Unpinned
        PROVE  id \in o.cleared <=> k >= n
    <2>1. CASE k >= n
      <3>1. k - n \in 0 .. n - 1 /\ (k - n) + n = k /\ k - n \in 0 .. k - 1
        BY <2>1
      <3>2. PICK m \in 0 .. n - 1 : m + n = k /\ m \in 0 .. k - 1
        BY <3>1
      <3>3. Turn(keys, start, m) = id
        BY <3>2 DEF Turns
      <3> QED BY <1>3, <2>1, <3>2, <3>3 DEF NoneYet, Passed
    <2>2. CASE ~(k >= n)
      <3>1. \A j \in 0 .. k - 1 : j \in 0 .. n - 1 /\ k \in 0 .. n - 1 /\ j # k
        BY <2>2
      <3>2. \A j \in 0 .. k - 1 : Turn(keys, start, j) # id
        BY <3>1 DEF Turns
      <3> QED BY <1>3, <2>2, <3>2 DEF NoneYet, Passed
    <2> QED BY <2>1, <2>2
  <1>4. CASE /\ NoneYet(o, keys, start, k, n) /\ id \in Unpinned
             /\ frames[id].ref /\ id \notin o.cleared
    <2>1. Probe(o, id) = Outcome(NoVictim, o.cleared \cup {id})
      BY <1>4 DEF Probe, NoneYet, Unpinned
    <2>2. Passed(keys, start, k + 1) = o.cleared \cup {id}
      BY <1>4, PassedNext DEF NoneYet
    <2>3. \A j \in 0 .. n - 1 : ~(j + n < k + 1)
      BY <1>3, <1>4
    <2> QED BY <1>4, <2>1, <2>2, <2>3 DEF Swung, NoneYet, Outcome
  <1>5. CASE /\ NoneYet(o, keys, start, k, n) /\ id \in Unpinned
             /\ ~(frames[id].ref /\ id \notin o.cleared)
    <2>1. Probe(o, id) = Outcome(id, o.cleared)
      BY <1>5 DEF Probe, NoneYet, Unpinned
    <2>2. o.cleared \subseteq spared
      BY <1>5 DEF NoneYet, Passed
    <2>3. CASE ~frames[id].ref
      <3>1. id \in Unpinned \ spared
        BY <1>5, <2>3
      <3> QED BY <2>1, <2>2, <3>1 DEF Swung, Outcomes
    <2>4. CASE frames[id].ref
      <3>1. k >= n
        BY <1>3, <1>5, <2>4
      <3>2. \A i \in Unpinned : i \in o.cleared
        <4> TAKE i \in Unpinned
        <4>1. PICK j \in 0 .. n - 1 : Turn(keys, start, j) = i
          BY <1>0 DEF Turns
        <4>2. j \in 0 .. k - 1
          BY <3>1
        <4> QED BY <1>5, <4>1, <4>2 DEF NoneYet, Passed
      <3>3. spared = Unpinned /\ o.cleared = spared
        BY <2>2, <3>2
      <3> QED BY <1>5, <2>1, <3>3 DEF Swung, Outcomes
    <2> QED BY <2>3, <2>4
  <1> QED BY <1>0, <1>1, <1>2, <1>4, <1>5 DEF Swung, Unpinned

\* The probes of one sweep
LEMMA ProbesSwung ==
    ASSUME TypeOK, BufferPoolAssumption, NEW n \in Nat \ {0}, NEW keys, NEW start,
           Turns(keys, start, n), NEW p, Probing(p, keys, start, n)
    PROVE  \A k \in 0 .. 2 * n : Swung(p[k], keys, start, k, n)
  <1> DEFINE Good == {k \in Nat : k <= 2 * n => Swung(p[k], keys, start, k, n)}
  <1>1. 0 \in Good
    <2>1. p[0] = Outcome(NoVictim, {})
      BY DEF Probing
    <2>2. Passed(keys, start, 0) = {}
      BY DEF Passed
    <2>3. NoneYet(p[0], keys, start, 0, n)
      BY <2>1, <2>2 DEF NoneYet, Outcome
    <2> QED BY <2>3 DEF Swung
  <1>2. \A k \in Nat : k \in Good => k + 1 \in Good
    <2> SUFFICES ASSUME NEW k \in Nat, k \in Good, k + 1 <= 2 * n
                 PROVE  Swung(p[k + 1], keys, start, k + 1, n)
      OBVIOUS
    <2>1. k \in 0 .. 2 * n - 1 /\ k <= 2 * n /\ k + 1 \in 1 .. 2 * n /\ (k + 1) - 1 = k
      OBVIOUS
    <2>2. p[k + 1] = Probe(p[k], Turn(keys, start, k))
      BY <2>1 DEF Probing
    <2>3. Swung(p[k], keys, start, k, n)
      BY <2>1
    <2> QED BY <2>1, <2>2, <2>3, ProbeSwung
  <1> HIDE DEF Good
  <1>3. \A k \in Nat : k \in Good
    BY <1>1, <1>2, NatSetInduction
  <1> QED BY <1>3 DEF Good

\* While the first round meets only pinned frames and set bits, there is no victim.
LEMMA ProbesSpare ==
    ASSUME TypeOK, BufferPoolAssumption, NEW n \in Nat \ {0}, NEW keys, NEW start,
           Turns(keys, start, n), NEW p, Probing(p, keys, start, n), NEW m \in 0 .. n,
           \A j \in 0 .. m - 1 : \/ Turn(keys, start, j) \in Pinned
                                 \/ frames[Turn(keys, start, j)].ref
    PROVE  NoneYet(p[m], keys, start, m, n)
  <1> DEFINE Good == {k \in Nat : k <= m => NoneYet(p[k], keys, start, k, n)}
  <1>a. \A v \in Unpinned : v # NoVictim
    BY BufferPoolAssumption DEF BufferPoolAssumption, TypeOK, Unpinned
  <1>b. \A o \in Outcomes : o.victim # NoVictim
    BY <1>a DEF Outcomes, Outcome
  <1>1. 0 \in Good
    <2>1. p[0] = Outcome(NoVictim, {})
      BY DEF Probing
    <2>2. Passed(keys, start, 0) = {}
      BY DEF Passed
    <2>3. NoneYet(p[0], keys, start, 0, n)
      BY <2>1, <2>2 DEF NoneYet, Outcome
    <2> QED BY <2>3
  <1>2. \A k \in Nat : k \in Good => k + 1 \in Good
    <2> SUFFICES ASSUME NEW k \in Nat, k \in Good, k + 1 <= m
                 PROVE  NoneYet(p[k + 1], keys, start, k + 1, n)
      OBVIOUS
    <2> DEFINE id == Turn(keys, start, k)
    <2>1. /\ k <= m /\ k \in 0 .. m - 1 /\ k \in 0 .. n - 1 /\ k + 1 \in 0 .. 2 * n
          /\ k + 1 \in 1 .. 2 * n /\ (k + 1) - 1 = k
      OBVIOUS
    <2>2. p[k + 1] = Probe(p[k], id)
      BY <2>1 DEF Probing
    <2>3. NoneYet(p[k], keys, start, k, n)
      BY <2>1
    <2>4. \A j \in 0 .. k - 1 : j \in 0 .. n - 1 /\ j # k
      BY <2>1
    <2>5. \A j \in 0 .. k - 1 : Turn(keys, start, j) # id
      BY <2>1, <2>4 DEF Turns
    <2>6. id \notin p[k].cleared
      BY <2>3, <2>5 DEF NoneYet, Passed
    <2>7. id \in Pinned \/ frames[id].ref
      BY <2>1
    <2>8. p[k + 1].victim = NoVictim
      BY <2>2, <2>3, <2>6, <2>7 DEF Probe, NoneYet, Outcome
    <2>9. Swung(p[k + 1], keys, start, k + 1, n)
      BY <2>1, ProbesSwung
    <2> QED BY <1>b, <2>8, <2>9 DEF Swung
  <1> HIDE DEF Good
  <1>3. \A k \in Nat : k \in Good
    BY <1>1, <1>2, NatSetInduction
  <1> QED BY <1>3 DEF Good

\* Once there is a victim the loop has ended.
LEMMA VictimStays ==
    ASSUME NEW n \in Nat \ {0}, NEW keys, NEW start, NEW p, Probing(p, keys, start, n),
           NEW m \in 0 .. 2 * n, p[m].victim # NoVictim
    PROVE  p[2 * n] = p[m]
  <1> DEFINE Good == {k \in Nat : m + k <= 2 * n => p[m + k] = p[m]}
  <1>1. 0 \in Good
    OBVIOUS
  <1>2. \A k \in Nat : k \in Good => k + 1 \in Good
    <2> SUFFICES ASSUME NEW k \in Nat, k \in Good, m + (k + 1) <= 2 * n
                 PROVE  p[m + (k + 1)] = p[m]
      OBVIOUS
    <2>1. m + k <= 2 * n /\ m + (k + 1) \in 1 .. 2 * n /\ (m + (k + 1)) - 1 = m + k
      OBVIOUS
    <2>2. p[m + (k + 1)] = Probe(p[m + k], Turn(keys, start, m + k))
      BY <2>1 DEF Probing
    <2>3. p[m + k] = p[m]
      BY <2>1
    <2> QED BY <2>2, <2>3 DEF Probe
  <1> HIDE DEF Good
  <1>3. \A k \in Nat : k \in Good
    BY <1>1, <1>2, NatSetInduction
  <1>4. 2 * n - m \in Nat /\ m + (2 * n - m) = 2 * n
    OBVIOUS
  <1>5. 2 * n - m \in Good
    BY <1>3, <1>4
  <1> QED BY <1>4, <1>5 DEF Good

\* A sweep ends in one of the outcomes, or every frame is pinned.
LEMMA SweepEnds ==
    ASSUME TypeOK, BufferPoolAssumption, NEW n \in Nat \ {0}, n = Cardinality(Cached),
           NEW keys, Order(keys, n), NEW start \in 0 .. n - 1
    PROVE  IF Unpinned = {} THEN Sweep(keys, start).victim = NoVictim
           ELSE Sweep(keys, start) \in Outcomes
  <1> DEFINE o == Sweep(keys, start)
  <1>0. IsFiniteSet(Cached)
    BY FS_Subset DEF TypeOK, BufferPoolAssumption
  <1>1. PICK p : Probing(p, keys, start, n) /\ o = p[2 * n]
    BY <1>0, SweepProbes
  <1>2. Turns(keys, start, n)
    BY OrderTurns
  <1>3. 2 * n \in 0 .. 2 * n
    OBVIOUS
  <1>4. Swung(o, keys, start, 2 * n, n)
    BY <1>1, <1>2, <1>3, ProbesSwung
  <1> HIDE DEF o
  <1>5. Unpinned = {} => o \notin Outcomes
    BY DEF Outcomes
  <1>6. NoneYet(o, keys, start, 2 * n, n) => Unpinned = {}
    <2> SUFFICES ASSUME NoneYet(o, keys, start, 2 * n, n), NEW id \in Unpinned
                 PROVE  FALSE
      OBVIOUS
    <2>1. id \in Cached /\ id \notin Pinned
      BY DEF Unpinned
    <2>2. PICK j \in 0 .. n - 1 : Turn(keys, start, j) = id
      BY <1>2, <2>1 DEF Turns
    <2>3. j + n < 2 * n
      OBVIOUS
    <2> QED BY <2>1, <2>2, <2>3 DEF NoneYet
  <1>7. NoneYet(o, keys, start, 2 * n, n) => o.victim = NoVictim
    BY DEF NoneYet
  <1>8. IF Unpinned = {} THEN o.victim = NoVictim ELSE o \in Outcomes
    BY <1>4, <1>5, <1>6, <1>7 DEF Swung
  <1> QED BY <1>8 DEF o

\* A set and then another frame come first in some order of the frames.
LEMMA OrderFrom ==
    ASSUME IsFiniteSet(Cached), NEW C \in SUBSET Cached, NEW v \in Cached \ C
    PROVE  \E keys \in Orders, m \in 0 .. Cardinality(Cached) - 1 :
              /\ {keys[i] : i \in 1 .. m} = C
              /\ keys[m + 1] = v
  <1> DEFINE n == Cardinality(Cached)
             m == Cardinality(C)
             D == Cached \ (C \cup {v})
             r == Cardinality(D)
  <1>1. IsFiniteSet(C) /\ m \in Nat /\ IsFiniteSet(D) /\ r \in Nat /\ n \in Nat
    BY FS_Subset, FS_CardinalityType
  <1>2. IsFiniteSet(C \cup {v}) /\ Cardinality(C \cup {v}) = m + 1
    BY <1>1, FS_AddElement
  <1>3. n = m + 1 + r
    <2> DEFINE P == C \cup {v}
    <2>1. P \cup D = Cached /\ P \cap D = {}
      OBVIOUS
    <2>2. IsFiniteSet(P) /\ Cardinality(P) = m + 1
      BY <1>2
    <2>3. Cardinality({}) = 0
      BY FS_EmptySet
    <2> HIDE DEF P, D
    <2>4. Cardinality(P \cup D) = Cardinality(P) + Cardinality(D) - Cardinality(P \cap D)
      BY <1>1, <2>2, FS_Union
    <2>5. n = (m + 1) + r - 0
      BY <2>1, <2>2, <2>3, <2>4
    <2> HIDE DEF m, n, r
    <2> QED BY <1>1, <2>5
  <1>4. PICK f \in Bijection(1 .. m, C) : TRUE
    BY <1>1, FS_CardinalityType DEF ExistsBijection
  <1>5. PICK g \in Bijection(1 .. r, D) : TRUE
    BY <1>1, FS_CardinalityType DEF ExistsBijection
  <1>6. /\ \A i \in 1 .. m : f[i] \in C
        /\ \A i, j \in 1 .. m : f[i] = f[j] => i = j
        /\ \A c \in C : \E i \in 1 .. m : f[i] = c
    BY <1>4 DEF Bijection, Injection, Surjection, IsInjective
  <1>7. /\ \A i \in 1 .. r : g[i] \in D
        /\ \A i, j \in 1 .. r : g[i] = g[j] => i = j
    BY <1>5 DEF Bijection, Injection, Surjection, IsInjective
  <1> DEFINE k(i) == IF i <= m THEN f[i] ELSE IF i = m + 1 THEN v ELSE g[i - m - 1]
             keys == [i \in 1 .. n |-> k(i)]
  <1>8. \A i \in 1 .. n : \/ i \in 1 .. m /\ k(i) = f[i]
                          \/ i = m + 1 /\ k(i) = v
                          \/ i - m - 1 \in 1 .. r /\ i > m + 1 /\ k(i) = g[i - m - 1]
    <2> HIDE DEF m, n, r
    <2> QED BY <1>1, <1>3
  <1> HIDE DEF m, n, r, k
  <1>b. /\ \A i \in 1 .. n : i \in 1 .. m => k(i) = f[i]
        /\ \A i \in 1 .. n : i = m + 1 => k(i) = v
        /\ \A i \in 1 .. n : i > m + 1 => k(i) = g[i - m - 1] /\ i - m - 1 \in 1 .. r
    BY <1>1, <1>3 DEF k
  <1>9. \A i \in 1 .. n : k(i) \in Cached
    <2> HIDE DEF D
    <2>1. D \subseteq Cached
      BY DEF D
    <2> QED BY <1>6, <1>7, <1>8, <2>1
  <1>10. \A i, j \in 1 .. n : k(i) = k(j) => i = j
    <2> SUFFICES ASSUME NEW i \in 1 .. n, NEW j \in 1 .. n, k(i) = k(j)
                 PROVE  i = j
      OBVIOUS
    <2>1. /\ i \in 1 .. m => k(i) = f[i] /\ k(i) \in C
          /\ i = m + 1 => k(i) = v
          /\ i > m + 1 => k(i) = g[i - m - 1] /\ k(i) \in D /\ i - m - 1 \in 1 .. r
      BY <1>b, <1>6, <1>7
    <2>2. /\ j \in 1 .. m => k(j) = f[j] /\ k(j) \in C
          /\ j = m + 1 => k(j) = v
          /\ j > m + 1 => k(j) = g[j - m - 1] /\ k(j) \in D /\ j - m - 1 \in 1 .. r
      BY <1>b, <1>6, <1>7
    <2>a. /\ i \in 1 .. m \/ i = m + 1 \/ i > m + 1
          /\ j \in 1 .. m \/ j = m + 1 \/ j > m + 1
      BY <1>8
    <2>3. v \notin C /\ v \notin D /\ \A x \in D : x \notin C
      OBVIOUS
    <2> HIDE DEF D
    <2>4. CASE i \in 1 .. m
      <3>1. j \in 1 .. m
        BY <2>1, <2>2, <2>3, <2>a, <2>4
      <3> QED BY <1>6, <2>1, <2>2, <2>4, <3>1
    <2>5. CASE i = m + 1
      <3>1. j = m + 1
        BY <2>1, <2>2, <2>3, <2>a, <2>5
      <3> QED BY <2>5, <3>1
    <2>6. CASE i > m + 1
      <3>1. j > m + 1
        BY <2>1, <2>2, <2>3, <2>a, <2>6
      <3>2. i - m - 1 = j - m - 1
        BY <1>7, <2>1, <2>2, <2>6, <3>1
      <3> QED BY <1>1, <3>2
    <2> QED BY <2>a, <2>4, <2>5, <2>6
  <1>11. keys \in Orders
    <2>1. keys \in [1 .. n -> Cached] /\ DOMAIN keys = 1 .. n
      BY <1>9
    <2>2. \A i, j \in DOMAIN keys : i # j => keys[i] # keys[j]
      BY <1>10, <2>1
    <2> HIDE DEF keys
    <2> QED BY <2>1, <2>2 DEF Orders, n
  <1>12. m \in 0 .. n - 1 /\ m + 1 \in 1 .. n /\ 1 .. m \subseteq 1 .. n
    BY <1>1, <1>3
  <1>13. keys[m + 1] = v
    BY <1>1, <1>12 DEF k
  <1>14. \A i \in 1 .. m : keys[i] = f[i]
    BY <1>1, <1>12 DEF k
  <1>15. {keys[i] : i \in 1 .. m} = C
    <2> HIDE DEF keys
    <2> QED BY <1>6, <1>14
  <1> HIDE DEF keys
  <1> QED BY <1>11, <1>12, <1>13, <1>15 DEF n

\* The turns of the clock that starts behind the last key
LEMMA TurnsInOrder ==
    ASSUME NEW n \in Nat \ {0}, NEW keys, Len(keys) = n
    PROVE  \A k \in 0 .. n - 1 : Turn(keys, n - 1, k) = keys[k + 1]
  <1> TAKE k \in 0 .. n - 1
  <1>1. /\ n - 1 \in 0 .. n - 1 /\ k \in 0 .. 2 * n - 1
        /\ (n - 1) + 1 + k \in n .. 2 * n - 1 /\ (n - 1) + 1 + k - n + 1 = k + 1
    OBVIOUS
  <1> QED BY <1>1, TurnOf

\* For every outcome there is an order of the keys that gives it: the frames whose
\* bits it clears first, then its victim.
LEMMA OutcomeSwept ==
    ASSUME TypeOK, BufferPoolAssumption, NEW n \in Nat \ {0}, n = Cardinality(Cached),
           NEW o \in Outcomes
    PROVE  \E keys \in Orders : Sweep(keys, n - 1) = o
  <1> DEFINE spared == {i \in Unpinned : frames[i].ref}
             v == o.victim
             C == IF spared = Unpinned THEN {} ELSE o.cleared
  <1>0. IsFiniteSet(Cached) /\ Unpinned \subseteq Cached /\ n - 1 \in 0 .. n - 1
    BY FS_Subset DEF TypeOK, BufferPoolAssumption, Unpinned
  <1>1. v \in Unpinned /\ o = Outcome(v, o.cleared) /\ v # NoVictim
    BY BufferPoolAssumption DEF Outcomes, Outcome, BufferPoolAssumption, TypeOK, Unpinned
  <1>2. spared # Unpinned => v \notin spared /\ o.cleared \subseteq spared
    BY DEF Outcomes, Outcome
  <1>3. C \in SUBSET Cached /\ v \in Cached \ C /\ C \subseteq spared
    BY <1>0, <1>1, <1>2
  <1>4. PICK keys \in Orders, m \in 0 .. n - 1 :
           {keys[i] : i \in 1 .. m} = C /\ keys[m + 1] = v
    <2> HIDE DEF C, v
    <2> QED BY <1>0, <1>3, OrderFrom
  <1> DEFINE at(k) == Turn(keys, n - 1, k)
  <1>5. Order(keys, n)
    BY <1>0, OrdersOrder
  <1>6. Turns(keys, n - 1, n)
    BY <1>0, <1>5, OrderTurns
  <1>7. \A k \in 0 .. n - 1 : at(k) = keys[k + 1]
    BY <1>5, TurnsInOrder DEF Order
  <1>8. PICK p : Probing(p, keys, n - 1, n) /\ Sweep(keys, n - 1) = p[2 * n]
    BY <1>0, <1>5, SweepProbes
  <1>9. Sweep(keys, n - 1) \in Outcomes
    BY <1>0, <1>1, <1>5, SweepEnds
  <1> HIDE DEF C, v
  <1>10. ASSUME NEW k \in 0 .. n, at(k) = v, NoneYet(p[k], keys, n - 1, k, n),
                ~frames[v].ref \/ v \in p[k].cleared
         PROVE  Sweep(keys, n - 1).victim = v
    <2>1. k + 1 \in 1 .. 2 * n /\ k + 1 \in 0 .. 2 * n /\ (k + 1) - 1 = k
      OBVIOUS
    <2>2. p[k + 1] = Probe(p[k], at(k))
      BY <1>8, <2>1 DEF Probing
    <2>3. p[k + 1] = Outcome(v, p[k].cleared)
      BY <1>1, <1>10, <2>2 DEF Probe, NoneYet, Unpinned
    <2>4. p[k + 1].victim = v
      BY <2>3 DEF Outcome
    <2>5. p[2 * n] = p[k + 1]
      BY <1>1, <1>8, <2>1, <2>4, VictimStays
    <2> QED BY <1>8, <2>4, <2>5
  <1>11. CASE spared = Unpinned
    <2>1. C = {}
      BY <1>11 DEF C
    <2>2. m = 0
      <3>1. 1 \in 1 .. m => keys[1] \in C
        BY <1>4
      <3> QED BY <2>1, <3>1
    <2>3. at(0) = v /\ at(n) = v
      <3>1. 0 \in 0 .. n - 1 /\ 0 + n = n /\ 0 + 1 = m + 1
        BY <2>2
      <3>2. at(0) = v
        BY <1>4, <1>7, <3>1
      <3>3. at(0 + n) = at(0)
        BY <1>6, <3>1 DEF Turns
      <3> QED BY <3>1, <3>2, <3>3
    <2>4. \A j \in 0 .. n - 1 : at(j) \in Pinned \/ frames[at(j)].ref
      <3> TAKE j \in 0 .. n - 1
      <3>1. at(j) \in Cached
        BY <1>6 DEF Turns
      <3> QED BY <1>11, <3>1 DEF Unpinned
    <2>5. n \in 0 .. n
      OBVIOUS
    <2>6. NoneYet(p[n], keys, n - 1, n, n)
      BY <1>6, <1>8, <2>4, <2>5, ProbesSpare
    <2>7. v \in p[n].cleared
      <3>1. 0 \in 0 .. n - 1
        OBVIOUS
      <3> QED BY <1>1, <2>3, <2>6, <3>1 DEF NoneYet, Passed
    <2>8. Sweep(keys, n - 1).victim = v
      BY <1>10, <2>3, <2>5, <2>6, <2>7
    <2>9. \A u \in Outcomes : u = Outcome(u.victim, spared)
      BY <1>11 DEF Outcomes, Outcome
    <2>10. Sweep(keys, n - 1) = o
      BY <1>9, <2>8, <2>9 DEF v
    <2> QED BY <2>10
  <1>12. CASE spared # Unpinned
    <2>1. C = o.cleared
      BY <1>12 DEF C
    <2>2. \A j \in 0 .. m - 1 : at(j) \in C
      <3> TAKE j \in 0 .. m - 1
      <3>1. j + 1 \in 1 .. m /\ j \in 0 .. n - 1
        OBVIOUS
      <3> QED BY <1>4, <1>7, <3>1
    <2>3. \A c \in C : \E j \in 0 .. m - 1 : at(j) = c
      <3> TAKE c \in C
      <3>1. PICK i \in 1 .. m : keys[i] = c
        BY <1>4
      <3>2. i - 1 \in 0 .. m - 1 /\ i - 1 \in 0 .. n - 1 /\ (i - 1) + 1 = i
        OBVIOUS
      <3>3. at(i - 1) = keys[(i - 1) + 1]
        BY <1>7, <3>2
      <3> QED BY <3>1, <3>2, <3>3
    <2>4. m \in 0 .. n /\ at(m) = v
      BY <1>4, <1>7
    <2>5. \A j \in 0 .. m - 1 : at(j) \in Pinned \/ frames[at(j)].ref
      BY <1>3, <2>2
    <2>6. NoneYet(p[m], keys, n - 1, m, n)
      BY <1>6, <1>8, <2>4, <2>5, ProbesSpare
    <2>7. p[m].cleared = C
      <3>1. C \subseteq Unpinned
        BY <1>3
      <3>2. Passed(keys, n - 1, m) = C
        BY <2>2, <2>3, <3>1 DEF Passed
      <3> QED BY <2>6, <3>2 DEF NoneYet
    <2>8. ~frames[v].ref
      BY <1>1, <1>2, <1>12 DEF v
    <2>9. m + 1 \in 1 .. 2 * n /\ m + 1 \in 0 .. 2 * n /\ (m + 1) - 1 = m
      OBVIOUS
    <2>10. p[m + 1] = Probe(p[m], at(m))
      BY <1>8, <2>9 DEF Probing
    <2>11. p[m + 1] = Outcome(v, C)
      BY <1>1, <2>4, <2>6, <2>7, <2>8, <2>10 DEF Probe, NoneYet, Unpinned
    <2>12. p[m + 1].victim = v
      BY <2>11 DEF Outcome
    <2>13. p[2 * n] = p[m + 1]
      BY <1>1, <1>8, <2>9, <2>12, VictimStays
    <2>14. Sweep(keys, n - 1) = o
      BY <1>1, <1>8, <2>1, <2>11, <2>13 DEF v
    <2> QED BY <2>14
  <1> QED BY <1>11, <1>12

\* The clock of evict_if_needed, for every order that the HashMap may give its keys
\* and every position, does what the model's eviction does, and nothing else.
THEOREM ClockIsOutcome == Spec => []SweepIsOutcome
<1>1. TypeOK => SweepIsOutcome
  <2> SUFFICES ASSUME TypeOK, Cached # {}
               PROVE  IF Unpinned = {} THEN \A o \in Swept : o.victim = NoVictim
                      ELSE Swept = Outcomes
    BY DEF SweepIsOutcome
  <2> DEFINE n == Cardinality(Cached)
  <2>0. IsFiniteSet(Cached) /\ n \in Nat \ {0} /\ BufferPoolAssumption
    BY FS_Subset, FS_CardinalityType, FS_EmptySet, BufferPoolAssumption
       DEF TypeOK, BufferPoolAssumption
  <2>1. n - 1 \in 0 .. n - 1
    BY <2>0
  <2>2. \A o \in Swept : IF Unpinned = {} THEN o.victim = NoVictim ELSE o \in Outcomes
    <3> SUFFICES ASSUME NEW keys \in Orders, NEW start \in 0 .. n - 1
                 PROVE  IF Unpinned = {} THEN Sweep(keys, start).victim = NoVictim
                        ELSE Sweep(keys, start) \in Outcomes
      BY DEF Swept
    <3>1. Order(keys, n)
      BY <2>0, OrdersOrder
    <3> HIDE DEF n
    <3>2. n = Cardinality(Cached)
      BY DEF n
    <3> QED BY ONLY TypeOK, <2>0, <3>1, <3>2, n \in Nat \ {0}, start \in 0 .. n - 1, SweepEnds
  <2>3. \A o \in Outcomes : o \in Swept
    <3> SUFFICES ASSUME NEW o \in Outcomes
                 PROVE  o \in Swept
      OBVIOUS
    <3>1. \E keys \in Orders : Sweep(keys, n - 1) = o
      BY <2>0, OutcomeSwept
    <3> QED BY <2>1, <3>1 DEF Swept
  <2> QED BY <2>2, <2>3
<1> QED
  BY <1>1, TypeCorrect, PTL
=============================================================================
