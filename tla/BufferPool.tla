----------------------------- MODULE BufferPool ------------------------------
(***************************************************************************)
(* The buffer pool of the native engine over the heap file: pool.rs, and   *)
(* read_page and write_page of heap.rs.  Callers pin a page with `get',    *)
(* change it in place and unpin it as dirty, or look at it with `peek'.    *)
(*                                                                         *)
(* The frames are a HashMap whose order of keys nothing fixes, so the clock *)
(* of evict_if_needed is modelled by the outcomes that some order gives    *)
(* (`Outcomes'); `Sweep' is the loop itself, and an invariant relates them. *)
(***************************************************************************)
EXTENDS Integers, Sequences, FiniteSets

CONSTANTS
    Pages,      \* the pages of heap.ndb
    Values,     \* what a page may hold
    Blank,      \*   and holds at first
    MaxFrames,  \* BufferPool.max_frames
    MaxPinned,  \* how many pages callers pin at once
    MaxPins     \* how often callers pin a page at once (alloc_page does twice)

NoVictim == "none"   \* what `Sweep' says when it finds no frame to evict

ASSUME BufferPoolAssumption ==
    /\ IsFiniteSet(Pages) /\ NoVictim \notin Pages /\ Blank \in Values
    /\ {MaxFrames, MaxPinned, MaxPins} \subseteq Nat \ {0}

VARIABLES
    disk,     \* heap.ndb
    frames,   \* BufferPool.frames
    pc,       \* where the running call stands
    wanted,   \* the page that a `get' or `peek' is loading, and its pins then
    todo,     \* the dirty pages flush_all has still to write
    touched,  \* pages changed through a handle that is not unpinned as dirty
    event     \* what happened last: a caller's change, a call, or its error

vars == <<disk, frames, pc, wanted, todo, touched, event>>

Frame  == [page : Values, dirty : BOOLEAN, pin : Nat, ref : BOOLEAN]
Cached == DOMAIN frames
Pinned == {id \in Cached : frames[id].pin > 0}
Wanted(id, pin) == [page |-> id, pin |-> pin]
Nothing == [page |-> 0, pin |-> 0]

\* What a caller sees of a page
Content(id) == IF id \in Cached THEN frames[id].page ELSE disk[id]

\* HeapFile::write_page
WriteNothing(id) == UNCHANGED disk                                   \* mutant
WritePage(id) == disk' = [disk EXCEPT ![id] = frames[id].page]
\* `write_all' fails before or after it wrote some of the page, which then is
\* anything.
WriteFails(id) == \E torn \in Values : disk' = [disk EXCEPT ![id] = torn]

Init ==
    /\ disk = [id \in Pages |-> Blank]
    /\ frames = [id \in {} |-> Blank]
    /\ pc = "idle" /\ wanted = Nothing
    /\ todo = {} /\ touched = {} /\ event = "call"

-----------------------------------------------------------------------------
(* get, peek and unpin. *)

MayPin(id) ==
    /\ Cardinality(Pinned \cup {id}) <= MaxPinned
    /\ id \in Cached => frames[id].pin < MaxPins

GetHit(id) ==
    /\ pc = "idle" /\ id \in Cached /\ MayPin(id)
    /\ frames' = [frames EXCEPT ![id].ref = TRUE, ![id].pin = @ + 1]
    /\ event' = "call"
    /\ UNCHANGED <<disk, pc, wanted, todo, touched>>

PeekHit(id) ==
    /\ pc = "idle" /\ id \in Cached
    /\ frames' = [frames EXCEPT ![id].ref = TRUE]
    /\ event' = "call"
    /\ UNCHANGED <<disk, pc, wanted, todo, touched>>

\* `get' and `peek' of a page that is not cached: evict_if_needed, then read_page
Miss(id, pin) ==
    /\ pc = "idle" /\ id \notin Cached
    /\ pin > 0 => MayPin(id)
    /\ pc' = "miss" /\ wanted' = Wanted(id, pin)
    /\ event' = "call"
    /\ UNCHANGED <<disk, frames, todo, touched>>

Unpinned == Cached \ Pinned
Full == Cardinality(Cached) >= MaxFrames

\* The clock passes over pinned frames, and clears the bit of the others until
\* it comes to one without it.  When all have it the first round clears them all.
Outcome(v, C) == [victim |-> v, cleared |-> C]
OutcomesAll ==                                                       \* mutant
    {Outcome(v, {}) : v \in Cached}
Outcomes ==
    LET spared == {id \in Unpinned : frames[id].ref}
    IN  IF spared = Unpinned
        THEN {Outcome(v, spared) : v \in Unpinned}
        ELSE {Outcome(v, C) : v \in Unpinned \ spared, C \in SUBSET spared}

\* The frames without the victim
Remaining(o) ==
    [id \in Cached \ {o.victim} |->
        [frames[id] EXCEPT !.ref = @ /\ id \notin o.cleared]]

\* One iteration of evict_if_needed: a dirty victim is written, any is removed.
WriteBackNever(id) == UNCHANGED disk                                 \* mutant
WriteBack(id) == IF frames[id].dirty THEN WritePage(id) ELSE UNCHANGED disk

Evict ==
    /\ pc = "miss" /\ Full
    /\ \E o \in Outcomes :
          /\ frames' = Remaining(o)
          /\ WriteBack(o.victim)
    /\ UNCHANGED <<pc, wanted, todo, touched, event>>

\* write_page fails: the frame is already removed, and the error goes to the
\* caller of `get', who wanted another page.
EvictFails ==
    /\ pc = "miss" /\ Full
    /\ \E o \in Outcomes :
          /\ frames[o.victim].dirty
          /\ frames' = Remaining(o)
          /\ WriteFails(o.victim)
    /\ pc' = "idle" /\ wanted' = Nothing
    /\ event' = "error"
    /\ UNCHANGED <<todo, touched>>

\* When every frame is pinned the pool grows.
RoomAlways == TRUE                                                   \* mutant
RoomOnlyBelow == ~Full                                               \* mutant
Room == ~Full \/ Unpinned = {}

Load ==
    /\ pc = "miss" /\ Room
    /\ frames' = [id \in Cached \cup {wanted.page} |->
                    IF id = wanted.page
                    THEN [page |-> disk[id], dirty |-> FALSE, pin |-> wanted.pin,
                          ref |-> TRUE]
                    ELSE frames[id]]
    /\ pc' = "idle" /\ wanted' = Nothing
    /\ UNCHANGED <<disk, todo, touched, event>>

\* read_page fails
LoadFails ==
    /\ pc = "miss" /\ Room
    /\ pc' = "idle" /\ wanted' = Nothing
    /\ event' = "error"
    /\ UNCHANGED <<disk, frames, todo, touched>>

\* A caller changes a page it has pinned.
Change(id, v) ==
    /\ pc = "idle" /\ id \in Pinned
    /\ frames' = [frames EXCEPT ![id].page = v]
    /\ touched' = touched \cup {id}
    /\ event' = "change"
    /\ UNCHANGED <<disk, pc, wanted, todo>>

\* unpin: a caller that changed the page says so at the latest with its last pin.
DirtyNow(was, dirty) == dirty                                        \* mutant
DirtyAfter(was, dirty) == was \/ dirty

Unpin(id, dirty) ==
    /\ pc = "idle" /\ id \in Pinned
    /\ id \in touched /\ frames[id].pin = 1 => dirty
    /\ frames' = [frames EXCEPT ![id].dirty = DirtyAfter(@, dirty), ![id].pin = @ - 1]
    /\ touched' = IF dirty THEN touched \ {id} ELSE touched
    /\ event' = "call"
    /\ UNCHANGED <<disk, pc, wanted, todo>>

-----------------------------------------------------------------------------
(* flush_all, called between two calls of the engine: no handle is in use. *)

FlushStart ==
    /\ pc = "idle" /\ touched = {}
    /\ pc' = "flush"
    /\ todo' = {id \in Cached : frames[id].dirty}
    /\ event' = "call"
    /\ UNCHANGED <<disk, frames, wanted, touched>>

FlushOne(id) ==
    /\ pc = "flush" /\ id \in todo
    /\ WritePage(id)
    /\ frames' = [frames EXCEPT ![id].dirty = FALSE]
    /\ todo' = todo \ {id}
    /\ UNCHANGED <<pc, wanted, touched, event>>

\* write_page fails and ends flush_all; the frame stays, and stays dirty.
FlushFails ==
    /\ pc = "flush" /\ \E id \in todo : WriteFails(id)
    /\ pc' = "idle" /\ todo' = {}
    /\ event' = "error"
    /\ UNCHANGED <<frames, wanted, touched>>

FlushDone ==
    /\ pc = "flush" /\ todo = {}
    /\ pc' = "idle"
    /\ UNCHANGED <<disk, frames, wanted, todo, touched, event>>

Loading == Evict \/ EvictFails \/ Load \/ LoadFails
Flushing == (\E id \in Pages : FlushOne(id)) \/ FlushFails \/ FlushDone

Next ==
    \/ \E id \in Pages : \/ GetHit(id) \/ PeekHit(id)
                         \/ Miss(id, 1) \/ Miss(id, 0)
                         \/ Unpin(id, TRUE) \/ Unpin(id, FALSE)
                         \/ \E v \in Values : Change(id, v)
    \/ FlushStart
    \/ Loading \/ Flushing

Spec == Init /\ [][Next]_vars

\* The loops of one call run until the call returns.
FairSpec == Spec /\ WF_vars(Loading) /\ WF_vars(Flushing)

-----------------------------------------------------------------------------
(* evict_if_needed's inner loop for one order of the keys and one position of  *)
(* the clock: 2n probes of n frames.                                           *)

ProbeOnce == Cardinality(Cached)                                     \* mutant
Probes == 2 * Cardinality(Cached)

Sweep(keys, start) ==
    LET n == Len(keys)
        at(k) == keys[((start + k) % n) + 1]
        probe[k \in 0 .. Probes] ==   \* the state after k probes
            IF k = 0 THEN Outcome(NoVictim, {})
            ELSE LET o == probe[k - 1]
                     id == at(k)
                 IN  IF o.victim # NoVictim \/ id \in Pinned THEN o
                     ELSE IF frames[id].ref /\ id \notin o.cleared
                          THEN Outcome(NoVictim, o.cleared \cup {id})
                          ELSE Outcome(id, o.cleared)
    IN  probe[Probes]

Orders == {s \in [1 .. Cardinality(Cached) -> Cached] :
              \A i, j \in DOMAIN s : i # j => s[i] # s[j]}
Swept == {Sweep(s, k) : s \in Orders, k \in 0 .. Cardinality(Cached) - 1}

-----------------------------------------------------------------------------
(* Properties. *)

TypeOK ==
    /\ disk \in [Pages -> Values]
    /\ Cached \subseteq Pages /\ frames \in [Cached -> Frame]
    /\ pc \in {"idle", "miss", "flush"} /\ event \in {"call", "change", "error"}
    /\ wanted \in {Wanted(id, pin) : id \in Pages, pin \in {0, 1}} \cup {Nothing}
    /\ todo \subseteq Cached /\ touched \subseteq Pinned
    /\ pc = "miss" => wanted.page \in Pages \ Cached /\ wanted.pin \in {0, 1}
    /\ pc # "flush" => todo = {}
    /\ pc = "flush" => touched = {}

\* A frame that nobody marked dirty is what the file holds, so that dropping it
\* without a write loses nothing; flush_all has no other frames to write.
CleanIsSaved ==
    /\ \A id \in Cached \ touched : ~frames[id].dirty => frames[id].page = disk[id]
    /\ pc = "flush" => todo = {id \in Cached : frames[id].dirty}

\* When flush_all returns Ok the file holds every page as callers see it: this is
\* what lets checkpoint drop the log.
FlushSaves == pc = "flush" /\ todo = {} => \A id \in Pages : Content(id) = disk[id]

\* The pool exceeds its frames only by what callers pin: eviction always finds
\* an unpinned frame, and takes back what an earlier growth added.
Larger(a, b) == IF a >= b THEN a ELSE b
Bounded == Cardinality(Cached) <= Larger(MaxFrames, MaxPinned + 1)

\* No page leaves the pool while a caller holds a handle to it.
HandlesStay == [][\A id \in Pinned : id \in DOMAIN frames']_vars

\* The clock of evict_if_needed, for every order of the keys and every position,
\* does what `Outcomes' says and nothing else; two rounds suffice to find a
\* victim when there is one.
SweepIsOutcome ==
    Cached # {} =>
        IF Unpinned = {} THEN \A o \in Swept : o.victim = NoVictim
        ELSE Swept = Outcomes

\* A read sees the last write, whatever is evicted, loaded and flushed in
\* between; only a write-back that fails undoes writes or tears the page, and some
\* call says so.
Store == INSTANCE PageStore
            WITH pages <- [id \in Pages |-> Content(id)], saved <- disk
ImplementsPageStore == Store!Spec

\* A call that has to make room returns: the loop of evict_if_needed ends.
GetReturns == pc = "miss" ~> pc = "idle"
=============================================================================
