------------------------------ MODULE PageStore ------------------------------
(***************************************************************************)
(* What the buffer pool promises its callers: a store of pages in which a  *)
(* read sees the last write, together with what of it is saved in the      *)
(* file.  A save that fails may leave a torn page in the file, and may lose *)
(* what had been written since the save before it.                         *)
(***************************************************************************)
CONSTANTS Pages, Values, Blank

VARIABLES pages, saved, event

Init == pages = [id \in Pages |-> Blank] /\ saved = pages /\ event = "call"

Write(id, v) ==
    /\ pages' = [pages EXCEPT ![id] = v] /\ event' = "change"
    /\ UNCHANGED saved
Save(id) ==
    /\ saved' = [saved EXCEPT ![id] = pages[id]]
    /\ UNCHANGED <<pages, event>>
SaveFails(id) ==
    /\ \E torn \in Values : saved' = [saved EXCEPT ![id] = torn]
    /\ event' = "error" /\ UNCHANGED pages
Lose(id) ==
    /\ \E torn \in Values : saved' = [saved EXCEPT ![id] = torn]
    /\ pages' = [pages EXCEPT ![id] = saved'[id]] /\ event' = "error"
Other == event' \in {"call", "error"} /\ UNCHANGED <<pages, saved>>

Next ==
    \/ \E id \in Pages : \/ Save(id) \/ SaveFails(id) \/ Lose(id)
                         \/ \E v \in Values : Write(id, v)
    \/ Other

Spec == Init /\ [][Next]_<<pages, saved, event>>
=============================================================================
