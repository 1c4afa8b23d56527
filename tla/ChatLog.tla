------------------------------- MODULE ChatLog -------------------------------
(***************************************************************************)
(* What a chat log promises, without pages, log or cache: per chat, the    *)
(* messages in the order their appends returned, of which a trim keeps the *)
(* last ones.                                                              *)
(***************************************************************************)
EXTENDS Integers, Sequences

CONSTANTS Chats, Messages, Keeps

VARIABLE log

LastN(s, n) == SubSeq(s, IF Len(s) > n THEN Len(s) - n + 1 ELSE 1, Len(s))

Init == log = [c \in Chats |-> <<>>]

AppendTo(c) == \E m \in Messages : log' = [log EXCEPT ![c] = Append(@, m)]
TrimTo(c)   == \E n \in Keeps : log' = [log EXCEPT ![c] = LastN(@, n)]

\* A trim with nothing to drop is a stuttering step.
Next == log' # log /\ \E c \in Chats : AppendTo(c) \/ TrimTo(c)

Spec == Init /\ [][Next]_log
=============================================================================
