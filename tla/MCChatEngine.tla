---------------------------- MODULE MCChatEngine -----------------------------
(* Small instances of ChatEngine. *)
EXTENDS ChatEngine

CONSTANTS A, B      \* two chats

Nothing == [ids |-> {}, keeps |-> {}, appends |-> 4, bigs |-> 0, fails |-> 0,
            trims |-> 0, evicts |-> 0, ckpts |-> 0, crashes |-> 0, skip |-> FALSE]

\* Reused ids and trims in one session; trims over checkpoints; deaths of the
\* process; messages too big; a log that fails
Live    == [Nothing EXCEPT !.ids = {1, 2}, !.keeps = {0, 1, 3}, !.trims = 2]
Reopen  == [Nothing EXCEPT !.keeps = {1, 3}, !.appends = 5, !.trims = 1, !.ckpts = 2]
Deaths  == [Nothing EXCEPT !.evicts = 2, !.ckpts = 1, !.crashes = 2, !.skip = TRUE]
Bigs    == [Nothing EXCEPT !.keeps = {1}, !.bigs = 2, !.trims = 1, !.ckpts = 1]
BigDead == [Nothing EXCEPT !.appends = 3, !.bigs = 1, !.crashes = 1, !.evicts = 1]
Failing == [Nothing EXCEPT !.appends = 3, !.fails = 1, !.evicts = 1, !.ckpts = 1, !.crashes = 1]

SoundSetups == {Live, Reopen, Deaths, Bigs, BigDead, Failing}

\* What the violations need: a checkpoint between trims; an engine dropped after a
\* trim; a death of the process after a trim
OrderSetups     == {[Nothing EXCEPT !.keeps = {2}, !.trims = 2, !.ckpts = 1]}
DropTrimSetups  == {[Nothing EXCEPT !.keeps = {1}, !.appends = 3, !.trims = 1, !.skip = TRUE]}
CrashTrimSetups == {[Nothing EXCEPT !.keeps = {1}, !.trims = 1, !.crashes = 1]}

Symmetry == Permutations(Chats)
=============================================================================
