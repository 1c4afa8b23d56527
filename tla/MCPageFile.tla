----------------------------- MODULE MCPageFile -----------------------------
(* Small instances of PageFile, and the checksum that it takes for ideal. *)
EXTENDS PageFile, Crc32

Same(n, byte) == [k \in 1 .. n |-> byte]
Mixed(n) == [k \in 1 .. n |-> k % 256]

Chat(text, json) == [kind |-> "chat", id |-> Same(4, 1), ts |-> Same(8, 2),
                     uid |-> Same(4, 3), role |-> 1, text |-> text, json |-> json]
Hot(key, value)  == [kind |-> "hot", key |-> key, expires |-> Same(8, 4), value |-> value]

\* Around the length from which texts are compressed, with and without success; a
\* value that fills an empty page, and one that is a byte too long; fields of no
\* length; a vector
Texts   == {Chat(<<>>, FALSE), Chat(Mixed(63), TRUE), Chat(Mixed(64), FALSE),
            Chat(Same(64, 7), TRUE)}
Values  == {Hot(<<9>>, Mixed(217)), Hot(<<9>>, Mixed(218)), Hot(<<>>, <<>>)}
Job     == [kind |-> "impulse", id |-> Mixed(3), chat |-> Same(8, 5), at |-> Same(8, 6),
            what |-> Mixed(2), payload |-> Mixed(80)]
Bond    == [kind |-> "bond", uid |-> Same(4, 1), chat |-> Same(8, 255), score |-> Same(4, 8),
            note |-> Mixed(5)]
Recall  == [kind |-> "recall", chat |-> Same(8, 1), id |-> Same(4, 2), visibility |-> 1,
            vector |-> <<Mixed(4), Same(4, 3)>>]
AllRows == Texts \cup Values \cup {Job, Bond, Recall}
SmallFields == {Same(8, 255)}

Setup(rs, inserts, sets, fresh, writes, losses) ==
    [rows |-> rs, inserts |-> inserts, sets |-> sets, fresh |-> fresh, writes |-> writes,
     losses |-> losses]
SmallSetups ==
    {Setup(Texts, 3, 0, 0, 1, 0), Setup(Values, 2, 1, 1, 1, 0),
     Setup({Job, Bond, Recall}, 3, 0, 0, 1, 0),
     Setup({Chat(Mixed(63), TRUE), Chat(Same(64, 7), TRUE)}, 2, 0, 0, 2, 1),
     Setup({Bond}, 1, 0, 1, 2, 1), Setup({Bond}, 1, 1, 0, 1, 1),
     Setup({Bond}, 1, 0, 0, 2, 2)}
=============================================================================
