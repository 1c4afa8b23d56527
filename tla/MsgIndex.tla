------------------------------ MODULE MsgIndex ------------------------------
(***************************************************************************)
(* msg_index.rs: where the messages are.  An index keeps, besides its      *)
(* entries, a count of them: the writer of snap/msg.idx sizes the file by  *)
(* the count and fills it from the entries, stats() reports the count, and *)
(* storage_smoke_write takes the next message id from it.                  *)
(***************************************************************************)
EXTENDS Integers, FiniteSets

SLOTS == 65536                            \* SLOT_MASK + 1

\* pack_loc, unpack_loc: a page and a slot in one u64
PackLoc(page, slot) == (page * SLOTS) + (slot % SLOTS)
UnpackLoc(packed)   == [page |-> packed \div SLOTS, slot |-> packed % SLOTS]

\* CompactMsgIndex: `at' maps the pairs <<chat, message id>> to locations.
NewIndex == [at |-> <<>>, size |-> 0]

Keys(index)          == DOMAIN index.at
KeysOf(index, chat)  == {key \in Keys(index) : key[1] = chat}
WithLoc(at, key, loc) ==
    [k \in DOMAIN at \cup {key} |-> IF k = key THEN loc ELSE at[k]]

SetLocAlways(index, chat, id, page, slot) ==                         \* mutant
    [at   |-> WithLoc(index.at, <<chat, id>>, PackLoc(page, slot)),
     size |-> index.size + 1]
SetLocFirst(index, chat, id, page, slot) ==                          \* mutant
    IF <<chat, id>> \in Keys(index) THEN index
    ELSE [at   |-> WithLoc(index.at, <<chat, id>>, PackLoc(page, slot)),
          size |-> index.size + 1]
SetLoc(index, chat, id, page, slot) ==
    [at   |-> WithLoc(index.at, <<chat, id>>, PackLoc(page, slot)),
     size |-> index.size + IF <<chat, id>> \in Keys(index) THEN 0 ELSE 1]

DeleteChat(index, chat) ==
    [at   |-> [key \in Keys(index) \ KeysOf(index, chat) |-> index.at[key]],
     size |-> index.size - Cardinality(KeysOf(index, chat))]

\* get_packed, where there is an entry
GetLoc(index, chat, id) == UnpackLoc(index.at[<<chat, id>>])

-----------------------------------------------------------------------------
(* The snapshot: the LSN it belongs to and the entries, in no order. *)

\* save_msg_index: an index with more entries than it counts panics, and one
\* with fewer leaves entries of zeros behind.
Entries(index) ==
    {[chat |-> key[1], id |-> key[2], loc |-> UnpackLoc(index.at[key])] :
        key \in Keys(index)}
CanSave(index) == index.size >= Cardinality(Keys(index))
ZeroEntry == [chat |-> 0, id |-> 0, loc |-> UnpackLoc(0)]
SaveIndex(index) ==
    Entries(index) \cup
        IF index.size > Cardinality(Keys(index)) THEN {ZeroEntry} ELSE {}

\* load_msg_index, of a whole file: each entry is set in turn.
LoadIndex(entries) ==
    LET keys == {<<entry.chat, entry.id>> : entry \in entries}
        of(key) == CHOOSE entry \in entries : <<entry.chat, entry.id>> = key
    IN  [at   |-> [key \in keys |-> PackLoc(of(key).loc.page, of(key).loc.slot)],
         size |-> Cardinality(keys)]
=============================================================================
