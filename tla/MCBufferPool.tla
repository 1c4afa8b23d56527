---------------------------- MODULE MCBufferPool -----------------------------
(* Small instances of BufferPool. *)
EXTENDS BufferPool

CONSTANTS p, q, r, s      \* four pages
=============================================================================
