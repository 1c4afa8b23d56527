------------------------------ MODULE MCRedoLog ------------------------------
(* Small instances of RedoLog. *)
EXTENDS RedoLog, TLC

CONSTANTS a, b, c

\* Only records that are all accepted, or all rejected, are interchangeable.
Symmetry == Permutations(Ops \ Rejected)
=============================================================================
