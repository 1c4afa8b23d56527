------------------------------ MODULE MCDomains ------------------------------
(* Small instances of Domains. *)
EXTENDS Domains

CONSTANTS A, B, C      \* three names

Uses(domains, free, deaths) == [uses |-> domains, free |-> free, deaths |-> deaths]
Freelist == <<6, 5>>            \* a trim frees the later page last

SoundSetups ==
    {Uses({"hot"}, <<>>, 1), Uses({"impulse"}, <<>>, 1), Uses({"bond", "recall"}, <<>>, 1),
     Uses({"impulse", "recall"}, Freelist, 0)}
JobsOnFreedPages == {Uses({"impulse"}, Freelist, 1)}
Symmetry == Permutations({A, B, C})
=============================================================================
