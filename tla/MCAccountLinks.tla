--------------------------- MODULE MCAccountLinks ---------------------------
(***************************************************************************)
(* An instance of AccountLinks: one account, three links, two requests.    *)
(***************************************************************************)
EXTENDS AccountLinks, TLC

CONSTANTS a1, l1, l2, l3, t1, t2

Alike == Permutations(Links) \cup Permutations(Threads)
=============================================================================
