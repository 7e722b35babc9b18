----------------------------- MODULE MCSessions -----------------------------
(***************************************************************************)
(* An instance of Sessions: a page that makes two calls at a time, and a   *)
(* page that makes one.                                                    *)
(***************************************************************************)
EXTENDS Sessions, TLC

CONSTANTS here, there, first, second, other

PageOf(c) == IF c = other THEN there ELSE here
Alike == Permutations({first, second})
=============================================================================
