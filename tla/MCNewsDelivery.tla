--------------------------- MODULE MCNewsDelivery ---------------------------
(***************************************************************************)
(* Instances of NewsDelivery: cards 1 and 2 share a cluster, card 3 has    *)
(* one of its own.                                                         *)
(***************************************************************************)
EXTENDS NewsDelivery

PairAndSingle(n) == IF n <= 2 THEN 1 ELSE 2
=============================================================================
