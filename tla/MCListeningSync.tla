--------------------------- MODULE MCListeningSync ---------------------------
(***************************************************************************)
(* An instance of ListeningSync: a device that two readers share, and one  *)
(* where the first stays signed in.                                        *)
(***************************************************************************)
EXTENDS ListeningSync

CONSTANTS alice, bob, shared, private, n1, n2, n3

Signing(d) == IF d = shared THEN {alice, bob} ELSE {}
SignedIn(d) == alice
Handled(d) == IF d = shared THEN {n1, n3} ELSE {n2}
Both == [items |-> <<NewItem(n1, Guest), NewItem(n2, Guest)>>,
         current |-> n1, auto |-> TRUE, at |-> 1]
First == [items |-> <<NewItem(n1, alice)>>, current |-> None, auto |-> FALSE, at |-> 1]
BothOrFirst(d) == {IF d = shared THEN Both ELSE First}
=============================================================================
