---------------------------- MODULE MCLibrarySync ----------------------------
(***************************************************************************)
(* Instances of LibrarySync: two accounts share one device, and one of     *)
(* them has a device of its own.                                           *)
(***************************************************************************)
EXTENDS LibrarySync

CONSTANTS shared, private, alice, bob

OwnAndShared(d) == IF d = private THEN {alice} ELSE {alice, bob}
HereOrAlice(d) == IF d = private THEN {alice} ELSE {alice, None}
OneTick == [k \in Marks |-> 1]
=============================================================================
