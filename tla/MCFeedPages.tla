---------------------------- MODULE MCFeedPages ----------------------------
(***************************************************************************)
(* An instance of FeedPages: an official card of yesterday that comes      *)
(* late, two of one instant, and one whose publisher has not agreed yet.   *)
(***************************************************************************)
EXTENDS FeedPages

Source(official, catalog, pending) ==
  [official |-> official, catalog |-> catalog, listed |-> TRUE, cleared |-> FALSE, pending |-> pending]

CardOf(c) ==
  CASE c = 1 -> [life |-> FALSE, when |-> 3, tag |-> "home", score |-> 6, verified |-> TRUE,
                 source |-> Source(TRUE, FALSE, FALSE)]
    [] c = 2 -> [life |-> TRUE, when |-> 4, tag |-> "money", score |-> 5, verified |-> FALSE,
                 source |-> Source(FALSE, TRUE, FALSE)]
    [] c = 3 -> [life |-> TRUE, when |-> 4, tag |-> "home", score |-> 5, verified |-> FALSE,
                 source |-> Source(FALSE, TRUE, FALSE)]
    [] c = 4 -> [life |-> TRUE, when |-> 5, tag |-> "home", score |-> 9, verified |-> FALSE,
                 source |-> Source(FALSE, TRUE, TRUE)]

StatusOf(c) == CASE c = 1 -> "none" [] c = 4 -> "needs_review" [] OTHER -> "published"
=============================================================================
