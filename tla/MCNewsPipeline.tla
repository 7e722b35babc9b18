--------------------------- MODULE MCNewsPipeline ---------------------------
(***************************************************************************)
(* Instances of NewsPipeline: entries named by number, odd and even ones   *)
(* telling two different stories, or all telling the same one.             *)
(***************************************************************************)
EXTENDS NewsPipeline, Integers, TLC

SameStory(r) == 1
TwoStories(r) == r % 2

\* Runs are interchangeable; used by runs without liveness properties only.
RunSymmetry == Permutations(Runs)
=============================================================================
