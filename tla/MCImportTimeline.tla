------------------------- MODULE MCImportTimeline -------------------------
(* A small instance of ImportTimeline: one console beside the workers of    *)
(* one job, whose rows are alike.                                           *)
EXTENDS ImportTimeline, TLC

AllRows == [j \in Jobs |-> Keys]

Symmetric == Permutations(Workers) \union Permutations(Keys)
=========================================================================
