-------------------------- MODULE MCImportJobs --------------------------
(* Small instances of ImportJobs: every job carries every key, so that two *)
(* jobs always compete for their rows.                                     *)
EXTENDS ImportJobs, TLC

AllRows == [j \in Jobs |-> Keys]

Symmetric ==
    Permutations(Workers) \union Permutations(Publishers) \union Permutations(Jobs)
=========================================================================
