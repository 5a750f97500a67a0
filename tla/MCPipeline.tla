----------------------------- MODULE MCPipeline -----------------------------
(* Small instances of Pipeline.                                             *)
EXTENDS Pipeline, TLC

CONSTANTS x, bad

(* No rows, a row that passes alone but not in two files, an invalid row.   *)
SomeContents == {{}, {x}, {bad}}

Symmetric == Permutations(Runs) \union Permutations(Files)
=============================================================================
