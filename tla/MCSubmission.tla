---------------------------- MODULE MCSubmission ----------------------------
(* A small instance of Submission.                                          *)
EXTENDS Submission, TLC

Symmetric ==
    Permutations(Jobs) \union Permutations(Keys)
        \union Permutations(Contents) \union Permutations(Threads)
=============================================================================
