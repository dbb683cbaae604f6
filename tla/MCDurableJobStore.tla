--------------------------- MODULE MCDurableJobStore ---------------------------
(* DurableJobStore with small bounds.  The job ids are interchangeable. *)
EXTENDS DurableJobStore, TLC

JobSymmetry == Permutations(Jobs)
=============================================================================
