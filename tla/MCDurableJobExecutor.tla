-------------------------- MODULE MCDurableJobExecutor --------------------------
(* DurableJobExecutor with small bounds.  Replicas are interchangeable: the *)
(* replica of a run that is not granted yet is never read.                  *)
EXTENDS DurableJobExecutor, TLC

ProcSymmetry == Permutations(Procs)
=============================================================================
