------------------------------ MODULE MCScheduler ------------------------------
(* Scheduler with small bounds: an agent task that occurs once, and a       *)
(* target's task that occurs twice and may be run by hand.                  *)
EXTENDS Scheduler, TLC

CONSTANTS t1, t2
Agents == {t1}
Ends == (t1 :> 1) @@ (t2 :> 2)
Limits == (t1 :> 1) @@ (t2 :> 3)
ByHand == (t1 :> 0) @@ (t2 :> 1)
=============================================================================
