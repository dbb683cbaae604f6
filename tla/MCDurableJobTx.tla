------------------------------ MODULE MCDurableJobTx ------------------------------
(* DurableJobTx with small bounds. No symmetry: a temporal property is checked. *)
EXTENDS DurableJobTx
=============================================================================
