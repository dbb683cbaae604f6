------------------------------ MODULE MCServices ------------------------------
(* Services with the plan of MCAlertChanges, a dual change, an ordinary one *)
(* and its rollback, and four missions in three lanes.                      *)
EXTENDS MCAlertChanges, Services

CONSTANTS drill, policy, undoPolicy, m1, m2, m3, m4
RestoresPolicy == undoPolicy :> policy
Lanes == (m1 :> "a") @@ (m2 :> "a") @@ (m3 :> "b") @@ (m4 :> "c")
=============================================================================
