----------------------------- MODULE MCAlertChanges -----------------------------
(* AlertChanges with one plan: a resource group, an action group in it and  *)
(* a rule in another group; the rule may be rolled back.                    *)
EXTENDS AlertChanges, TLC

CONSTANTS rg, ag, rule, undo
Kinds == (rg :> "resource_group") @@ (ag :> "action_group") @@ (rule :> "rule")
Graph == (rg :> {}) @@ (ag :> {rg}) @@ (rule :> {ag})
Ranks == (rg :> 0) @@ (ag :> 1) @@ (rule :> 2) @@ (undo :> 3)
Selected == {{rule}, {rg, ag, rule}}
RolledBack == undo :> rule
=============================================================================
