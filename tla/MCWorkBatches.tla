------------------------------ MODULE MCWorkBatches ------------------------------
(* WorkBatches with small bounds: a batch of two items on one connection    *)
(* and a batch of one item on another; or one batch of four items, the      *)
(* first three on the same connection.                                      *)
EXTENDS WorkBatches, TLC

TwoBatches == <<1, 1, 2>>
TwoLanes == <<"A", "A", "B">>
OneBatch == <<1, 1, 1, 1>>
ThreeAndOne == <<"A", "A", "A", "B">>
PlainFeatures == <<{"nightly"}, {"mission"}>>
OneFeature == <<{"mission"}>>
AllFeatures == <<{"mission", "inventory_cost"}, {"inventory_cost"}>>
Limits == [nightly |-> 1, mission |-> 2, inventory_cost |-> 1]
WorkerSymmetry == Permutations(Workers)
=============================================================================
