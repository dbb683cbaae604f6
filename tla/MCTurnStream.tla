------------------------------- MODULE MCTurnStream -------------------------------
(* TurnStream with small bounds: a turn with several batches and pages of   *)
(* events, and a second, short turn of the same chat.                       *)
EXTENDS TurnStream

OneTurn == <<6>>
TwoTurns == <<3, 0>>
=============================================================================
