---------------------------- MODULE MCTurnAdapter ----------------------------
(* The turn adapter with one session for all turns.                        *)
EXTENDS TurnAdapter

OneSession == [id \in TurnIds |-> "session"]
=============================================================================
