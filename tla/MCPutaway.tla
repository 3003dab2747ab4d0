-------------------------------- MODULE MCPutaway --------------------------------
(* Instances of Putaway for TLC. *)
EXTENDS Putaway, TLC

MCMoves == {-1, 1}

================================================================================
