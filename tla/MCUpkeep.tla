------------------------------ MODULE MCUpkeep ------------------------------
(* Instances of Upkeep.                                                      *)
EXTENDS Upkeep

CONSTANTS r1, r2

MCTasks == <<"drain", "backup">>
MCTaskOf == [r \in Caller |-> "backup"]
=============================================================================
