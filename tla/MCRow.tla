------------------------------- MODULE MCRow -------------------------------
(* PoolRow with p = 4 and DELTA = 4: masks, inputs and pads at and around  *)
(* the wraps and ties.                                                     *)
EXTENDS PoolRow

MCInputs  == {0, 5, 11, 15}
MCMasks   == {0, 1, 15}
MCPadRows == {[j \in Zdelta |-> (3 * j + 2) % P]}
=============================================================================
