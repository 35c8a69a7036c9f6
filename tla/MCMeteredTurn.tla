---------------------------- MODULE MCMeteredTurn ----------------------------
(* Instances of the metered turn for the model checker. *)
EXTENDS MeteredTurn, TLC

TxSymmetry == Permutations(Tx)
=============================================================================
