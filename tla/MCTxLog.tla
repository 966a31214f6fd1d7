------------------------------ MODULE MCTxLog ------------------------------
(* TxLog on small instances; the configurations give the constants. *)
EXTENDS TxLog, TLC

SessionSymmetry == Permutations(Sessions)
=============================================================================
