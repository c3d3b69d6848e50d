------------------------------ MODULE MCMiner ------------------------------
(* Small instances of MinerProps for TLC. *)
EXTENDS MinerProps, TLC
WorkerSymmetry == Permutations(Workers)
=============================================================================
