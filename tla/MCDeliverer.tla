----------------------------- MODULE MCDeliverer -----------------------------
(* Small instances of Deliverer for TLC.                                   *)
EXTENDS Deliverer, TLC

Symmetry == Permutations(Workers)

AllKinds == Kinds
=============================================================================
