----------------------------- MODULE MCCancelTree -----------------------------
(* Instances of CancelTree for TLC: the objects are interchangeable.       *)
EXTENDS CancelTree, TLC

MCSymmetry == Permutations(Cancels) \cup Permutations(Connections)
=============================================================================
