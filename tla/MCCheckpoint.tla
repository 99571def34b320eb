------------------------------ MODULE MCCheckpoint ------------------------------
(* Instances of Checkpoint.                                                *)
EXTENDS Checkpoint, TLC

KeySymmetry == Permutations(Key)
================================================================================
