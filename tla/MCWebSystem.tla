---------------------------- MODULE MCWebSystem ----------------------------
(* WebSystem with interchangeable server tasks.                            *)
EXTENDS WebSystem, TLC

Symmetry == Permutations(Tasks)
=============================================================================
