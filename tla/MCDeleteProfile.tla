-------------------------- MODULE MCDeleteProfile --------------------------
EXTENDS DeleteProfile, TLC

(* The nodes other than the controller are interchangeable.                 *)
Symmetry == Permutations(Node \ {Controller})
============================================================================
