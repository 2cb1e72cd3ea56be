---------------------------- MODULE MCBrainStore ----------------------------
(***************************************************************************)
(* The store on a small instance.  Agents are alike, and so are sessions:  *)
(* nothing but safety is checked, and no property tells them apart.        *)
(***************************************************************************)
EXTENDS BrainStore, TLC

Symmetry == Permutations(User) \cup Permutations(Session)
=============================================================================
