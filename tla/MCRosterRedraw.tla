---------------------------- MODULE MCRosterRedraw ----------------------------
(***************************************************************************)
(* Instances of RosterRedraw for TLC.                                      *)
(***************************************************************************)
EXTENDS RosterRedraw, TLC

Symmetry == Permutations(Workers) \union Permutations(Bots) \union Permutations(Characters)
=============================================================================
