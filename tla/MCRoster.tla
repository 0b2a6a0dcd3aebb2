------------------------------ MODULE MCRoster ------------------------------
(***************************************************************************)
(* Instances of Roster for TLC.                                            *)
(***************************************************************************)
EXTENDS Roster, TLC

Symmetry == Permutations(Characters) \union Permutations(Clients) \union Permutations(Roles)
=============================================================================
