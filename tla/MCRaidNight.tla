----------------------------- MODULE MCRaidNight -----------------------------
(***************************************************************************)
(* Instances of RaidNight for TLC.  The deadline falls on the start or     *)
(* before it, and an edit can move the start across the clock, also back   *)
(* in front of a request that has seen it pass.                            *)
(***************************************************************************)
EXTENDS RaidNight, TLC

MCSchedules == {[startsAt |-> 3, deadline |-> 0], [startsAt |-> 1, deadline |-> 1]}
MCShortNight == {[startsAt |-> 2, deadline |-> 0]}

Symmetry == Permutations(Callers) \union Permutations(Builders) \union Permutations(Comps)
              \union Permutations(Characters)
=============================================================================
