------------------------------- MODULE MCAssign -------------------------------
(***************************************************************************)
(* An instance of Assign for TLC: four raiders with menus of up to two     *)
(* roles, and the templates under which four raiders meet every rule.      *)
(***************************************************************************)
EXTENDS Assign, TLC

MCMenus ==
  {"TANK" :> 1, "HEALER" :> 1, "MDPS" :> 1, "RDPS" :> 2,
   "TANK" :> 1 @@ "MDPS" :> 1, "TANK" :> 2 @@ "HEALER" :> 1,
   "MDPS" :> 2 @@ "RDPS" :> 1, "HEALER" :> 3 @@ "MDPS" :> 1}

Ask(tanks, healers, melee, ranged) ==
  [tanks |-> tanks, healers |-> healers, maxMelee |-> melee, maxRanged |-> ranged]

MCTemplates ==
  {Ask(NULL, NULL, NULL, NULL), Ask(2, 1, 1, NULL), Ask(2, 2, 0, 1), Ask(1, 3, 1, 0), Ask(-1, 7, NULL, -1)}
=============================================================================
