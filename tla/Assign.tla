-------------------------------- MODULE Assign --------------------------------
(***************************************************************************)
(* The auto-assigner (comp/comp.go Resolve, comp/assign.go Assign): how    *)
(* many of each role a night needs, then the greedy passes that seat the   *)
(* pool, a seat or a swap per step.                                        *)
(*                                                                         *)
(* Raiders are numbers in the order that breaks a tie of priority: mains   *)
(* first, then score, then signup time, then id.  A DPS seat is melee or   *)
(* ranged, and counts against that side's cap.                             *)
(***************************************************************************)
EXTENDS Integers, FiniteSets

CONSTANTS
  Raiders,     \* the pool
  Menus,       \* the role menus raiders may have (bound)
  Templates,   \* the comp_templates a raid lead may set (bound)
  NULL         \* a field the template leaves to the suggestion

Roles == {"TANK", "HEALER", "MDPS", "RDPS"}
Groups == {"TANK", "HEALER", "DPS"}
Modes == {"RAID_FLEX", "RAID_MYTHIC", "MYTHIC_PLUS"}
Bench == "BENCH"

ASSUME AssignAssumption ==
  /\ Raiders \subseteq Nat /\ IsFiniteSet(Raiders)
  /\ Menus \subseteq UNION {[S -> 1..3] : S \in SUBSET Roles}
  /\ NULL \notin Int
  /\ Templates \subseteq [tanks : Int \union {NULL}, healers : Int \union {NULL},
                          maxMelee : Int \union {NULL}, maxRanged : Int \union {NULL}]

VARIABLES
  menu,   \* each raider's roles, with the priority of each
  mode,   \* the event's
  need,   \* Needs: a count per group, a cap or none per side
  seat,   \* the role each raider is seated in, or the bench
  todo,   \* groups fillGroup has not been through
  swaps,  \* repairs made
  done

assignVars == <<menu, mode, need, seat, todo, swaps, done>>
input == <<menu, mode, need>>

GroupOf(role) == IF role \in {"MDPS", "RDPS"} THEN "DPS" ELSE role
Playable == {r \in Raiders : DOMAIN menu[r] # {}}

-----------------------------------------------------------------------------
(* What the night needs.                                                   *)

Least(a, b) == IF a < b THEN a ELSE b
Most(a, b) == IF a > b THEN a ELSE b

SizeFor(m, turnout) ==
  CASE m = "RAID_MYTHIC" -> 20
    [] m = "MYTHIC_PLUS" -> 5
    [] m = "RAID_FLEX" -> Most(10, Least(turnout, 30))

ResolveCount(override, suggested) == Most(0, IF override = NULL THEN suggested ELSE override)

ResolveCap(limit) == IF limit = NULL THEN NULL ELSE Most(0, limit)

\* Overrides stand, but for the size: tanks are trimmed to it, then healers to what
\* tanks leave, and DPS are the rest.
Resolve(tmpl, m, turnout) ==
  LET size == SizeFor(m, turnout)
      tanks == Least(size, ResolveCount(tmpl.tanks, IF m = "MYTHIC_PLUS" THEN 1 ELSE 2))
      healers == Least(size - tanks, ResolveCount(tmpl.healers, (size + 4) \div 5))
  IN [TANK |-> tanks, HEALER |-> healers, DPS |-> size - tanks - healers,
      maxMelee |-> ResolveCap(tmpl.maxMelee), maxRanged |-> ResolveCap(tmpl.maxRanged)]

-----------------------------------------------------------------------------
(* Placing one raider.                                                     *)

SeatedAs(role, s) == {r \in Raiders : s[r] = role}
SeatedIn(g, s) == {r \in Raiders : s[r] # Bench /\ GroupOf(s[r]) = g}

MenuFor(r, g) == {role \in DOMAIN menu[r] : GroupOf(role) = g}

Cap(role) == CASE role = "MDPS" -> need.maxMelee [] role = "RDPS" -> need.maxRanged [] OTHER -> NULL

\* MUTANT: a side that is exactly at its cap takes one more.
HasRoom_OneMore(role, s) == Cap(role) = NULL \/ Cardinality(SeatedAs(role, s)) <= Cap(role)

HasRoom(role, s) == Cap(role) = NULL \/ Cardinality(SeatedAs(role, s)) < Cap(role)

\* placeInGroup finds the raider a role of the group.
OpenTo(r, g, s) == {role \in MenuFor(r, g) : HasRoom(role, s)}

\* chooseDPSRole: the preferred of the open sides, melee on a tie.
RoleFor(r, g, s) ==
  CHOOSE role \in OpenTo(r, g, s) :
    \A other \in OpenTo(r, g, s) \ {role} :
      \/ menu[r][role] < menu[r][other]
      \/ menu[r][role] = menu[r][other] /\ role = "MDPS"

Place(r, g, s) == [s EXCEPT ![r] = RoleFor(r, g, s)]

\* groupPriority and lessCandidate.
RanksBefore(r, q, g) ==
  LET Ranks(x, y) == \E role \in MenuFor(x, g) : \A other \in MenuFor(y, g) : menu[x][role] < menu[y][other]
  IN Ranks(r, q) \/ (~Ranks(q, r) /\ r < q)

\* MUTANT: the ranking forgets the priority.
First_ByOrder(S, g) == CHOOSE r \in S : \A q \in S : r <= q

First(S, g) == CHOOSE r \in S : \A q \in S \ {r} : RanksBefore(r, q, g)

-----------------------------------------------------------------------------
AssignInit ==
  /\ menu \in [Raiders -> Menus]
  /\ mode \in Modes
  /\ \E tmpl \in Templates : need = Resolve(tmpl, mode, Cardinality(Playable))
  /\ seat = [r \in Raiders |-> Bench]
  /\ todo = Groups
  /\ swaps = 0
  /\ done = FALSE

GroupOrder(g) == CASE g = "TANK" -> 0 [] g = "HEALER" -> 1 [] g = "DPS" -> 2

\* The group of ascending need whose turn it is.
Current ==
  CHOOSE g \in todo : \A h \in todo \ {g} :
    need[g] < need[h] \/ (need[g] = need[h] /\ GroupOrder(g) < GroupOrder(h))

Short(g) == Cardinality(SeatedIn(g, seat)) < need[g]

Unseated(g, s) == {r \in Raiders : s[r] = Bench /\ OpenTo(r, g, s) # {}}

\* MUTANT: fillGroup stops at the first raider it cannot place.
Takers_UpToCapped(g) ==
  LET eligible == {r \in Raiders : seat[r] = Bench /\ MenuFor(r, g) # {}}
  IN {r \in Unseated(g, seat) : r = First(eligible, g)}

\* Whom fillGroup can still place: it passes over a raider whose sides are full.
Takers(g) == Unseated(g, seat)

\* fillGroup takes the best-ranked of them.
FillSeat ==
  /\ todo # {}
  /\ Short(Current)
  /\ Takers(Current) # {}
  /\ seat' = Place(First(Takers(Current), Current), Current, seat)
  /\ UNCHANGED <<input, todo, swaps, done>>

FillNext ==
  /\ todo # {}
  /\ ~Short(Current) \/ Takers(Current) = {}
  /\ todo' = todo \ {Current}
  /\ UNCHANGED <<input, seat, swaps, done>>

\* The board once m has moved into g.
Moved(m, g) == Place(m, g, [seat EXCEPT ![m] = Bench])

\* Those who could fill the seat m leaves.
Backfill(m, g) == Unseated(GroupOf(seat[m]), Moved(m, g))

\* MUTANT: the vacancy is left open.
CanMove_NoBackfill(m, g) ==
  /\ seat[m] # Bench /\ GroupOf(seat[m]) # g
  /\ OpenTo(m, g, [seat EXCEPT ![m] = Bench]) # {}

\* m is seated elsewhere, fits g, and leaves a seat somebody on the bench can take.
CanMove(m, g) ==
  /\ seat[m] # Bench /\ GroupOf(seat[m]) # g
  /\ OpenTo(m, g, [seat EXCEPT ![m] = Bench]) # {}
  /\ Backfill(m, g) # {}

Movable(g) == {m \in Raiders : CanMove(m, g)}
Repairable(g) == Short(g) /\ Movable(g) # {}

\* trySwapInto, for the first short group it helps.
Repair ==
  /\ todo = {} /\ ~done
  /\ swaps < Cardinality(Playable)
  /\ \E g \in Groups :
       /\ Repairable(g)
       /\ \A h \in Groups : GroupOrder(h) < GroupOrder(g) => ~Repairable(h)
       /\ LET m == First(Movable(g), g)
              from == GroupOf(seat[m])
          IN seat' = IF Backfill(m, g) = {} THEN Moved(m, g)
                     ELSE Place(First(Backfill(m, g), from), from, Moved(m, g))
  /\ swaps' = swaps + 1
  /\ UNCHANGED <<input, todo, done>>

\* No group can be helped: what is left is the bench.
Finish ==
  /\ todo = {} /\ ~done
  /\ swaps = Cardinality(Playable) \/ \A g \in Groups : ~Repairable(g)
  /\ done' = TRUE
  /\ UNCHANGED <<input, seat, todo, swaps>>

AssignNext == FillSeat \/ FillNext \/ Repair \/ Finish

AssignSpec == AssignInit /\ [][AssignNext]_assignVars

-----------------------------------------------------------------------------
(* Properties.                                                             *)

AssignTypeOK ==
  /\ menu \in [Raiders -> Menus]
  /\ mode \in Modes
  /\ need \in [TANK : Nat, HEALER : Nat, DPS : Nat,
               maxMelee : Nat \union {NULL}, maxRanged : Nat \union {NULL}]
  /\ seat \in [Raiders -> Roles \union {Bench}]
  /\ todo \subseteq Groups
  /\ swaps \in 0..Cardinality(Raiders)
  /\ done \in BOOLEAN

\* However passes and repairs seat them, everyone seated plays a role of their menu, no
\* group is over its need and no side over its cap, and the raid is not over its size.
WithinLimits ==
  /\ \A r \in Raiders : seat[r] # Bench => seat[r] \in DOMAIN menu[r]
  /\ \A g \in Groups : Cardinality(SeatedIn(g, seat)) <= need[g]
  /\ \A role \in Roles : Cap(role) # NULL => Cardinality(SeatedAs(role, seat)) <= Cap(role)
  /\ need["TANK"] + need["HEALER"] + need["DPS"] = SizeFor(mode, Cardinality(Playable))

\* A repair fills a seat of a short group and opens none elsewhere: the swap is made only
\* with a backfill, "so a fix here cannot create a new shortage" (assign.go, pass 3).
RepairOnlyHelps ==
  [][ swaps' # swaps =>
        /\ \A g \in Groups : Cardinality(SeatedIn(g, seat')) >= Cardinality(SeatedIn(g, seat))
        /\ \E g \in Groups : Short(g) /\ Cardinality(SeatedIn(g, seat')) > Cardinality(SeatedIn(g, seat)) ]_assignVars

\* Nobody sits on the bench for a raider of a lower rank: whoever holds a role the
\* benched raider could have played ranks before them in that group.
BenchedForABetter ==
  done => \A r \in Playable, q \in Raiders :
    seat[r] = Bench /\ seat[q] \in DOMAIN menu[r] => RanksBefore(q, r, GroupOf(seat[q]))

\* A raider is benched for want of an open role ("BENCH: no open role", assign.go): no
\* group is short of somebody the bench holds and its caps admit.
NoSeatIdle ==
  done => \A g \in Groups : Short(g) => Unseated(g, seat) = {}

=============================================================================
