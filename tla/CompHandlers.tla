---------------------------- MODULE CompHandlers ----------------------------
(***************************************************************************)
(* internal/comp: locking a comp from the current signups, saving a hand-  *)
(* built board, converting and renaming comps.  Lock takes three separate  *)
(* trips to the database: the comp's mode, the assignment pool, and the    *)
(* transaction that replaces the board.                                    *)
(***************************************************************************)
EXTENDS Sheet

CONSTANTS
  Builders,   \* concurrent comp requests, all raid leads' (bound)
  NoComp      \* the comp of an idle builder

ASSUME BuilderAssumption == NoComp \notin Comps

VARIABLE build  \* what each builder has read and not yet committed

Resting == [at |-> "idle", comp |-> NoComp, pool |-> {}, into |-> NoComp]

Build ==
  {Resting}
    \union [at : {"pool", "lock", "save"}, comp : Comps, pool : SUBSET Characters, into : {NoComp}]
    \union [at : {"rename"}, comp : Comps, pool : {{}}, into : Comps]

CompTypeOK == build \in [Builders -> Build]
CompInit == build = [b \in Builders |-> Resting]

Turn(b, state) == build' = [build EXCEPT ![b] = state]

Reads(b, state) ==
  /\ Turn(b, state)
  /\ queued' = {}
  /\ UNCHANGED <<now, alive, event, answer, assigned, request, mode, seats>>

-----------------------------------------------------------------------------
(* Boards.                                                                 *)

\* What an assignment may say of one character: no seat, or a role, on the
\* bench or not.  Which of them Assign picks is the algorithm's own business.
Placement == {NONE} \union (Roles \X BOOLEAN)

\* Everyone drawn from the pool at most once; a raider without roles gets no slot.
Boards(pool) == [pool -> Placement]

Slots(k, board, reason) ==
  {[comp |-> k, char |-> c, role |-> board[c][1], bench |-> board[c][2], reason |-> reason] :
     c \in {d \in DOMAIN board : board[d] # NONE}}

BoardOf(k) == {x \in seats : x.comp = k}

-----------------------------------------------------------------------------
(* ReplaceComp, the one transaction behind Lock and Save.                  *)

\* UpsertComp: an existing comp keeps its mode.
ModeAfterUpsert(k, m) == IF mode[k] = NONE THEN m ELSE mode[k]

\* ClearAssignedRoles over the whole event, then SetSignupAssignedRole for each
\* seat that is not on the bench; without a signup row the update meets nothing.
RolesAfter(slots) ==
  [c \in Characters |->
     IF answer[c] # NONE /\ \E x \in slots : x.char = c /\ ~x.bench
     THEN (CHOOSE x \in slots : x.char = c).role
     ELSE NONE]

ReplaceComp(k, m, board) ==
  LET slots == Slots(k, board, m)
  IN /\ mode' = [mode EXCEPT ![k] = ModeAfterUpsert(k, m)]
     /\ seats' = (seats \ BoardOf(k)) \union slots
     /\ assigned' = RolesAfter(slots)
     /\ queued' = Redraw("COMP_CHANGED", event.seen)
     /\ UNCHANGED <<now, alive, event, answer, request>>

-----------------------------------------------------------------------------
(* Lock.                                                                   *)

\* MUTANT: a manual comp is recomputed like any other.
NotManual_Unchecked(k) == TRUE

\* Anything but ErrCompIsManual; a comp never written is the assigner's to make.
NotManual(k) == mode[k] # "MANUAL"

LockReadsMode(b, k) ==
  /\ build[b] = Resting
  /\ alive
  /\ NotManual(k)
  /\ Reads(b, [at |-> "pool", comp |-> k, pool |-> {}, into |-> NoComp])

LockReadsPool(b) ==
  /\ build[b].at = "pool"
  /\ alive
  /\ Reads(b, [at |-> "lock", comp |-> build[b].comp, pool |-> AssignmentPool, into |-> NoComp])

LockCommit(b) ==
  /\ build[b].at = "lock"
  /\ alive
  /\ \E board \in Boards(build[b].pool) : ReplaceComp(build[b].comp, "AUTO", board)
  /\ Turn(b, Resting)

-----------------------------------------------------------------------------
(* Save, SetMode and Rename.                                               *)

\* An AUTO comp is refused rather than converted.
SaveBegin(b, k) ==
  /\ build[b] = Resting
  /\ alive
  /\ mode[k] # "AUTO"
  /\ Reads(b, [at |-> "save", comp |-> k, pool |-> {}, into |-> NoComp])

\* Nothing checks that the characters placed have signed up.
SaveCommit(b) ==
  /\ build[b].at = "save"
  /\ alive
  /\ \E board \in Boards(Characters) : ReplaceComp(build[b].comp, "MANUAL", board)
  /\ Turn(b, Resting)

\* One UPDATE, with the slots left alone; a comp that is not there is no error.
SetMode(b, k, m) ==
  /\ build[b] = Resting
  /\ alive
  /\ mode' = IF mode[k] = NONE THEN mode ELSE [mode EXCEPT ![k] = m]
  /\ queued' = Redraw("COMP_CHANGED", event.seen)
  /\ UNCHANGED <<now, alive, event, answer, assigned, request, seats, build>>

RenameBegin(b, k, into) ==
  /\ build[b] = Resting
  /\ alive
  /\ mode[k] # NONE
  /\ into # k
  /\ Reads(b, [at |-> "rename", comp |-> k, pool |-> {}, into |-> into])

\* MUTANT: a name already in use is taken over.
NameFree_Unchecked(k, into) == TRUE

\* A taken name aborts (ErrCompNameTaken), unless there is nothing left to rename.
NameFree(k, into) == mode[k] # NONE => mode[into] = NONE

\* ON UPDATE CASCADE takes the slots along; a comp that has gone meanwhile renames nothing.
RenameCommit(b) ==
  LET k == build[b].comp  into == build[b].into
  IN /\ build[b].at = "rename"
     /\ alive
     /\ NameFree(k, into)
     /\ mode' = IF mode[k] = NONE THEN mode
                ELSE [mode EXCEPT ![into] = mode[k], ![k] = NONE]
     /\ seats' = {IF x.comp = k THEN [x EXCEPT !.comp = into] ELSE x : x \in seats}
     /\ queued' = Redraw("COMP_CHANGED", event.seen)
     /\ Turn(b, Resting)
     /\ UNCHANGED <<now, alive, event, answer, assigned, request>>

\* As CallAborts.
BuildAborts(b) ==
  /\ build[b] # Resting
  /\ Reads(b, Resting)

CompNext ==
  \E b \in Builders :
    \/ \E k \in Comps : LockReadsMode(b, k) \/ SaveBegin(b, k)
    \/ LockReadsPool(b)
    \/ LockCommit(b)
    \/ SaveCommit(b)
    \/ \E k \in Comps, m \in {"AUTO", "MANUAL"} : SetMode(b, k, m)
    \/ \E k, into \in Comps : RenameBegin(b, k, into)
    \/ RenameCommit(b)
    \/ BuildAborts(b)
=============================================================================
