------------------------------- MODULE Roster -------------------------------
(***************************************************************************)
(* One raider's characters (internal/roster/character.go, store.go, with   *)
(* their handlers in api/characters.go): registering, moving the main      *)
(* flag, replacing a role menu, deleting.                                  *)
(*                                                                         *)
(* Here the transactions themselves race, so a step is half a statement:   *)
(* what its snapshot saw, and what it then found when every row lock and   *)
(* index entry it had to wait for was settled (READ COMMITTED looks again  *)
(* at a row it waited for, and at no other).  A statement that must wait   *)
(* is not enabled; one the database refuses ends its transaction.          *)
(***************************************************************************)
EXTENDS Integers, FiniteSets

CONSTANTS
  Characters,  \* ids characters are given
  Clients,     \* requests in flight (bound)
  Roles,       \* tank, healer, dps
  MaxPuts,     \* menus ever submitted (bound)
  NoOne        \* the character of an idle client

ASSUME RosterAssumption == MaxPuts \in Nat /\ NoOne \notin Characters

VARIABLES
  rows,       \* characters, as committed
  used,       \* ids given out
  main,       \* the rows with is_main
  menu,       \* character_roles: each role with the submission that inserted it
  tx,         \* each client's open transaction
  submitted,  \* the menus asked for, by submission
  raised,     \* history: what kind of transaction last set a main
  crossed     \* history: characters whose menu changed under a replacement that had looked

vars == <<rows, used, main, menu, tx, submitted, raised, crossed>>

Idle == [at |-> "idle", char |-> NoOne]

\* seen: what the running statement's snapshot showed.  cleared, lifted: the rows whose
\* is_main this transaction has set to false or true.
FlagTx ==
  [at : {"asked", "clearing", "setting", "demoting", "creating", "inserting", "done"},
   kind : {"promote", "demote", "register"}, char : Characters, want : BOOLEAN,
   seen : SUBSET Characters, cleared : SUBSET Characters, lifted : SUBSET Characters]

Entries == Roles \X (1..MaxPuts)

MenuTx ==
  [at : {"replacing", "dropping", "adding"}, kind : {"menu"}, char : Characters, put : 1..MaxPuts,
   seen : SUBSET Entries, dropped : SUBSET Entries, kept : SUBSET Entries, added : SUBSET Entries]

TypeOK ==
  /\ rows \subseteq used /\ used \subseteq Characters
  /\ main \subseteq rows
  /\ Cardinality(main) <= 1
  /\ menu \in [Characters -> SUBSET Entries]
  /\ \A c \in Characters : menu[c] # {} => c \in rows
  /\ tx \in [Clients -> {Idle} \union FlagTx \union MenuTx]
  /\ submitted \in [1..Cardinality(DOMAIN submitted) -> SUBSET Roles]
  /\ raised \in {"none", "promote", "register"}
  /\ crossed \subseteq Characters

Init ==
  /\ rows = {} /\ used = {} /\ main = {}
  /\ menu = [c \in Characters |-> {}]
  /\ tx = [t \in Clients |-> Idle]
  /\ submitted = [n \in {} |-> {}]
  /\ raised = "none"
  /\ crossed = {}

table == <<rows, used, main, menu>>
history == <<submitted, raised, crossed>>

-----------------------------------------------------------------------------
(* Who waits for whom.                                                     *)

Flags(t) == tx[t].at # "idle" /\ tx[t].kind # "menu"
Menus(t) == tx[t].at # "idle" /\ tx[t].kind = "menu"
Others(t) == Clients \ {t}

\* Another open transaction has written the row's is_main.
Locked(t, c) == \E u \in Others(t) : Flags(u) /\ c \in tx[u].cleared \union tx[u].lifted

\* Rows that stand in the way of lifting c in characters_one_main_per_user.
Rivals(t, c) ==
  (main \ (tx[t].cleared \union {c}))
    \union ((UNION {tx[u].lifted : u \in {v \in Others(t) : Flags(v)}}) \ {c})

Settled(t, c) == \A r \in Rivals(t, c) : ~Locked(t, r)

Step(t, state) == tx' = [tx EXCEPT ![t] = state]

\* MUTANT: the statements run in no transaction, so what was cleared stays cleared.
Abort_KeepsCleared(t) ==
  /\ Step(t, Idle)
  /\ main' = main \ (IF Flags(t) THEN tx[t].cleared ELSE {})
  /\ UNCHANGED <<rows, used, menu, history>>

\* The transaction rolls back.
Abort(t) == Step(t, Idle) /\ UNCHANGED <<table, history>>

Begin(t, at, kind, c, want) ==
  /\ tx[t] = Idle
  /\ Step(t, [at |-> at, kind |-> kind, char |-> c, want |-> want,
              seen |-> {}, cleared |-> {}, lifted |-> {}])

-----------------------------------------------------------------------------
(* Registering.                                                            *)

\* MUTANT: an existing user's row is left alone, and so is not locked.
UserLocked_Never(t) == FALSE

\* UpsertUser's DO UPDATE writes the user's row, which the next registration waits for.
UserLocked(t) == \E u \in Others(t) : tx[u].at # "idle" /\ tx[u].kind = "register"

RegisterBegin(t, c, want) ==
  /\ c \notin used
  /\ ~UserLocked(t)
  /\ used' = used \union {c}
  /\ Begin(t, "creating", "register", c, want)
  /\ UNCHANGED <<rows, main, menu, history>>

\* CreateCharacter's snapshot: is_main is granted only while the raider has none.
CreateSees(t) ==
  /\ tx[t].at = "creating"
  /\ Step(t, [tx[t] EXCEPT !.at = "inserting", !.want = @ /\ main = {}])
  /\ UNCHANGED <<table, history>>

CreateDoes(t) ==
  /\ tx[t].at = "inserting"
  /\ tx[t].want => Settled(t, tx[t].char) /\ Rivals(t, tx[t].char) = {}
  /\ Step(t, [tx[t] EXCEPT !.at = "done", !.lifted = IF tx[t].want THEN {tx[t].char} ELSE {}])
  /\ UNCHANGED <<table, history>>

\* The index has another main by now.
CreateFails(t) ==
  /\ tx[t].at = "inserting"
  /\ tx[t].want
  /\ Settled(t, tx[t].char) /\ Rivals(t, tx[t].char) # {}
  /\ Abort(t)

-----------------------------------------------------------------------------
(* Moving the main flag.                                                   *)

\* The handler has found the character in the guild, and the caller entitled to it.
SetMainBegin(t, c, isMain) ==
  /\ c \in rows
  /\ IF isMain THEN Begin(t, "asked", "promote", c, TRUE)
               ELSE Begin(t, "demoting", "demote", c, FALSE)
  /\ UNCHANGED <<table, history>>

\* ClearMainForCharacterOwner's snapshot; a character gone meanwhile has no owner.
ClearSees(t) ==
  /\ tx[t].at = "asked"
  /\ Step(t, [tx[t] EXCEPT !.at = "clearing", !.seen = IF tx[t].char \in rows THEN main ELSE {}])
  /\ UNCHANGED <<table, history>>

ClearDoes(t) ==
  /\ tx[t].at = "clearing"
  /\ \A m \in tx[t].seen : ~Locked(t, m)
  /\ Step(t, [tx[t] EXCEPT !.at = "setting", !.seen = {}, !.cleared = tx[t].seen \intersect main])
  /\ UNCHANGED <<table, history>>

\* The rows an UPDATE by id meets.
Met(c) == {c} \intersect rows

\* SetCharacterMain.  A character gone meanwhile is no error: what was cleared commits.
SetDoes(t) ==
  LET c == tx[t].char
  IN /\ tx[t].at = "setting"
     /\ ~Locked(t, c)
     /\ c \in rows => Settled(t, c) /\ Rivals(t, c) = {}
     /\ Step(t, [tx[t] EXCEPT !.at = "done", !.lifted = Met(c)])
     /\ UNCHANGED <<table, history>>

\* Another main was committed since the clearing looked.
SetFails(t) ==
  LET c == tx[t].char
  IN /\ tx[t].at = "setting"
     /\ ~Locked(t, c)
     /\ c \in rows /\ Settled(t, c) /\ Rivals(t, c) # {}
     /\ Abort(t)

\* Giving up a main names no replacement: one statement.
DemoteDoes(t) ==
  /\ tx[t].at = "demoting"
  /\ ~Locked(t, tx[t].char)
  /\ Step(t, [tx[t] EXCEPT !.at = "done", !.cleared = Met(tx[t].char)])
  /\ UNCHANGED <<table, history>>

FlagCommit(t) ==
  /\ tx[t].at = "done"
  /\ rows' = IF tx[t].kind = "register" THEN rows \union {tx[t].char} ELSE rows
  /\ main' = (main \ tx[t].cleared) \union tx[t].lifted
  /\ raised' = IF tx[t].lifted # {} THEN tx[t].kind ELSE raised
  /\ Step(t, Idle)
  /\ UNCHANGED <<used, menu, submitted, crossed>>

-----------------------------------------------------------------------------
(* Role menus.                                                             *)

\* An open menu transaction of the same character has its hands on these entries.
Held(t, entries) ==
  \E u \in Others(t) :
    Menus(u) /\ tx[u].char = tx[t].char /\ entries \intersect (tx[u].dropped \union tx[u].kept) # {}

\* PUT .../roles by the owner.
PutRoles(t, c, roles) ==
  LET n == Cardinality(DOMAIN submitted) + 1
  IN /\ tx[t] = Idle
     /\ c \in rows
     /\ n <= MaxPuts
     /\ submitted' = [m \in 1..n |-> IF m = n THEN roles ELSE submitted[m]]
     /\ Step(t, [at |-> "replacing", kind |-> "menu", char |-> c, put |-> n,
                 seen |-> {}, dropped |-> {}, kept |-> {}, added |-> {}])
     /\ UNCHANGED <<table, raised, crossed>>

\* DeleteCharacterRoles' snapshot.
DropSees(t) ==
  /\ tx[t].at = "replacing"
  /\ Step(t, [tx[t] EXCEPT !.at = "dropping", !.seen = menu[tx[t].char]])
  /\ UNCHANGED <<table, history>>

\* MUTANT: the upserts run over the old menu.
Droppable_None(t) == {}

\* Of the entries it saw, those still there; an entry inserted since is not looked at.
Droppable(t) == tx[t].seen \intersect menu[tx[t].char]

DropDoes(t) ==
  /\ tx[t].at = "dropping"
  /\ ~Held(t, tx[t].seen)
  /\ Step(t, [tx[t] EXCEPT !.at = "adding", !.seen = {}, !.dropped = Droppable(t)])
  /\ UNCHANGED <<table, history>>

\* Roles this transaction has yet to write.
Missing(t) == submitted[tx[t].put] \ {e[1] : e \in tx[t].kept \union tx[t].added}

\* SetCharacterRole: inserts, or takes over the entry another submission committed; one
\* that is being inserted or dropped elsewhere is waited for.
AddRole(t, role) ==
  LET there == {e \in menu[tx[t].char] \ tx[t].dropped : e[1] = role}
  IN /\ tx[t].at = "adding"
     /\ tx[t].char \in rows
     /\ role \in Missing(t)
     /\ ~Held(t, there)
     /\ \A u \in Others(t) :
          Menus(u) /\ tx[u].char = tx[t].char => \A e \in tx[u].added : e[1] # role
     /\ Step(t, IF there = {} THEN [tx[t] EXCEPT !.added = @ \union {<<role, tx[t].put>>}]
                              ELSE [tx[t] EXCEPT !.kept = @ \union there])
     /\ UNCHANGED <<table, history>>

MenuCommit(t) ==
  LET c == tx[t].char
  IN /\ tx[t].at = "adding"
     /\ Missing(t) = {}
     /\ menu' = [menu EXCEPT ![c] = (@ \ tx[t].dropped) \union tx[t].added]
     /\ crossed' = IF \E u \in Others(t) : tx[u].char = c /\ tx[u].at \in {"dropping", "adding"}
                   THEN crossed \union {c} ELSE crossed
     /\ Step(t, Idle)
     /\ UNCHANGED <<rows, used, main, submitted, raised>>

-----------------------------------------------------------------------------
(* Deleting, and what can stop a transaction.                              *)

\* One statement, and the cascade: it waits for whoever has written the row, or has
\* inserted a role that refers to it.
DeleteCharacter(c) ==
  /\ c \in rows
  /\ \A t \in Clients :
       /\ Flags(t) => c \notin tx[t].cleared \union tx[t].lifted
       /\ Menus(t) /\ tx[t].char = c => tx[t].dropped \union tx[t].kept \union tx[t].added = {}
  /\ rows' = rows \ {c}
  /\ main' = main \ {c}
  /\ menu' = [menu EXCEPT ![c] = {}]
  /\ UNCHANGED <<used, tx, history>>

\* A lost connection, a refused role, a deadlock the database breaks.
TxAborts(t) == tx[t] # Idle /\ Abort(t)

Next ==
  \/ \E t \in Clients :
       \/ \E c \in Characters, b \in BOOLEAN : RegisterBegin(t, c, b) \/ SetMainBegin(t, c, b)
       \/ CreateSees(t) \/ CreateDoes(t) \/ CreateFails(t)
       \/ ClearSees(t) \/ ClearDoes(t) \/ SetDoes(t) \/ SetFails(t)
       \/ DemoteDoes(t) \/ FlagCommit(t)
       \/ \E c \in Characters, roles \in SUBSET Roles : PutRoles(t, c, roles)
       \/ DropSees(t) \/ DropDoes(t) \/ MenuCommit(t)
       \/ \E role \in Roles : AddRole(t, role)
       \/ TxAborts(t)
  \/ \E c \in Characters : DeleteCharacter(c)

Spec == Init /\ [][Next]_vars

-----------------------------------------------------------------------------
(* Properties.                                                             *)

\* A raider loses the last main only by giving it up or deleting the character, or when
\* the one being promoted is deleted between the two statements: a promotion that fails,
\* wherever it fails, takes back its clearing (SetCharacterMain's transaction).
Forfeits(t) == tx[t].kind = "demote" \/ (tx[t].kind = "promote" /\ tx[t].char \notin rows)

KeepsAMain ==
  [][ main # {} /\ main' = {} =>
        rows' # rows \/ \E t \in Clients : tx[t] # Idle /\ tx'[t] = Idle /\ Forfeits(t) ]_vars

\* Asking for the main flag on every registration is safe (createCharacterRequest): two
\* registrations never meet in the index, because the second waits for the user's row
\* before it looks.  Only a promotion under way can make one fail.
RegistrationsNeverCollide ==
  \A t \in Clients :
    tx[t].at = "inserting" /\ tx[t].want /\ main # {} => raised = "promote"

\* A stored menu is one submission of the raider's, whole (ReplaceCharacterRoles), unless
\* one was committed while another had looked at the old menu and not replaced it yet.
MenuIsOneSubmission ==
  \A c \in Characters \ crossed :
    menu[c] # {} => \E n \in DOMAIN submitted : {e[1] : e \in menu[c]} = submitted[n]
=============================================================================
