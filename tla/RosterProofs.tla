----------------------------- MODULE RosterProofs -----------------------------
(***************************************************************************)
(* Proofs, for any number of clients, characters, roles and menus, that a  *)
(* raider has at most one main and keeps one unless it is given up, that   *)
(* registrations do not collide, and that a stored role menu is one        *)
(* submission.                                                             *)
(***************************************************************************)
EXTENDS Roster, FiniteSetTheorems, TLAPS

-----------------------------------------------------------------------------
(* The invariant.                                                          *)

Rows ==
  /\ rows \subseteq used /\ used \subseteq Characters
  /\ main \subseteq rows
  /\ menu \in [Characters -> SUBSET Entries]
  /\ \A c \in Characters : menu[c] # {} => c \in rows
  /\ tx \in [Clients -> {Idle} \union FlagTx \union MenuTx]
  /\ raised \in {"none", "promote", "register"}
  /\ crossed \subseteq Characters

\* Submissions are numbered as they come.
Numbered == \E n \in 0..MaxPuts : submitted \in [1..n -> SUBSET Roles]

OneMain == \A m, n \in main : m = n

Registering(r) == r \in FlagTx /\ r.kind = "register"
Lifting(r) == r \in FlagTx /\ r.lifted # {}

\* A transaction over the main flag: what it has done by now, what it has in hand, and
\* what the rest of the raider's rows must look like for it.
FlagFine(r) ==
  r \in FlagTx =>
    /\ r.at \in {"creating", "inserting"} => r.kind = "register" /\ r.lifted = {}
    /\ r.at \in {"asked", "clearing", "setting"} => r.kind = "promote" /\ r.lifted = {}
    /\ r.at = "demoting" => r.kind = "demote"
    /\ r.kind = "register" => r.char \notin rows /\ r.cleared = {}
    /\ r.kind = "demote" => r.lifted = {}
    /\ r.kind = "promote" /\ r.at = "done" /\ r.lifted = {} => r.char \notin rows
    /\ r.lifted \subseteq {r.char}
    /\ r.lifted # {} => main \subseteq r.cleared \union r.lifted
    /\ r.lifted # {} /\ r.kind # "register" => r.char \in rows
    /\ r.at = "inserting" /\ r.want /\ main # {} => raised = "promote"

\* A replacement of a menu: whole, as long as nobody else's came between.
MenuFine(r) ==
  r \in MenuTx =>
    /\ r.put \in DOMAIN submitted
    /\ r.at # "adding" => r.dropped = {} /\ r.kept = {} /\ r.added = {}
    /\ r.char \notin rows => r.dropped = {} /\ r.kept = {} /\ r.added = {}
    /\ r.at = "dropping" /\ r.char \notin crossed /\ r.char \in rows => r.seen = menu[r.char]
    /\ r.at = "adding" /\ r.char \notin crossed =>
         /\ r.dropped = menu[r.char] /\ r.kept = {}
         /\ \A e \in r.added : e[1] \in submitted[r.put]

\* Ids are given once; the user's row lets one registration by at a time, the index one
\* main.
Apart ==
  /\ \A t \in Clients : tx[t] # Idle => tx[t].char \in used
  /\ \A t, u \in Clients : Registering(tx[t]) /\ Registering(tx[u]) => t = u
  /\ \A t, u \in Clients : Registering(tx[u]) /\ t # u /\ tx[t] # Idle => tx[t].char # tx[u].char
  /\ \A t, u \in Clients : Lifting(tx[t]) /\ Lifting(tx[u]) => t = u

RosterInv ==
  /\ Rows /\ Numbered /\ OneMain /\ Apart /\ MenuIsOneSubmission
  /\ \A t \in Clients : FlagFine(tx[t]) /\ MenuFine(tx[t])

\* What a transaction is at tells what it is.
LEMMA Kinds ==
  ASSUME Rows, NEW t \in Clients
  PROVE  /\ tx[t].at \in {"asked", "clearing", "setting", "demoting", "creating", "inserting", "done"}
              <=> tx[t] \in FlagTx
         /\ tx[t].at \in {"replacing", "dropping", "adding"} <=> tx[t] \in MenuTx
         /\ tx[t].at = "idle" <=> tx[t] = Idle
         /\ tx[t] = Idle => tx[t] \notin FlagTx /\ tx[t] \notin MenuTx
         /\ tx[t] \in FlagTx => tx[t].kind # "menu" /\ tx[t].char \in Characters /\ tx[t] # Idle
         /\ tx[t] \in MenuTx => tx[t].kind = "menu" /\ tx[t].char \in Characters /\ tx[t] # Idle
<1>1. tx[t] \in {Idle} \union FlagTx \union MenuTx
  BY DEF Rows
<1>2. Idle.at = "idle"
  BY DEF Idle
<1>3. \A r \in FlagTx :
        /\ r.at \in {"asked", "clearing", "setting", "demoting", "creating", "inserting", "done"}
        /\ r.kind # "menu" /\ r.char \in Characters
  BY DEF FlagTx
<1>4. \A r \in MenuTx : r.at \in {"replacing", "dropping", "adding"} /\ r.kind = "menu" /\ r.char \in Characters
  BY DEF MenuTx
<1> QED BY <1>1, <1>2, <1>3, <1>4

-----------------------------------------------------------------------------
(* A statement of one transaction, before any commit.                      *)

LEMMA OneStatement ==
  ASSUME RosterInv, NEW t \in Clients, NEW s \in {Idle} \union FlagTx \union MenuTx, Step(t, s),
         UNCHANGED <<table, history>>, FlagFine(s), MenuFine(s),
         s # Idle => s.char \in used /\ ((tx[t] # Idle /\ s.char = tx[t].char) \/ s.char \in rows),
         Registering(s) => Registering(tx[t]),
         Lifting(s) => \A u \in Clients \ {t} : ~Lifting(tx[u])
  PROVE  RosterInv'
<1>0. UNCHANGED <<rows, used, main, menu, submitted, raised, crossed>>
  BY DEF table, history
<1>1. tx'[t] = s /\ (\A u \in Clients \ {t} : tx'[u] = tx[u])
      /\ tx' \in [Clients -> {Idle} \union FlagTx \union MenuTx]
  BY DEF RosterInv, Rows, Step
<1>2. Rows' /\ Numbered' /\ OneMain' /\ MenuIsOneSubmission'
  BY <1>0, <1>1 DEF RosterInv, Rows, Numbered, OneMain, MenuIsOneSubmission
<1>3. \A u \in Clients : FlagFine(tx[u])'
  <2> SUFFICES ASSUME NEW u \in Clients PROVE FlagFine(tx[u])'
    OBVIOUS
  <2>1. FlagFine(tx'[u])
    BY <1>1 DEF RosterInv
  <2> QED BY <1>0, <2>1 DEF FlagFine
<1>4. \A u \in Clients : MenuFine(tx[u])'
  <2> SUFFICES ASSUME NEW u \in Clients PROVE MenuFine(tx[u])'
    OBVIOUS
  <2>1. MenuFine(tx'[u])
    BY <1>1 DEF RosterInv
  <2> QED BY <1>0, <2>1 DEF MenuFine
<1>5. Apart'
  <2>1. \A u \in Clients : tx'[u] # Idle => tx'[u].char \in used'
    BY <1>0, <1>1 DEF RosterInv, Apart
  <2>2. \A u, v \in Clients : Registering(tx'[u]) /\ Registering(tx'[v]) => u = v
    BY <1>1 DEF RosterInv, Apart
  <2>3. ASSUME NEW u \in Clients, NEW v \in Clients, Registering(tx'[v]), u # v, tx'[u] # Idle
        PROVE  tx'[u].char # tx'[v].char
    <3>1. Registering(tx[v]) /\ tx[v].char \notin rows
      BY <1>1, <2>3 DEF RosterInv, FlagFine, Registering
    <3>2. CASE u # t /\ v # t
      BY <1>1, <2>3, <3>1, <3>2 DEF RosterInv, Apart
    <3>3. CASE u = t
      BY <1>1, <2>3, <3>1, <3>3 DEF RosterInv, Apart
    <3>4. CASE v = t
      <4>1. s \in FlagTx /\ s # Idle /\ s.char \notin rows
        BY <1>1, <2>3, <3>4, Kinds DEF Registering, FlagFine, RosterInv, Idle, FlagTx
      <4>2. s.char = tx[t].char
        BY <4>1
      <4> QED BY <1>1, <2>3, <3>1, <3>4, <4>2 DEF RosterInv, Apart
    <3> QED BY <3>2, <3>3, <3>4
  <2>4. \A u, v \in Clients : Lifting(tx'[u]) /\ Lifting(tx'[v]) => u = v
    BY <1>1 DEF RosterInv, Apart
  <2> QED BY <2>1, <2>2, <2>3, <2>4 DEF Apart, Registering, Lifting
<1> QED BY <1>2, <1>3, <1>4, <1>5 DEF RosterInv

\* A transaction that ends without a commit.
LEMMA AbortFine ==
  ASSUME RosterInv, NEW t \in Clients, Abort(t)
  PROVE  RosterInv'
<1>1. Idle \notin FlagTx /\ Idle \notin MenuTx
  BY DEF Idle, FlagTx, MenuTx
<1> QED BY <1>1, OneStatement DEF Abort, FlagFine, MenuFine, Registering, Lifting

\* The statement of a flag transaction that stays one.
LEMMA FlagStatement ==
  ASSUME RosterInv, NEW t \in Clients, tx[t] \in FlagTx, NEW s \in FlagTx, Step(t, s),
         UNCHANGED <<table, history>>, FlagFine(s), s.char = tx[t].char, s.kind = tx[t].kind,
         s.lifted # {} => \A u \in Clients \ {t} : ~Lifting(tx[u])
  PROVE  RosterInv'
<1>1. s.char \in used /\ tx[t] # Idle
  BY Kinds DEF RosterInv, Apart
<1>2. MenuFine(s)
  BY DEF MenuFine, FlagTx, MenuTx
<1> QED BY <1>1, <1>2, OneStatement DEF Registering, Lifting

\* What may be lifted by t when nothing stands in the way of its character.
LEMMA NoRivals ==
  ASSUME RosterInv, NEW t \in Clients, NEW c, tx[t] \in FlagTx, Rivals(t, c) = {},
         \A u \in Clients \ {t} : tx[u] \in FlagTx => c \notin tx[u].lifted
  PROVE  /\ main \subseteq tx[t].cleared \union {c}
         /\ \A u \in Clients \ {t} : ~Lifting(tx[u])
<1>1. main \ (tx[t].cleared \union {c}) = {}
  BY DEF Rivals
<1>2. ASSUME NEW u \in Clients \ {t}, Lifting(tx[u]) PROVE FALSE
  <2>1. Flags(u)
    BY <1>2, Kinds DEF Flags, Lifting, RosterInv, FlagTx
  <2>2. tx[u].lifted \in {tx[v].lifted : v \in {w \in Others(t) : Flags(w)}}
    BY <2>1 DEF Others
  <2>3. tx[u].lifted \ {c} \subseteq Rivals(t, c)
    BY <2>2 DEF Rivals
  <2>4. Rivals(t, c) = {} /\ c \notin tx[u].lifted /\ tx[u].lifted # {}
    BY <1>2 DEF Lifting
  <2> QED BY <2>3, <2>4
<1> QED BY <1>1, <1>2

LEMMA RegisterSteps ==
  ASSUME RosterInv, NEW t \in Clients, CreateSees(t) \/ CreateDoes(t) \/ CreateFails(t)
  PROVE  RosterInv'
<1>0. Rows /\ FlagFine(tx[t])
  BY DEF RosterInv
<1>1. CASE CreateSees(t)
  <2>1. tx[t] \in FlagTx /\ tx[t].at = "creating" /\ tx[t].kind = "register" /\ tx[t].lifted = {}
        /\ tx[t].cleared = {} /\ tx[t].char \notin rows
    BY <1>0, <1>1, Kinds DEF CreateSees, FlagFine
  <2>2. (tx[t].want /\ main = {}) \in BOOLEAN
    BY Zenon
  <2>3. ASSUME NEW b \in BOOLEAN, b => main = {}, Step(t, [tx[t] EXCEPT !.at = "inserting", !.want = b])
        PROVE  RosterInv'
    <3> DEFINE s == [tx[t] EXCEPT !.at = "inserting", !.want = b]
    <3>1. /\ s \in FlagTx /\ s.at = "inserting" /\ s.kind = "register" /\ s.lifted = {} /\ s.cleared = {}
          /\ s.char = tx[t].char /\ s.want = b
      BY <2>1 DEF FlagTx
    <3> HIDE DEF s
    <3>2. FlagFine(s)
      BY <2>1, <2>3, <3>1 DEF FlagFine
    <3>3. Step(t, s) /\ UNCHANGED <<table, history>>
      BY <1>1, <2>3 DEF CreateSees, s
    <3> QED BY <2>1, <3>1, <3>2, <3>3, FlagStatement
  <2>4. Step(t, [tx[t] EXCEPT !.at = "inserting", !.want = (tx[t].want /\ main = {})])
    BY <1>1 DEF CreateSees
  <2> QED BY <2>2, <2>3, <2>4
<1>2. CASE CreateDoes(t)
  <2> DEFINE c == tx[t].char
             l == IF tx[t].want THEN {c} ELSE {}
             s == [tx[t] EXCEPT !.at = "done", !.lifted = l]
  <2>1. tx[t] \in FlagTx /\ tx[t].at = "inserting" /\ tx[t].kind = "register" /\ tx[t].lifted = {}
        /\ tx[t].cleared = {} /\ c \notin rows /\ c \in Characters
    BY <1>0, <1>2, Kinds DEF CreateDoes, FlagFine
  <2>2. /\ s \in FlagTx /\ s.at = "done" /\ s.kind = "register" /\ s.lifted = l /\ s.cleared = {}
        /\ s.char = c
    BY <2>1 DEF FlagTx
  <2>3. ASSUME NEW u \in Clients \ {t}, tx[u] \in FlagTx PROVE c \notin tx[u].lifted
    <3>1. tx[u].lifted \subseteq {tx[u].char} /\ tx[u] # Idle
      BY <1>0, <2>3, Kinds DEF RosterInv, FlagFine
    <3>2. tx[u].char # c
      BY <2>1, <3>1 DEF RosterInv, Apart, Registering
    <3> QED BY <3>1, <3>2
  <2>4. l # {} => main \subseteq {c} /\ \A u \in Clients \ {t} : ~Lifting(tx[u])
    BY <1>2, <2>1, <2>3, NoRivals DEF CreateDoes
  <2>5. Step(t, s) /\ UNCHANGED <<table, history>>
    BY <1>2 DEF CreateDoes
  <2>6. l \subseteq {c} /\ (l # {} => l = {c})
    OBVIOUS
  <2> HIDE DEF s, l
  <2>7. FlagFine(s)
    BY <2>1, <2>2, <2>4, <2>6 DEF FlagFine
  <2> QED BY <2>1, <2>2, <2>4, <2>5, <2>7, FlagStatement
<1>3. CASE CreateFails(t)
  BY <1>3, AbortFine DEF CreateFails
<1> QED BY <1>1, <1>2, <1>3

LEMMA MainBegins ==
  ASSUME RosterInv, NEW t \in Clients, NEW c \in Characters, NEW b \in BOOLEAN, SetMainBegin(t, c, b)
  PROVE  RosterInv'
<1>1. ASSUME NEW at, NEW kind, NEW want \in BOOLEAN, Begin(t, at, kind, c, want),
             <<at, kind>> \in {<<"asked", "promote">>, <<"demoting", "demote">>}
      PROVE  RosterInv'
  <2> DEFINE s == [at |-> at, kind |-> kind, char |-> c, want |-> want,
                   seen |-> {}, cleared |-> {}, lifted |-> {}]
  <2>1. s \in FlagTx /\ s.at = at /\ s.kind = kind /\ s.char = c /\ s.lifted = {}
    BY <1>1 DEF FlagTx
  <2>2. Step(t, s) /\ UNCHANGED <<table, history>> /\ c \in rows
    BY <1>1 DEF Begin, SetMainBegin
  <2> HIDE DEF s
  <2>3. FlagFine(s)
    BY <1>1, <2>1 DEF FlagFine
  <2>4. MenuFine(s)
    BY <1>1, <2>1 DEF MenuFine, MenuTx
  <2>5. c \in used
    BY <2>2 DEF RosterInv, Rows
  <2> QED BY <1>1, <2>1, <2>2, <2>3, <2>4, <2>5, OneStatement DEF Registering, Lifting
<1> QED BY <1>1 DEF SetMainBegin

LEMMA MainSteps ==
  ASSUME RosterInv, NEW t \in Clients,
         ClearSees(t) \/ ClearDoes(t) \/ SetDoes(t) \/ SetFails(t) \/ DemoteDoes(t)
  PROVE  RosterInv'
<1>0. Rows /\ FlagFine(tx[t]) /\ main \subseteq Characters
  BY DEF RosterInv, Rows
<1>1. CASE ClearSees(t)
  <2> DEFINE seen == IF tx[t].char \in rows THEN main ELSE {}
             s == [tx[t] EXCEPT !.at = "clearing", !.seen = seen]
  <2>1. tx[t] \in FlagTx /\ tx[t].kind = "promote" /\ tx[t].lifted = {}
    BY <1>0, <1>1, Kinds DEF ClearSees, FlagFine
  <2>2. s \in FlagTx /\ s.at = "clearing" /\ s.kind = "promote" /\ s.lifted = {} /\ s.char = tx[t].char
    BY <1>0, <2>1 DEF FlagTx
  <2>3. Step(t, s) /\ UNCHANGED <<table, history>>
    BY <1>1 DEF ClearSees
  <2> HIDE DEF s
  <2>4. FlagFine(s)
    BY <2>2 DEF FlagFine
  <2> QED BY <2>1, <2>2, <2>3, <2>4, FlagStatement
<1>2. CASE ClearDoes(t)
  <2> DEFINE s == [tx[t] EXCEPT !.at = "setting", !.seen = {}, !.cleared = tx[t].seen \intersect main]
  <2>1. tx[t] \in FlagTx /\ tx[t].kind = "promote" /\ tx[t].lifted = {}
    BY <1>0, <1>2, Kinds DEF ClearDoes, FlagFine
  <2>2. s \in FlagTx /\ s.at = "setting" /\ s.kind = "promote" /\ s.lifted = {} /\ s.char = tx[t].char
    BY <1>0, <2>1 DEF FlagTx
  <2>3. Step(t, s) /\ UNCHANGED <<table, history>>
    BY <1>2 DEF ClearDoes
  <2> HIDE DEF s
  <2>4. FlagFine(s)
    BY <2>2 DEF FlagFine
  <2> QED BY <2>1, <2>2, <2>3, <2>4, FlagStatement
<1>3. CASE SetDoes(t)
  <2> DEFINE c == tx[t].char
             s == [tx[t] EXCEPT !.at = "done", !.lifted = Met(c)]
  <2>1. tx[t] \in FlagTx /\ tx[t].kind = "promote" /\ c \in Characters
    BY <1>0, <1>3, Kinds DEF SetDoes, FlagFine
  <2>2. /\ s \in FlagTx /\ s.at = "done" /\ s.kind = "promote" /\ s.lifted = Met(c) /\ s.char = c
        /\ s.cleared = tx[t].cleared
    BY <2>1 DEF FlagTx, Met
  <2>3. Step(t, s) /\ UNCHANGED <<table, history>> /\ ~Locked(t, c)
        /\ (c \in rows => Rivals(t, c) = {})
    BY <1>3 DEF SetDoes
  <2>4. ASSUME NEW u \in Clients \ {t}, tx[u] \in FlagTx PROVE c \notin tx[u].lifted
    <3>1. Flags(u)
      BY <1>0, <2>4, Kinds DEF Flags, FlagTx
    <3> QED BY <2>3, <3>1 DEF Locked, Others
  <2>5. c \in rows => main \subseteq tx[t].cleared \union {c} /\ \A u \in Clients \ {t} : ~Lifting(tx[u])
    BY <2>1, <2>3, <2>4, NoRivals
  <2>6. Met(c) \subseteq {c} /\ (Met(c) # {} => Met(c) = {c} /\ c \in rows) /\ (Met(c) = {} => c \notin rows)
    BY DEF Met
  <2> HIDE DEF s, c
  <2>7. FlagFine(s)
    BY <2>2, <2>5, <2>6 DEF FlagFine
  <2> QED BY <2>1, <2>2, <2>3, <2>5, <2>6, <2>7, FlagStatement DEF c
<1>4. CASE SetFails(t)
  BY <1>4, AbortFine DEF SetFails
<1>5. CASE DemoteDoes(t)
  <2> DEFINE s == [tx[t] EXCEPT !.at = "done", !.cleared = Met(tx[t].char)]
  <2>1. tx[t] \in FlagTx /\ tx[t].kind = "demote" /\ tx[t].lifted = {} /\ tx[t].char \in Characters
    BY <1>0, <1>5, Kinds DEF DemoteDoes, FlagFine
  <2>2. s \in FlagTx /\ s.at = "done" /\ s.kind = "demote" /\ s.lifted = {} /\ s.char = tx[t].char
    BY <2>1 DEF FlagTx, Met
  <2>3. Step(t, s) /\ UNCHANGED <<table, history>>
    BY <1>5 DEF DemoteDoes
  <2> HIDE DEF s
  <2>4. FlagFine(s)
    BY <2>2 DEF FlagFine
  <2> QED BY <2>1, <2>2, <2>3, <2>4, FlagStatement
<1> QED BY <1>1, <1>2, <1>3, <1>4, <1>5

\* An id nobody has used, behind the user's row.
LEMMA RegisterBegins ==
  ASSUME RosterInv, NEW t \in Clients, NEW c \in Characters, NEW b \in BOOLEAN, RegisterBegin(t, c, b)
  PROVE  RosterInv'
<1> DEFINE s == [at |-> "creating", kind |-> "register", char |-> c, want |-> b,
                 seen |-> {}, cleared |-> {}, lifted |-> {}]
<1>1. /\ s \in FlagTx /\ s.at = "creating" /\ s.kind = "register" /\ s.char = c /\ s.want = b
      /\ s.cleared = {} /\ s.lifted = {}
  BY DEF FlagTx
<1>2. /\ UNCHANGED <<rows, main, menu, submitted, raised, crossed>> /\ used' = used \union {c}
      /\ tx[t] = Idle /\ Step(t, s) /\ c \notin used /\ ~UserLocked(t)
  BY DEF RegisterBegin, Begin, history
<1> HIDE DEF s
<1>3. tx'[t] = s /\ (\A u \in Clients \ {t} : tx'[u] = tx[u])
      /\ tx' \in [Clients -> {Idle} \union FlagTx \union MenuTx]
  BY <1>1, <1>2 DEF RosterInv, Rows, Step
<1>4. Rows' /\ Numbered' /\ OneMain' /\ MenuIsOneSubmission'
  BY <1>2, <1>3 DEF RosterInv, Rows, Numbered, OneMain, MenuIsOneSubmission
<1>5. s.char \notin rows
  BY <1>1, <1>2 DEF RosterInv, Rows
<1>6. ASSUME NEW u \in Clients PROVE FlagFine(tx[u])'
  <2>1. FlagFine(tx'[u])
    BY <1>1, <1>3, <1>5 DEF RosterInv, FlagFine
  <2> QED BY <1>2, <2>1 DEF FlagFine
<1>7. ASSUME NEW u \in Clients PROVE MenuFine(tx[u])'
  <2>1. s \notin MenuTx
    BY <1>1 DEF MenuTx
  <2>2. MenuFine(tx'[u])
    BY <1>3, <2>1 DEF RosterInv, MenuFine
  <2> QED BY <1>2, <2>2 DEF MenuFine
<1>8. Apart'
  <2>1. \A u \in Clients \ {t} : tx[u] # Idle => tx[u].char \in used /\ tx[u].char # c
    BY <1>2 DEF RosterInv, Apart
  <2>2. ASSUME NEW u \in Clients \ {t}, Registering(tx[u]) PROVE FALSE
    <3>1. tx[u].at # "idle" /\ tx[u].kind = "register"
      BY <2>2, Kinds DEF Registering, RosterInv
    <3> QED BY <1>2, <3>1 DEF UserLocked, Others
  <2>3. ~Lifting(s)
    BY <1>1 DEF Lifting
  <2>4. \A u \in Clients : tx'[u] # Idle => tx'[u].char \in used'
    BY <1>1, <1>2, <1>3, <2>1
  <2>5. \A u, v \in Clients : Registering(tx'[u]) /\ Registering(tx'[v]) => u = v
    BY <1>3, <2>2
  <2>6. \A u, v \in Clients : Registering(tx'[v]) /\ u # v /\ tx'[u] # Idle => tx'[u].char # tx'[v].char
    BY <1>1, <1>3, <2>1, <2>2
  <2>7. \A u, v \in Clients : Lifting(tx'[u]) /\ Lifting(tx'[v]) => u = v
    BY <1>3, <2>3 DEF RosterInv, Apart
  <2> QED BY <2>4, <2>5, <2>6, <2>7 DEF Apart, Registering, Lifting
<1> QED BY <1>4, <1>6, <1>7, <1>8 DEF RosterInv

\* What remains fine of the others when one ends.
LEMMA ApartWhenOneEnds ==
  ASSUME RosterInv, NEW t \in Clients, Step(t, Idle), used' = used
  PROVE  /\ Apart' /\ tx'[t] = Idle /\ (\A u \in Clients \ {t} : tx'[u] = tx[u])
         /\ tx' \in [Clients -> {Idle} \union FlagTx \union MenuTx]
         /\ FlagFine(Idle) /\ MenuFine(Idle)
<1>1. tx'[t] = Idle /\ (\A u \in Clients \ {t} : tx'[u] = tx[u])
      /\ tx' \in [Clients -> {Idle} \union FlagTx \union MenuTx]
  BY DEF RosterInv, Rows, Step
<1>2. Idle \notin FlagTx /\ Idle \notin MenuTx
  BY DEF Idle, FlagTx, MenuTx
<1>3. ~Registering(Idle) /\ ~Lifting(Idle) /\ FlagFine(Idle) /\ MenuFine(Idle)
  BY <1>2 DEF Registering, Lifting, FlagFine, MenuFine
<1>4. /\ \A u \in Clients : tx'[u] # Idle => tx'[u].char \in used'
      /\ \A u, v \in Clients : Registering(tx'[u]) /\ Registering(tx'[v]) => u = v
      /\ \A u, v \in Clients : Registering(tx'[v]) /\ u # v /\ tx'[u] # Idle => tx'[u].char # tx'[v].char
      /\ \A u, v \in Clients : Lifting(tx'[u]) /\ Lifting(tx'[v]) => u = v
  BY <1>1, <1>3 DEF RosterInv, Apart
<1>5. Apart'
  BY <1>4 DEF Apart, Registering, Lifting
<1> QED BY <1>1, <1>3, <1>5

LEMMA FlagCommits ==
  ASSUME RosterInv, NEW t \in Clients, FlagCommit(t)
  PROVE  RosterInv'
<1>0. Rows /\ FlagFine(tx[t]) /\ tx[t] \in FlagTx /\ tx[t].at = "done" /\ tx[t] # Idle
  BY Kinds DEF RosterInv, FlagCommit
<1>1. /\ UNCHANGED <<used, menu, submitted, crossed>> /\ Step(t, Idle)
      /\ rows' = (IF tx[t].kind = "register" THEN rows \union {tx[t].char} ELSE rows)
      /\ main' = (main \ tx[t].cleared) \union tx[t].lifted
      /\ raised' = (IF tx[t].lifted # {} THEN tx[t].kind ELSE raised)
  BY DEF FlagCommit
<1>2. /\ Apart' /\ tx'[t] = Idle /\ (\A u \in Clients \ {t} : tx'[u] = tx[u])
      /\ tx' \in [Clients -> {Idle} \union FlagTx \union MenuTx]
      /\ FlagFine(Idle) /\ MenuFine(Idle)
  BY <1>1, ApartWhenOneEnds
<1>3. /\ tx[t].kind \in {"promote", "demote", "register"} /\ tx[t].char \in Characters
      /\ tx[t].lifted \subseteq {tx[t].char} /\ tx[t].char \in used
      /\ tx[t].lifted # {} => main \subseteq tx[t].cleared \union tx[t].lifted
      /\ tx[t].lifted # {} => tx[t].char \in rows'
      /\ tx[t].kind = "demote" => tx[t].lifted = {}
  BY <1>0, <1>1 DEF FlagTx, FlagFine, RosterInv, Apart
<1>4. main' = IF tx[t].lifted = {} THEN main \ tx[t].cleared ELSE tx[t].lifted
  BY <1>1, <1>3
<1>5. Rows'
  BY <1>0, <1>1, <1>2, <1>3 DEF Rows
<1>6. OneMain'
  BY <1>3, <1>4 DEF RosterInv, OneMain
<1>7. Numbered' /\ MenuIsOneSubmission'
  BY <1>1 DEF RosterInv, Numbered, MenuIsOneSubmission
<1>8. ASSUME NEW u \in Clients \ {t}, tx[u] # Idle
      PROVE  tx[u].char \in rows' <=> tx[u].char \in rows
  BY <1>0, <1>1, <1>8 DEF RosterInv, Apart, Registering
<1>9. ASSUME NEW u \in Clients \ {t}, tx[u] \in FlagTx PROVE FlagFine(tx[u])'
  <2>1. FlagFine(tx[u]) /\ tx[u] # Idle /\ tx'[u] = tx[u]
    BY <1>0, <1>2, <1>9, Kinds DEF RosterInv
  <2>2. tx[u].char \in rows' <=> tx[u].char \in rows
    BY <1>8, <2>1
  <2>3. tx[u].lifted # {} => main' \subseteq main
    BY <1>0, <1>4, <1>9 DEF RosterInv, Apart, Lifting
  <2>4. tx[u].at = "inserting" /\ tx[u].want /\ main' # {} => raised' = "promote"
    <3>1. SUFFICES ASSUME tx[u].at = "inserting", tx[u].want, main' # {} PROVE raised' = "promote"
      OBVIOUS
    <3>2. CASE tx[t].lifted = {}
      BY <1>1, <1>4, <1>9, <2>1, <3>1, <3>2 DEF FlagFine
    <3>3. CASE tx[t].lifted # {}
      <4>1. tx[u].kind = "register"
        BY <1>9, <2>1, <3>1 DEF FlagFine
      <4>2. tx[t].kind # "register"
        BY <1>0, <1>9, <4>1 DEF RosterInv, Apart, Registering
      <4> QED BY <1>1, <1>3, <3>3, <4>2
    <3> QED BY <3>2, <3>3
  <2> QED BY <1>9, <2>1, <2>2, <2>3, <2>4 DEF FlagFine
<1>10. ASSUME NEW u \in Clients \ {t}, tx[u] \in MenuTx PROVE MenuFine(tx[u])'
  <2>1. MenuFine(tx[u]) /\ tx[u] # Idle /\ tx'[u] = tx[u]
    BY <1>0, <1>2, <1>10, Kinds DEF RosterInv
  <2>2. tx[u].char \in rows' <=> tx[u].char \in rows
    BY <1>8, <2>1
  <2> QED BY <1>1, <2>1, <2>2 DEF MenuFine
<1>11. ASSUME NEW u \in Clients PROVE FlagFine(tx[u])' /\ MenuFine(tx[u])'
  <2>1. CASE u = t
    <3>1. Idle \notin FlagTx /\ Idle \notin MenuTx
      BY DEF Idle, FlagTx, MenuTx
    <3> QED BY <1>2, <2>1, <3>1 DEF FlagFine, MenuFine
  <2>2. CASE u # t
    <3>1. tx'[u] = tx[u]
      BY <1>2, <2>2
    <3> QED BY <1>9, <1>10, <2>2, <3>1 DEF FlagFine, MenuFine
  <2> QED BY <2>1, <2>2
<1> QED BY <1>2, <1>5, <1>6, <1>7, <1>11 DEF RosterInv

\* The next submission, and the transaction that is to store it.
LEMMA MenuBegins ==
  ASSUME RosterInv, RosterAssumption, NEW t \in Clients, NEW c \in Characters, NEW roles \in SUBSET Roles,
         PutRoles(t, c, roles)
  PROVE  RosterInv'
<1>1. PICK n \in 0..MaxPuts : submitted \in [1..n -> SUBSET Roles]
  BY DEF RosterInv, Numbered
<1>2. Cardinality(DOMAIN submitted) = n
  <2>1. DOMAIN submitted = 1..n /\ n \in Int
    BY <1>1
  <2>2. Cardinality(1..n) = IF 1 > n THEN 0 ELSE n - 1 + 1
    BY <2>1, FS_Interval
  <2> QED BY <1>1, <2>1, <2>2 DEF RosterAssumption
<1> DEFINE k == n + 1
           s == [at |-> "replacing", kind |-> "menu", char |-> c, put |-> k,
                 seen |-> {}, dropped |-> {}, kept |-> {}, added |-> {}]
<1>3. /\ UNCHANGED <<rows, used, main, menu, raised, crossed>>
      /\ tx[t] = Idle /\ Step(t, s) /\ c \in rows /\ k <= MaxPuts
      /\ submitted' = [m \in 1..k |-> IF m = k THEN roles ELSE submitted[m]]
  BY <1>2 DEF PutRoles, table
<1>4. k \in 1..MaxPuts /\ 1..n \subseteq 1..k /\ k \notin 1..n /\ k \in 1..k
  BY <1>1, <1>3 DEF RosterAssumption
<1>5. /\ s \in MenuTx /\ s.at = "replacing" /\ s.char = c /\ s.put = k
      /\ s.dropped = {} /\ s.kept = {} /\ s.added = {}
  BY <1>4 DEF MenuTx
<1> HIDE DEF s
<1>6. tx'[t] = s /\ (\A u \in Clients \ {t} : tx'[u] = tx[u])
      /\ tx' \in [Clients -> {Idle} \union FlagTx \union MenuTx]
  BY <1>3, <1>5 DEF RosterInv, Rows, Step
<1>7. submitted' \in [1..k -> SUBSET Roles] /\ \A m \in 1..n : submitted'[m] = submitted[m]
  <2>1. \A m \in 1..k : m # k => m \in 1..n
    BY <1>1, <1>4
  <2> QED BY <1>1, <1>3, <1>4, <2>1
<1>8. Numbered'
  BY <1>4, <1>7 DEF Numbered, RosterAssumption
<1>9. Rows' /\ OneMain'
  BY <1>3, <1>6 DEF RosterInv, Rows, OneMain
<1>10. MenuIsOneSubmission'
  <2> SUFFICES ASSUME NEW d \in Characters \ crossed', menu'[d] # {}
               PROVE  \E m \in DOMAIN submitted' : {e[1] : e \in menu'[d]} = submitted'[m]
    BY DEF MenuIsOneSubmission
  <2>1. PICK m \in DOMAIN submitted : {e[1] : e \in menu[d]} = submitted[m]
    BY <1>3 DEF RosterInv, MenuIsOneSubmission
  <2>2. m \in 1..n /\ m \in DOMAIN submitted' /\ submitted'[m] = submitted[m]
    BY <1>1, <1>4, <1>7
  <2> QED BY <1>3, <2>1, <2>2
<1>11. ASSUME NEW u \in Clients PROVE FlagFine(tx[u])'
  <2>1. s \notin FlagTx
    BY <1>5 DEF FlagTx
  <2>2. FlagFine(tx'[u])
    BY <1>6, <2>1 DEF RosterInv, FlagFine
  <2> QED BY <1>3, <2>2 DEF FlagFine
<1>12. ASSUME NEW u \in Clients, tx'[u] \in MenuTx PROVE MenuFine(tx[u])'
  <2>1. CASE u = t
    <3>1. k \in DOMAIN submitted'
      BY <1>4, <1>7
    <3> QED BY <1>5, <1>6, <2>1, <3>1 DEF MenuFine
  <2>2. CASE u # t
    <3>1. tx'[u] = tx[u] /\ MenuFine(tx[u])
      BY <1>6, <2>2 DEF RosterInv
    <3>2. tx[u].put \in 1..n
      BY <1>1, <1>12, <3>1 DEF MenuFine
    <3>3. tx[u].put \in DOMAIN submitted' /\ submitted'[tx[u].put] = submitted[tx[u].put]
      BY <1>4, <1>7, <3>2
    <3> QED BY <1>3, <3>1, <3>3 DEF MenuFine
  <2> QED BY <2>1, <2>2
<1>13. Apart'
  <2>1. s.char \in used' /\ ~Registering(s) /\ ~Lifting(s) /\ used' = used
    BY <1>3, <1>5 DEF RosterInv, Rows, Registering, Lifting, FlagTx, MenuTx
  <2>2. \A u \in Clients : tx'[u] # Idle => tx'[u].char \in used'
    BY <1>6, <2>1 DEF RosterInv, Apart
  <2>3. \A u, v \in Clients : Registering(tx'[u]) /\ Registering(tx'[v]) => u = v
    BY <1>6, <2>1 DEF RosterInv, Apart
  <2>4. \A v \in Clients : Registering(tx[v]) => tx[v].char \notin rows
    BY DEF RosterInv, FlagFine, Registering
  <2>5. \A u, v \in Clients : Registering(tx'[v]) /\ u # v /\ tx'[u] # Idle => tx'[u].char # tx'[v].char
    BY <1>3, <1>5, <1>6, <2>1, <2>4 DEF RosterInv, Apart
  <2>6. \A u, v \in Clients : Lifting(tx'[u]) /\ Lifting(tx'[v]) => u = v
    BY <1>6, <2>1 DEF RosterInv, Apart
  <2> QED BY <2>2, <2>3, <2>5, <2>6 DEF Apart, Registering, Lifting
<1>14. ASSUME NEW u \in Clients PROVE MenuFine(tx[u])'
  BY <1>12 DEF MenuFine
<1> QED BY <1>8, <1>9, <1>10, <1>11, <1>13, <1>14 DEF RosterInv

\* The statement of a replacement that stays one.
LEMMA MenuStatement ==
  ASSUME RosterInv, NEW t \in Clients, tx[t] \in MenuTx, NEW s \in MenuTx, Step(t, s),
         UNCHANGED <<table, history>>, MenuFine(s), s.char = tx[t].char
  PROVE  RosterInv'
<1>1. s.char \in used /\ tx[t] # Idle
  BY Kinds DEF RosterInv, Apart
<1>2. s \notin FlagTx
  BY DEF FlagTx, MenuTx
<1>3. FlagFine(s) /\ ~Registering(s) /\ ~Lifting(s)
  BY <1>2 DEF FlagFine, Registering, Lifting
<1> QED BY <1>1, <1>3, OneStatement

LEMMA MenuDrops ==
  ASSUME RosterInv, NEW t \in Clients, DropSees(t) \/ DropDoes(t)
  PROVE  RosterInv'
<1> DEFINE c == tx[t].char
<1>0. Rows /\ MenuFine(tx[t]) /\ (tx[t] \in MenuTx => c \in Characters /\ menu[c] \subseteq Entries)
  BY Kinds DEF RosterInv, Rows
<1>1. CASE DropSees(t)
  <2> DEFINE s == [tx[t] EXCEPT !.at = "dropping", !.seen = menu[c]]
  <2>1. tx[t] \in MenuTx /\ tx[t].at = "replacing"
    BY <1>0, <1>1, Kinds DEF DropSees
  <2>2. /\ s \in MenuTx /\ s.at = "dropping" /\ s.char = c /\ s.put = tx[t].put /\ s.seen = menu[c]
        /\ s.dropped = tx[t].dropped /\ s.kept = tx[t].kept /\ s.added = tx[t].added
    BY <1>0, <2>1 DEF MenuTx
  <2>3. Step(t, s) /\ UNCHANGED <<table, history>>
    BY <1>1 DEF DropSees
  <2> HIDE DEF s, c
  <2>4. MenuFine(s)
    BY <1>0, <2>1, <2>2 DEF MenuFine
  <2> QED BY <2>1, <2>2, <2>3, <2>4, MenuStatement DEF c
<1>2. CASE DropDoes(t)
  <2> DEFINE s == [tx[t] EXCEPT !.at = "adding", !.seen = {}, !.dropped = Droppable(t)]
  <2>1. tx[t] \in MenuTx /\ tx[t].at = "dropping"
    BY <1>0, <1>2, Kinds DEF DropDoes
  <2>2. Droppable(t) \subseteq menu[c] /\ Droppable(t) \subseteq Entries
        /\ (tx[t].seen = menu[c] => Droppable(t) = menu[c])
    BY <1>0, <2>1 DEF Droppable
  <2>3. /\ s \in MenuTx /\ s.at = "adding" /\ s.char = c /\ s.put = tx[t].put
        /\ s.dropped = Droppable(t) /\ s.kept = tx[t].kept /\ s.added = tx[t].added
    BY <2>1, <2>2 DEF MenuTx
  <2>4. Step(t, s) /\ UNCHANGED <<table, history>>
    BY <1>2 DEF DropDoes
  <2>5. c \notin rows => menu[c] = {}
    BY <1>0, <2>1 DEF Rows
  <2> HIDE DEF s, c
  <2>6. MenuFine(s)
    <3>1. tx[t].kept = {} /\ tx[t].added = {} /\ tx[t].put \in DOMAIN submitted
      BY <1>0, <2>1 DEF MenuFine
    <3>2. tx[t].char \notin crossed => Droppable(t) = menu[c]
      BY <1>0, <2>1, <2>2, <2>5 DEF MenuFine, c
    <3>3. c \notin rows => Droppable(t) = {}
      BY <2>2, <2>5
    <3> QED BY <2>3, <3>1, <3>2, <3>3 DEF MenuFine, c
  <2> QED BY <2>1, <2>3, <2>4, <2>6, MenuStatement DEF c
<1> QED BY <1>1, <1>2

LEMMA MenuAdds ==
  ASSUME RosterInv, NEW t \in Clients, NEW role \in Roles, AddRole(t, role)
  PROVE  RosterInv'
<1> DEFINE c == tx[t].char
           there == {e \in menu[c] \ tx[t].dropped : e[1] = role}
           new == <<role, tx[t].put>>
<1>0. Rows /\ MenuFine(tx[t]) /\ (tx[t] \in MenuTx => c \in Characters /\ menu[c] \subseteq Entries)
  BY Kinds DEF RosterInv, Rows
<1>1. tx[t] \in MenuTx /\ tx[t].at = "adding" /\ c \in rows
  BY <1>0, Kinds DEF AddRole
<1>2. there \subseteq Entries /\ new \in Entries /\ new[1] = role
  BY <1>0, <1>1 DEF MenuTx, Entries
<1>3. role \in submitted[tx[t].put]
  BY DEF AddRole, Missing
<1>4. CASE there = {}
  <2> DEFINE s == [tx[t] EXCEPT !.added = @ \union {new}]
  <2>1. /\ s \in MenuTx /\ s.at = "adding" /\ s.char = c /\ s.put = tx[t].put
        /\ s.dropped = tx[t].dropped /\ s.kept = tx[t].kept /\ s.added = tx[t].added \union {new}
    BY <1>1, <1>2 DEF MenuTx
  <2>2. Step(t, s) /\ UNCHANGED <<table, history>>
    BY <1>4 DEF AddRole
  <2> HIDE DEF s, c, new
  <2>3. MenuFine(s)
    BY <1>0, <1>1, <1>2, <1>3, <2>1 DEF MenuFine, c
  <2> QED BY <1>1, <2>1, <2>2, <2>3, MenuStatement DEF c
<1>5. CASE there # {}
  <2> DEFINE s == [tx[t] EXCEPT !.kept = @ \union there]
  <2>1. /\ s \in MenuTx /\ s.at = "adding" /\ s.char = c /\ s.put = tx[t].put
        /\ s.dropped = tx[t].dropped /\ s.added = tx[t].added
    BY <1>1, <1>2 DEF MenuTx
  <2>2. Step(t, s) /\ UNCHANGED <<table, history>>
    BY <1>5 DEF AddRole
  <2>3. tx[t].dropped # menu[c]
    BY <1>5
  <2> HIDE DEF s, c, there
  <2>4. MenuFine(s)
    BY <1>0, <1>1, <2>1, <2>3 DEF MenuFine, c
  <2> QED BY <1>1, <2>1, <2>2, <2>4, MenuStatement DEF c
<1> QED BY <1>4, <1>5

\* The whole of one submission is stored, over what the replacement dropped.
LEMMA MenuCommits ==
  ASSUME RosterInv, NEW t \in Clients, MenuCommit(t)
  PROVE  RosterInv'
<1> DEFINE c == tx[t].char
           new == (menu[c] \ tx[t].dropped) \union tx[t].added
<1>0. Rows /\ MenuFine(tx[t]) /\ tx[t] \in MenuTx /\ tx[t].at = "adding" /\ tx[t] # Idle /\ c \in Characters
  BY Kinds DEF RosterInv, MenuCommit
<1>1. /\ UNCHANGED <<rows, used, main, submitted, raised>> /\ Step(t, Idle) /\ Missing(t) = {}
      /\ menu' = [menu EXCEPT ![c] = new]
      /\ crossed' = (IF \E u \in Others(t) : tx[u].char = c /\ tx[u].at \in {"dropping", "adding"}
                     THEN crossed \union {c} ELSE crossed)
  BY DEF MenuCommit
<1>2. /\ Apart' /\ tx'[t] = Idle /\ (\A u \in Clients \ {t} : tx'[u] = tx[u])
      /\ tx' \in [Clients -> {Idle} \union FlagTx \union MenuTx]
      /\ FlagFine(Idle) /\ MenuFine(Idle)
  BY <1>1, ApartWhenOneEnds
<1>3. /\ new \subseteq Entries /\ (new # {} => c \in rows)
      /\ menu[c] \subseteq Entries /\ tx[t].dropped \subseteq Entries
  <2>1. menu[c] \subseteq Entries /\ (menu[c] # {} => c \in rows)
    BY <1>0 DEF Rows
  <2>2. tx[t].added \subseteq Entries /\ tx[t].dropped \subseteq Entries
    BY <1>0 DEF MenuTx
  <2>3. tx[t].added # {} => c \in rows
    BY <1>0 DEF MenuFine
  <2> QED BY <2>1, <2>2, <2>3
<1>4. menu'[c] = new /\ (\A d \in Characters \ {c} : menu'[d] = menu[d])
      /\ menu' \in [Characters -> SUBSET Entries] /\ crossed \subseteq crossed' /\ crossed' \subseteq Characters
  BY <1>0, <1>1, <1>3 DEF Rows
<1>5. Rows' /\ Numbered' /\ OneMain'
  BY <1>0, <1>1, <1>2, <1>3, <1>4 DEF RosterInv, Rows, Numbered, OneMain
<1>6. MenuIsOneSubmission'
  <2> SUFFICES ASSUME NEW d \in Characters \ crossed', menu'[d] # {}
               PROVE  \E m \in DOMAIN submitted' : {e[1] : e \in menu'[d]} = submitted'[m]
    BY DEF MenuIsOneSubmission
  <2>1. CASE d = c
    <3>1. c \notin crossed
      BY <1>4, <2>1
    <3>2. /\ tx[t].dropped = menu[c] /\ tx[t].kept = {} /\ tx[t].put \in DOMAIN submitted
          /\ \A e \in tx[t].added : e[1] \in submitted[tx[t].put]
      BY <1>0, <3>1 DEF MenuFine
    <3>3. menu'[c] = tx[t].added
      BY <1>4, <3>2
    <3>4. {e[1] : e \in tx[t].added} = submitted[tx[t].put]
      <4>1. submitted[tx[t].put] \ {e[1] : e \in tx[t].added} = {}
        <5>1. tx[t].kept \union tx[t].added = tx[t].added
          BY <3>2
        <5> QED BY <1>1, <5>1 DEF Missing
      <4> QED BY <3>2, <4>1
    <3> QED BY <1>1, <2>1, <3>2, <3>3, <3>4
  <2>2. CASE d # c
    <3>1. menu'[d] = menu[d] /\ d \notin crossed
      BY <1>4, <2>2
    <3> QED BY <1>1, <3>1 DEF RosterInv, MenuIsOneSubmission
  <2> QED BY <2>1, <2>2
<1>7. ASSUME NEW u \in Clients PROVE FlagFine(tx[u])'
  <2>1. FlagFine(tx'[u])
    BY <1>2 DEF RosterInv
  <2> QED BY <1>1, <2>1 DEF FlagFine
<1>8. ASSUME NEW u \in Clients, tx'[u] \in MenuTx PROVE MenuFine(tx[u])'
  <2>1. u # t /\ tx'[u] = tx[u] /\ MenuFine(tx[u]) /\ tx[u].char \in Characters
    <3>1. Idle \notin MenuTx
      BY DEF Idle, MenuTx
    <3> QED BY <1>0, <1>2, <1>8, <3>1, Kinds DEF RosterInv
  <2>2. tx[u].char \notin crossed' /\ tx[u].at \in {"dropping", "adding"} => menu'[tx[u].char] = menu[tx[u].char]
    <3>1. CASE tx[u].char = c
      BY <1>0, <1>1, <2>1, <3>1 DEF Others
    <3>2. CASE tx[u].char # c
      BY <1>4, <2>1, <3>2
    <3> QED BY <3>1, <3>2
  <2>3. tx[u].char \notin crossed' => tx[u].char \notin crossed
    BY <1>4
  <2> QED BY <1>1, <2>1, <2>2, <2>3 DEF MenuFine
<1>9. ASSUME NEW u \in Clients PROVE MenuFine(tx[u])'
  BY <1>8 DEF MenuFine
<1> QED BY <1>2, <1>5, <1>6, <1>7, <1>9 DEF RosterInv

\* A deletion waits for every transaction that has written the row or its menu.
LEMMA Deletes ==
  ASSUME RosterInv, NEW c \in Characters, DeleteCharacter(c)
  PROVE  RosterInv'
<1>0. Rows
  BY DEF RosterInv
<1>1. /\ UNCHANGED <<used, tx, submitted, raised, crossed>> /\ c \in rows
      /\ rows' = rows \ {c} /\ main' = main \ {c} /\ menu' = [menu EXCEPT ![c] = {}]
  BY DEF DeleteCharacter, history
<1>2. menu'[c] = {} /\ (\A d \in Characters \ {c} : menu'[d] = menu[d])
      /\ menu' \in [Characters -> SUBSET Entries]
  BY <1>0, <1>1 DEF Rows
<1>3. Rows' /\ Numbered' /\ OneMain' /\ Apart'
  BY <1>0, <1>1, <1>2 DEF RosterInv, Rows, Numbered, OneMain, Apart, Registering, Lifting
<1>4. MenuIsOneSubmission'
  BY <1>0, <1>1, <1>2 DEF RosterInv, MenuIsOneSubmission
<1>5. ASSUME NEW u \in Clients PROVE FlagFine(tx[u])'
  <2>1. FlagFine(tx[u])
    BY DEF RosterInv
  <2>2. tx[u] \in FlagTx => c \notin tx[u].lifted
    BY <1>0, Kinds DEF DeleteCharacter, Flags
  <2>3. tx[u] \in FlagTx /\ tx[u].lifted # {} => tx[u].char # c
    BY <2>1, <2>2 DEF FlagFine
  <2> QED BY <1>1, <2>1, <2>3 DEF FlagFine
<1>6. ASSUME NEW u \in Clients, tx[u] \in MenuTx PROVE MenuFine(tx[u])'
  <2>1. MenuFine(tx[u]) /\ tx[u].char \in Characters
    BY <1>0, <1>6, Kinds DEF RosterInv
  <2>2. CASE tx[u].char = c
    <3>1. tx[u].dropped = {} /\ tx[u].kept = {} /\ tx[u].added = {}
      BY <1>0, <1>6, <2>2, Kinds DEF DeleteCharacter, Menus
    <3> QED BY <1>1, <1>2, <2>1, <2>2, <3>1 DEF MenuFine
  <2>3. CASE tx[u].char # c
    <3>1. menu'[tx[u].char] = menu[tx[u].char] /\ (tx[u].char \in rows' <=> tx[u].char \in rows)
      BY <1>1, <1>2, <2>1, <2>3
    <3> QED BY <1>1, <2>1, <3>1 DEF MenuFine
  <2> QED BY <2>2, <2>3
<1>7. ASSUME NEW u \in Clients PROVE MenuFine(tx[u])'
  BY <1>1, <1>6 DEF MenuFine
<1> QED BY <1>3, <1>4, <1>5, <1>7 DEF RosterInv

-----------------------------------------------------------------------------
(* The theorems.                                                           *)

LEMMA RosterInit ==
  ASSUME RosterAssumption, Init
  PROVE  RosterInv
<1>1. Idle \notin FlagTx /\ Idle \notin MenuTx
  BY DEF Idle, FlagTx, MenuTx
<1>2. \A t \in Clients : tx[t] = Idle
  BY DEF Init
<1>3. Rows /\ OneMain
  BY DEF Init, Rows, OneMain
<1>4. Numbered
  <2>1. 0 \in 0..MaxPuts /\ 1..0 = {}
    BY DEF RosterAssumption
  <2>2. submitted \in [1..0 -> SUBSET Roles]
    BY <2>1 DEF Init
  <2> QED BY <2>1, <2>2 DEF Numbered
<1>5. Apart
  BY <1>1, <1>2 DEF Apart, Registering, Lifting
<1>6. MenuIsOneSubmission
  BY DEF Init, MenuIsOneSubmission
<1>7. \A t \in Clients : FlagFine(tx[t]) /\ MenuFine(tx[t])
  BY <1>1, <1>2 DEF FlagFine, MenuFine
<1> QED BY <1>3, <1>4, <1>5, <1>6, <1>7 DEF RosterInv

LEMMA RosterStep ==
  ASSUME RosterAssumption, RosterInv, [Next]_vars
  PROVE  RosterInv'
<1>1. ASSUME NEW t \in Clients, NEW c \in Characters, NEW b \in BOOLEAN,
             RegisterBegin(t, c, b) \/ SetMainBegin(t, c, b)
      PROVE  RosterInv'
  BY <1>1, RegisterBegins, MainBegins
<1>2. ASSUME NEW t \in Clients, CreateSees(t) \/ CreateDoes(t) \/ CreateFails(t)
      PROVE  RosterInv'
  BY <1>2, RegisterSteps
<1>3. ASSUME NEW t \in Clients,
             ClearSees(t) \/ ClearDoes(t) \/ SetDoes(t) \/ SetFails(t) \/ DemoteDoes(t)
      PROVE  RosterInv'
  BY <1>3, MainSteps
<1>4. ASSUME NEW t \in Clients, FlagCommit(t) PROVE RosterInv'
  BY <1>4, FlagCommits
<1>5. ASSUME NEW t \in Clients, NEW c \in Characters, NEW roles \in SUBSET Roles, PutRoles(t, c, roles)
      PROVE  RosterInv'
  BY <1>5, MenuBegins
<1>6. ASSUME NEW t \in Clients, DropSees(t) \/ DropDoes(t) PROVE RosterInv'
  BY <1>6, MenuDrops
<1>7. ASSUME NEW t \in Clients, NEW role \in Roles, AddRole(t, role) PROVE RosterInv'
  BY <1>7, MenuAdds
<1>8. ASSUME NEW t \in Clients, MenuCommit(t) PROVE RosterInv'
  BY <1>8, MenuCommits
<1>9. ASSUME NEW t \in Clients, TxAborts(t) PROVE RosterInv'
  BY <1>9, AbortFine DEF TxAborts
<1>10. ASSUME NEW c \in Characters, DeleteCharacter(c) PROVE RosterInv'
  BY <1>10, Deletes
<1>11. CASE UNCHANGED vars
  <2>0. UNCHANGED <<rows, used, main, menu, tx, submitted, raised, crossed>>
    BY <1>11 DEF vars
  <2>1. Rows' /\ Numbered' /\ OneMain' /\ Apart' /\ MenuIsOneSubmission'
    BY <2>0 DEF RosterInv, Rows, Numbered, OneMain, Apart, MenuIsOneSubmission, Registering, Lifting
  <2>2. ASSUME NEW t \in Clients PROVE FlagFine(tx[t])' /\ MenuFine(tx[t])'
    <3>1. FlagFine(tx[t]) /\ MenuFine(tx[t])
      BY DEF RosterInv
    <3> QED BY <2>0, <3>1 DEF FlagFine, MenuFine
  <2> QED BY <2>1, <2>2 DEF RosterInv
<1>12. CASE Next
  BY <1>12, <1>1, <1>2, <1>3, <1>4, <1>5, <1>6, <1>7, <1>8, <1>9, <1>10 DEF Next
<1> QED BY <1>11, <1>12

\* The raider's rows are well formed whatever the clients do, and at most one is the main
\* (the index characters_one_main_per_user).
THEOREM RosterTyped == Spec => []TypeOK
<1>1. Init => RosterInv
  BY RosterInit, RosterAssumption
<1>2. RosterInv /\ [Next]_vars => RosterInv'
  BY RosterStep, RosterAssumption
<1>3. RosterInv => TypeOK
  <2> SUFFICES ASSUME RosterInv PROVE TypeOK
    OBVIOUS
  <2>1. Cardinality(main) <= 1
    <3>1. CASE main = {}
      BY <3>1, FS_EmptySet
    <3>2. CASE main # {}
      <4>1. PICK m \in main : TRUE
        BY <3>2
      <4>2. main = {m}
        BY <4>1 DEF RosterInv, OneMain
      <4>3. Cardinality({m}) = 1
        BY FS_Singleton
      <4> QED BY <4>2, <4>3
    <3> QED BY <3>1, <3>2
  <2>2. submitted \in [1..Cardinality(DOMAIN submitted) -> SUBSET Roles]
    <3>1. PICK n \in 0..MaxPuts : submitted \in [1..n -> SUBSET Roles]
      BY DEF RosterInv, Numbered
    <3>2. Cardinality(DOMAIN submitted) = n
      <4>1. DOMAIN submitted = 1..n /\ n \in Int
        BY <3>1
      <4>2. Cardinality(1..n) = IF 1 > n THEN 0 ELSE n - 1 + 1
        BY <4>1, FS_Interval
      <4> QED BY RosterAssumption, <3>1, <4>1, <4>2 DEF RosterAssumption
    <3> QED BY <3>1, <3>2
  <2> QED BY <2>1, <2>2 DEF RosterInv, Rows, TypeOK
<1> QED BY <1>1, <1>2, <1>3, PTL DEF Spec

\* Two registrations of one raider never meet in the index (createCharacterRequest asks for
\* the main flag on every registration): for any number of clients, whatever fails.
THEOREM RegistrationsDoNotMeet == Spec => []RegistrationsNeverCollide
<1>1. Init => RosterInv
  BY RosterInit, RosterAssumption
<1>2. RosterInv /\ [Next]_vars => RosterInv'
  BY RosterStep, RosterAssumption
<1>3. RosterInv => RegistrationsNeverCollide
  <2> SUFFICES ASSUME RosterInv, NEW t \in Clients, tx[t].at = "inserting", tx[t].want, main # {}
               PROVE  raised = "promote"
    BY DEF RegistrationsNeverCollide
  <2> QED BY Kinds DEF RosterInv, FlagFine
<1> QED BY <1>1, <1>2, <1>3, PTL DEF Spec

\* A stored role menu is one submission, whole (ReplaceCharacterRoles), unless another was
\* committed while it looked: for any number of replacements under way.
THEOREM MenusAreWhole == Spec => []MenuIsOneSubmission
<1>1. Init => RosterInv
  BY RosterInit, RosterAssumption
<1>2. RosterInv /\ [Next]_vars => RosterInv'
  BY RosterStep, RosterAssumption
<1>3. RosterInv => MenuIsOneSubmission
  BY DEF RosterInv
<1> QED BY <1>1, <1>2, <1>3, PTL DEF Spec

\* The last main is given up, deleted, or lost to the deletion of the one being promoted
\* (SetCharacterMain): no failure and no interleaving of any number of clients takes it.
THEOREM MainsAreKept == Spec => KeepsAMain
<1> DEFINE Kept == main # {} /\ main' = {} =>
             rows' # rows \/ \E t \in Clients : tx[t] # Idle /\ tx'[t] = Idle /\ Forfeits(t)
<1>1. Init => RosterInv
  BY RosterInit, RosterAssumption
<1>2. RosterInv /\ [Next]_vars => RosterInv'
  BY RosterStep, RosterAssumption
<1>3. RosterInv /\ [Next]_vars => [Kept]_vars
  <2> SUFFICES ASSUME RosterInv, Next, main # {}, main' = {}, rows' = rows
               PROVE  \E t \in Clients : tx[t] # Idle /\ tx'[t] = Idle /\ Forfeits(t)
    OBVIOUS
  <2>1. ASSUME NEW t \in Clients, FlagCommit(t)
        PROVE  \E u \in Clients : tx[u] # Idle /\ tx'[u] = Idle /\ Forfeits(u)
    <3>1. tx[t] \in FlagTx /\ tx[t] # Idle /\ tx[t].at = "done" /\ FlagFine(tx[t])
      BY <2>1, Kinds DEF RosterInv, FlagCommit
    <3>2. tx'[t] = Idle
      BY <2>1 DEF FlagCommit, Step, RosterInv, Rows
    <3>3. tx[t].cleared # {} /\ tx[t].lifted = {}
      BY <2>1 DEF FlagCommit
    <3>4. tx[t].kind \in {"promote", "demote", "register"}
      BY <3>1 DEF FlagTx
    <3> QED BY <3>1, <3>2, <3>3, <3>4 DEF FlagFine, Forfeits
  <2>2. ASSUME NEW c \in Characters, DeleteCharacter(c) PROVE FALSE
    BY <2>2 DEF DeleteCharacter
  <2>3. ASSUME UNCHANGED main PROVE FALSE
    BY <2>3
  <2>4. ASSUME NEW t \in Clients PROVE ~ (TxAborts(t) \/ CreateFails(t) \/ SetFails(t))
    BY <2>3 DEF TxAborts, CreateFails, SetFails, Abort, table
  <2>5. ASSUME NEW t \in Clients, NEW c \in Characters PROVE \A b \in BOOLEAN : ~RegisterBegin(t, c, b) /\ ~SetMainBegin(t, c, b)
    BY <2>3 DEF RegisterBegin, SetMainBegin, table
  <2>6. ASSUME NEW t \in Clients
        PROVE  ~ (CreateSees(t) \/ CreateDoes(t) \/ ClearSees(t) \/ ClearDoes(t) \/ SetDoes(t) \/ DemoteDoes(t))
    BY <2>3 DEF CreateSees, CreateDoes, ClearSees, ClearDoes, SetDoes, DemoteDoes, table
  <2>7. ASSUME NEW t \in Clients
        PROVE  /\ ~ (DropSees(t) \/ DropDoes(t) \/ MenuCommit(t))
               /\ \A role \in Roles : ~AddRole(t, role)
               /\ \A c \in Characters, roles \in SUBSET Roles : ~PutRoles(t, c, roles)
    BY <2>3 DEF DropSees, DropDoes, MenuCommit, AddRole, PutRoles, table
  <2> QED BY <2>1, <2>2, <2>4, <2>5, <2>6, <2>7 DEF Next
<1>4. RosterInv /\ RosterInv' /\ [Next]_vars => [Kept]_vars
  BY <1>3
<1> QED BY <1>1, <1>2, <1>4, PTL DEF Spec, KeepsAMain
=============================================================================
