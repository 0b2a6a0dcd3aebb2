----------------------------- MODULE RosterRedraw -----------------------------
(***************************************************************************)
(* Keeping one posted raid card in step with its raiders' synced data:     *)
(* the syncer (roster/sync.go) takes the characters longest untried,       *)
(* fetches each, and where it finds a difference ApplySync                 *)
(* (roster/store.go) writes it together with a ROSTER_UPDATED row, unless  *)
(* the partial unique index notifications_roster_updated_pending says one  *)
(* is already waiting; the bot claims the row, reads the roster, edits the *)
(* card and acks, or reports that Discord refused it.                      *)
(*                                                                         *)
(* The profile is fetched and compared before ApplySync begins, and its    *)
(* transaction is two steps, its writes and its commit, because what the   *)
(* INSERT finds in the index may no longer be so when the data it speaks   *)
(* for becomes visible.                                                    *)
(***************************************************************************)
EXTENDS Integers, Sequences, FiniteSets

CONSTANTS
  Characters,   \* raiders signed up to the event
  Workers,      \* processes that sync
  Bots,         \* processes that draw
  Limit,        \* SYNC_BATCH
  MaxSyncs,     \* profile changes ever seen (bound)
  MaxLosses,    \* draws that die under way (bound)
  NoOne         \* the character of an idle worker

ASSUME RedrawAssumption ==
  /\ IsFiniteSet(Characters) /\ IsFiniteSet(Workers)
  /\ Limit \in Nat \ {0} /\ MaxSyncs \in Nat /\ MaxLosses \in Nat
  /\ NoOne \notin Characters

VARIABLES
  actual,    \* the profile Raider.IO has of each character, by version
  stored,    \* the version in characters and its latest snapshot
  card,      \* the version the posted card shows
  turn,      \* each character's place by sync_attempted_at, the oldest first
  fresh,     \* those tried within SYNC_STALE_AFTER
  batch,     \* what each worker has listed and not yet tried, in order
  sync,      \* each worker's character: its fetched profile, or the open transaction
  pending,   \* a committed ROSTER_UPDATED row, neither claimed nor delivered
  lapsed,    \* claimed rows whose bot died: the lease brings them back
  draw,      \* what each bot is drawing
  crossed,   \* history: the workers whose open sync leans on a row claimed meanwhile
  adrift,    \* history: since the roster was last read, such a sync committed or a draw was refused
  passed,    \* history: recorded tries of others since a character fell due or was tried
  losses

vars == <<actual, stored, card, turn, fresh, batch, sync, pending, lapsed, draw, crossed,
          adrift, passed, losses>>
history == <<crossed, adrift>>
tries == <<turn, fresh, batch, passed>>

Last == Cardinality(Characters)

Versions == 0..MaxSyncs

\* Each worker tries each of the others at most once before it comes to this one.
FairShare == Cardinality(Workers) * (Cardinality(Characters) - 1)

Resting == [char |-> NoOne, version |-> 0, row |-> "idle"]
Waiting == [at |-> "idle", read |-> [c \in Characters |-> 0]]

\* row: no transaction yet, or one that inserted a redraw of its own, or one that leans
\* on the pending one.
SyncState ==
  {Resting} \union [char : Characters, version : Versions, row : {"fetched", "own", "pending"}]

TypeOK ==
  /\ actual \in [Characters -> Versions]
  /\ stored \in [Characters -> Versions]
  /\ card \in [Characters -> Versions]
  /\ turn \in [Characters -> 1..Last]
  /\ fresh \subseteq Characters
  /\ batch \in [Workers -> UNION {[1..n -> Characters] : n \in 0..Limit}]
  /\ passed \in [Characters -> 0..(FairShare + 1)]
  /\ sync \in [Workers -> SyncState]
  /\ pending \in BOOLEAN
  /\ lapsed \in 0..MaxLosses
  /\ draw \in [Bots -> [at : {"idle", "claimed", "read"}, read : [Characters -> Versions]]]
  /\ crossed \subseteq Workers
  /\ adrift \in BOOLEAN
  /\ losses \in 0..MaxLosses

Init ==
  /\ actual = [c \in Characters |-> 0]
  /\ stored = actual
  /\ card = actual
  /\ turn \in [Characters -> 1..Last]
  /\ \A c, d \in Characters : turn[c] = turn[d] => c = d
  /\ fresh = {}
  /\ batch = [w \in Workers |-> <<>>]
  /\ passed = [c \in Characters |-> 0]
  /\ sync = [w \in Workers |-> Resting]
  /\ pending = FALSE
  /\ lapsed = 0
  /\ draw = [b \in Bots |-> Waiting]
  /\ crossed = {}
  /\ adrift = FALSE
  /\ losses = 0

-----------------------------------------------------------------------------
(* The syncer.                                                             *)

\* A raider's gear moves; bounded by MaxSyncs over the whole run.
GearMoves(c) ==
  /\ actual[c] < MaxSyncs
  /\ actual' = [actual EXCEPT ![c] = @ + 1]
  /\ UNCHANGED <<stored, card, tries, sync, pending, lapsed, draw, history, losses>>

\* MUTANT: claimed rows count as waiting too.
AlreadyQueued_Claimed == pending \/ \E b \in Bots : draw[b].at # "idle"

\* What notifications_roster_updated_pending covers among committed rows.
AlreadyQueued == pending

\* A transaction that has made its writes and not committed.
Open(w) == sync[w].row \in {"own", "pending"}

\* The index makes a second inserter wait for the first one's transaction, and the
\* row lock on the character makes a second syncer of it wait.
Unblocked(w) ==
  \A v \in Workers \ {w} : Open(v) =>
    sync[v].char # sync[w].char /\ (sync[v].row = "own" => AlreadyQueued)

\* MUTANT: a try is not recorded.
Retried_Unmarked(c) == [turn |-> turn, fresh |-> fresh]

\* sync_attempted_at = now(): last in the queue, and not due.  The time is the start of
\* the transaction; the model takes its end, the transactions being short beside
\* SYNC_STALE_AFTER.
Retried(c) ==
  [turn |-> [d \in Characters |-> IF d = c THEN Last ELSE IF turn[d] > turn[c] THEN turn[d] - 1 ELSE turn[d]],
   fresh |-> fresh \union {c}]

\* The worker is through with the head of its batch, and the row says so.
Tried(w) ==
  LET c == Head(batch[w])
  IN /\ turn' = Retried(c).turn
     /\ fresh' = Retried(c).fresh
     /\ batch' = [batch EXCEPT ![w] = Tail(@)]
     /\ passed' = [d \in Characters |->
                     IF d = c \/ d \in fresh THEN 0
                     ELSE IF passed[d] > FairShare THEN passed[d] ELSE passed[d] + 1]

\* It is through with it, but the mark failed as well, which is only logged: the row
\* keeps its place and stays due, and the batch goes on.
TriedUnmarked(w) ==
  /\ batch' = [batch EXCEPT ![w] = Tail(@)]
  /\ passed' = [passed EXCEPT ![Head(batch[w])] = 0]
  /\ UNCHANGED <<turn, fresh>>

\* Not tried: the row keeps its place.
Dropped(w) ==
  /\ batch' = [batch EXCEPT ![w] = <<>>]
  /\ UNCHANGED <<turn, fresh, passed>>

Elsewhere == UNCHANGED <<actual, card, lapsed, draw, losses>>

\* Nobody else's open transaction holds the row of c.
Unheld(w, c) == \A v \in Workers \ {w} : Open(v) => sync[v].char # c

\* SYNC_STALE_AFTER passes for the one tried longest ago.
TurnsStale ==
  /\ \E c \in fresh :
       /\ \A d \in fresh : turn[c] <= turn[d]
       /\ fresh' = fresh \ {c}
  /\ UNCHANGED <<stored, turn, batch, passed, sync, pending, history>> /\ Elsewhere

Due == Characters \ fresh

\* DueForSync: the first Limit of those due, in the order of their turns.  Nothing keeps
\* two workers off one character.
ListDue(w) ==
  /\ batch[w] = <<>>
  /\ Due # {}
  /\ \E s \in [1..(IF Cardinality(Due) < Limit THEN Cardinality(Due) ELSE Limit) -> Due] :
       /\ \A i, j \in DOMAIN s : i < j => turn[s[i]] < turn[s[j]]
       /\ \A c \in Due : (\E i \in DOMAIN s : s[i] = c) \/ (\A i \in DOMAIN s : turn[s[i]] < turn[c])
       /\ batch' = [batch EXCEPT ![w] = s]
  /\ UNCHANGED <<stored, turn, fresh, passed, sync, pending, history>> /\ Elsewhere

\* The next one's profile is fetched, and differs from the latest snapshot.  (What a
\* snapshot lacks is compared with the row as listed, at worst for a redraw too many.)
FetchProfile(w) ==
  LET c == Head(batch[w])
  IN /\ batch[w] # <<>>
     /\ sync[w] = Resting
     /\ actual[c] # stored[c]
     /\ sync' = [sync EXCEPT ![w] = [char |-> c, version |-> actual[c], row |-> "fetched"]]
     /\ UNCHANGED <<stored, tries, pending, history>> /\ Elsewhere

\* It is the same, or Raider.IO does not know the character, or the fetch fails: the row
\* is touched, marked missing or marked tried, once nobody else holds it; or not even
\* that succeeds.
FetchSettled(w) ==
  /\ batch[w] # <<>>
  /\ sync[w] = Resting
  /\ (Unheld(w, Head(batch[w])) /\ Tried(w)) \/ TriedUnmarked(w)
  /\ UNCHANGED <<stored, sync, pending, history>> /\ Elsewhere

\* Rate limited, or a rejected key: the rest of the batch would fare no better.
AbandonBatch(w) ==
  /\ batch[w] # <<>>
  /\ sync[w] = Resting
  /\ Dropped(w)
  /\ UNCHANGED <<stored, sync, pending, history>> /\ Elsewhere

\* ApplySync has made its writes: the character, the snapshot, and the redraw or its
\* suppression (ON CONFLICT DO NOTHING).
ApplySyncWrites(w) ==
  /\ sync[w].row = "fetched"
  /\ Unblocked(w)
  /\ sync' = [sync EXCEPT ![w].row = IF AlreadyQueued THEN "pending" ELSE "own"]
  /\ UNCHANGED <<stored, tries, pending, history>> /\ Elsewhere

\* Its data becomes visible, and the row it leaned on may be in a bot's hands by now.
ApplySyncCommits(w) ==
  /\ Open(w)
  /\ stored' = [stored EXCEPT ![sync[w].char] = sync[w].version]
  /\ pending' = (pending \/ sync[w].row = "own")
  /\ sync' = [sync EXCEPT ![w] = Resting]
  /\ crossed' = crossed \ {w}
  /\ adrift' = (adrift \/ w \in crossed)
  /\ Tried(w) /\ Elsewhere

\* A statement of it fails: neither the data nor the redraw lands, and the row is marked
\* tried, unless that fails too.
ApplySyncFails(w) ==
  /\ sync[w] # Resting
  /\ sync' = [sync EXCEPT ![w] = Resting]
  /\ crossed' = crossed \ {w}
  /\ (Unheld(w, sync[w].char) /\ Tried(w)) \/ TriedUnmarked(w)
  /\ UNCHANGED <<stored, pending, adrift>> /\ Elsewhere

\* The worker dies under way.
SyncLost(w) ==
  /\ batch[w] # <<>>
  /\ sync' = [sync EXCEPT ![w] = Resting]
  /\ crossed' = crossed \ {w}
  /\ Dropped(w)
  /\ UNCHANGED <<stored, pending, adrift>> /\ Elsewhere

-----------------------------------------------------------------------------
(* The bot.                                                                *)

Reclaimable == lapsed > 0

ClaimRedraw(b) ==
  /\ draw[b].at = "idle"
  /\ \/ /\ pending
        /\ pending' = FALSE
        /\ crossed' = crossed \union {w \in Workers : sync[w].row = "pending"}
        /\ UNCHANGED lapsed
     \/ /\ Reclaimable
        /\ lapsed' = lapsed - 1
        /\ UNCHANGED <<pending, crossed>>
  /\ draw' = [draw EXCEPT ![b].at = "claimed"]
  /\ UNCHANGED <<actual, stored, card, tries, sync, adrift, losses>>

\* The bot fetches the event to render it.
ReadRoster(b) ==
  /\ draw[b].at = "claimed"
  /\ draw' = [draw EXCEPT ![b] = [at |-> "read", read |-> stored]]
  /\ adrift' = FALSE
  /\ UNCHANGED <<actual, stored, card, tries, sync, pending, lapsed, crossed, losses>>

\* It edits the card and acks the row.
EditCard(b) ==
  /\ draw[b].at = "read"
  /\ card' = draw[b].read
  /\ draw' = [draw EXCEPT ![b] = Waiting]
  /\ UNCHANGED <<actual, stored, tries, sync, pending, lapsed, history, losses>>

\* Discord refuses the edit for good: MarkFailed acks the row like a delivered one, tells
\* the raid leads (Outbox), and leaves the card as it is.
DrawRefused(b) ==
  /\ draw[b].at = "read"
  /\ draw' = [draw EXCEPT ![b] = Waiting]
  /\ adrift' = TRUE
  /\ UNCHANGED <<actual, stored, card, tries, sync, pending, lapsed, crossed, losses>>

\* It dies before the ack.
DrawLost(b) ==
  /\ draw[b].at # "idle"
  /\ losses < MaxLosses
  /\ losses' = losses + 1
  /\ lapsed' = lapsed + 1
  /\ draw' = [draw EXCEPT ![b] = Waiting]
  /\ UNCHANGED <<actual, stored, card, tries, sync, pending, history>>

BotStep(b) == ClaimRedraw(b) \/ ReadRoster(b) \/ EditCard(b) \/ DrawRefused(b)

Next ==
  \/ \E c \in Characters : GearMoves(c)
  \/ TurnsStale
  \/ \E w \in Workers :
       \/ ListDue(w) \/ FetchProfile(w) \/ FetchSettled(w) \/ AbandonBatch(w)
       \/ ApplySyncWrites(w) \/ ApplySyncCommits(w) \/ ApplySyncFails(w) \/ SyncLost(w)
  \/ \E b \in Bots : BotStep(b) \/ DrawLost(b)

Spec == Init /\ [][Next]_vars

-----------------------------------------------------------------------------
(* Properties.                                                             *)

\* Nothing is waiting to be drawn, being drawn, or about to be committed.
Quiet ==
  /\ ~pending
  /\ lapsed = 0
  /\ \A b \in Bots : draw[b].at = "idle"
  /\ \A w \in Workers : ~Open(w)

\* Once all is quiet the card shows what is stored: no redraw "is lost for one that
\* was not" rolled back (notification.sql:14-17).
NoneIsLost == Quiet => card = stored

\* Whatever the card does not show yet has somebody due to draw it: a waiting or
\* reclaimable row, or a bot that has not read since.  That is why the index leaves
\* claimed rows out (migrations/00001_baseline.sql:247-249).  With one bot drawing, a card
\* falls behind unowed in two ways only, and for no longer than until the next draw reads
\* the roster: a sync committed whose row was claimed before it, or a refused draw was acked
\* (outbox.go:98-106).
StaleIsOwed ==
  ~adrift /\ card # stored =>
    \/ pending
    \/ lapsed > 0
    \/ \E b \in Bots : draw[b].at = "claimed" \/ (draw[b].at = "read" /\ draw[b].read = stored)

\* A character that is due comes up before any worker has recorded a second try of
\* another: one that keeps failing "must not hold the head of every batch"
\* (ListCharactersDueForSync).  A try whose mark fails as well is not counted: that row
\* does hold the head until a mark of it succeeds (sync.go:95-99).
NoneIsPassedOver == \A c \in Characters : passed[c] <= FairShare
=============================================================================
