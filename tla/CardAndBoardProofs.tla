-------------------------- MODULE CardAndBoardProofs --------------------------
(***************************************************************************)
(* Proofs about the card a raid is shown on and the comp it is seated in.  *)
(*                                                                         *)
(* The card: for any raiders, any number of workers and any batch size,    *)
(* with one bot drawing it never falls behind unnoticed, and nobody's sync *)
(* is passed over for long.                                                *)
(*                                                                         *)
(* The board: for any pool, menus and template, what the greedy passes and *)
(* the swaps of the auto-assigner leave.  What is asked of a finished      *)
(* board is inductive once it is stated of every board on the way; last    *)
(* comes why the bound on the swaps is never what stops them.              *)
(***************************************************************************)
EXTENDS RosterRedraw, Assign, FiniteSetTheorems, SequenceTheorems, WellFoundedInduction, TLAPS

\* As much of the types as the argument rests on.
Shaped ==
  /\ lapsed \in Nat
  /\ DOMAIN sync = Workers /\ DOMAIN draw = Bots
  /\ \A b \in Bots : "at" \in DOMAIN draw[b] /\ draw[b].at \in {"idle", "claimed", "read"}

\* A sync that left the redraw to a waiting row still finds it waiting, or is known not to.
LeaningIsHeld == \A w \in Workers : sync[w].row = "pending" => pending \/ w \in crossed

\* What a bot read and does not hold for true any more is owed a redraw.
StaleReadIsOwed ==
  ~adrift => \A b \in Bots : draw[b].at = "read" /\ draw[b].read # stored => pending \/ lapsed > 0

RedrawInv == Shaped /\ LeaningIsHeld /\ StaleReadIsOwed /\ StaleIsOwed

\* A step of the syncer that stores nothing, and leans on a row only if it waits.
LEMMA NothingStored ==
  ASSUME RedrawInv, NEW w \in Workers, NEW s, sync' = [sync EXCEPT ![w] = s], s.row = "pending" => pending,
         crossed' = crossed \/ crossed' = crossed \ {w},
         UNCHANGED <<stored, card, pending, lapsed, draw, adrift>>
  PROVE  RedrawInv'
<1>1. Shaped'
  BY DEF RedrawInv, Shaped
<1>2. LeaningIsHeld'
  BY DEF RedrawInv, Shaped, LeaningIsHeld
<1>3. StaleReadIsOwed' /\ StaleIsOwed'
  BY DEF RedrawInv, StaleReadIsOwed, StaleIsOwed
<1> QED BY <1>1, <1>2, <1>3 DEF RedrawInv

\* Every step keeps it, if one bot draws.
LEMMA RedrawHolds ==
  ASSUME \A b, c \in Bots : b = c, RedrawInv, [Next]_vars
  PROVE  RedrawInv'
<1>1. ASSUME UNCHANGED <<stored, card, sync, pending, lapsed, draw, crossed, adrift>> PROVE RedrawInv'
  BY <1>1 DEF RedrawInv, Shaped, LeaningIsHeld, StaleReadIsOwed, StaleIsOwed
<1>2. ASSUME NEW w \in Workers, FetchProfile(w) PROVE RedrawInv'
  BY <1>2, NothingStored DEF FetchProfile, history, Elsewhere
<1>3. ASSUME NEW w \in Workers, ApplySyncWrites(w) PROVE RedrawInv'
  <2> DEFINE s == [sync[w] EXCEPT !.row = IF AlreadyQueued THEN "pending" ELSE "own"]
  <2>1. sync' = [sync EXCEPT ![w] = s]
    BY <1>3 DEF ApplySyncWrites
  <2>2. s.row = "pending" => pending
    BY <1>3 DEF ApplySyncWrites, AlreadyQueued
  <2> HIDE DEF s
  <2> QED BY <1>3, <2>1, <2>2, NothingStored DEF ApplySyncWrites, history, Elsewhere
<1>4. ASSUME NEW w \in Workers, ApplySyncFails(w) \/ SyncLost(w) PROVE RedrawInv'
  <2>1. Resting.row # "pending"
    BY DEF Resting
  <2> QED BY <1>4, <2>1, NothingStored DEF ApplySyncFails, SyncLost, Elsewhere
<1>5. ASSUME NEW w \in Workers, ApplySyncCommits(w) PROVE RedrawInv'
  <2>1. /\ sync[w].row \in {"own", "pending"} /\ pending' = (pending \/ sync[w].row = "own")
        /\ sync' = [sync EXCEPT ![w] = Resting]
        /\ crossed' = crossed \ {w} /\ adrift' = (adrift \/ w \in crossed)
        /\ UNCHANGED <<card, lapsed, draw>>
    BY <1>5 DEF ApplySyncCommits, Open, Elsewhere
  <2>2. adrift' \/ pending'
    BY <2>1 DEF RedrawInv, LeaningIsHeld
  <2>3. Shaped'
    BY <2>1 DEF RedrawInv, Shaped
  <2>4. LeaningIsHeld'
    <3>1. ASSUME NEW v \in Workers, sync'[v].row = "pending" PROVE v # w /\ sync[v].row = "pending"
      BY <2>1, <3>1 DEF RedrawInv, Shaped, Resting
    <3> QED BY <2>1, <3>1 DEF RedrawInv, LeaningIsHeld
  <2>5. StaleReadIsOwed' /\ StaleIsOwed'
    BY <2>1, <2>2 DEF StaleReadIsOwed, StaleIsOwed
  <2> QED BY <2>3, <2>4, <2>5 DEF RedrawInv
<1>6. ASSUME NEW b \in Bots, ClaimRedraw(b) PROVE RedrawInv'
  <2>1. /\ draw[b].at = "idle" /\ draw' = [draw EXCEPT ![b].at = "claimed"]
        /\ UNCHANGED <<stored, card, sync, adrift>>
    BY <1>6 DEF ClaimRedraw
  <2>2. draw'[b].at = "claimed" /\ \A c \in Bots : c = b
    BY <2>1 DEF RedrawInv, Shaped
  <2>3. Shaped'
    BY <1>6, <2>1, <2>2 DEF ClaimRedraw, Reclaimable, RedrawInv, Shaped
  <2>4. \/ crossed' = crossed \union {w \in Workers : sync[w].row = "pending"}
        \/ pending' = pending /\ crossed' = crossed
    BY <1>6 DEF ClaimRedraw
  <2>5. LeaningIsHeld'
    BY <2>1, <2>4 DEF RedrawInv, LeaningIsHeld
  <2> QED BY <2>2, <2>3, <2>5 DEF RedrawInv, StaleReadIsOwed, StaleIsOwed
<1>7. ASSUME NEW b \in Bots, ReadRoster(b) PROVE RedrawInv'
  <2>1. /\ draw' = [draw EXCEPT ![b] = [at |-> "read", read |-> stored]]
        /\ UNCHANGED <<stored, card, sync, pending, lapsed, crossed>>
    BY <1>7 DEF ReadRoster
  <2>2. draw'[b].at = "read" /\ draw'[b].read = stored' /\ \A c \in Bots : c = b
    BY <2>1 DEF RedrawInv, Shaped
  <2>3. Shaped'
    BY <2>1, <2>2 DEF RedrawInv, Shaped
  <2> QED BY <2>1, <2>2, <2>3 DEF RedrawInv, LeaningIsHeld, StaleReadIsOwed, StaleIsOwed
<1>8. ASSUME NEW b \in Bots, EditCard(b) PROVE RedrawInv'
  <2>1. /\ draw[b].at = "read" /\ card' = draw[b].read /\ draw' = [draw EXCEPT ![b] = Waiting]
        /\ UNCHANGED <<stored, sync, pending, lapsed, crossed, adrift>>
    BY <1>8 DEF EditCard, history
  <2>2. draw'[b] = Waiting /\ Waiting.at = "idle" /\ "at" \in DOMAIN Waiting /\ \A c \in Bots : c = b
    BY <2>1 DEF RedrawInv, Shaped, Waiting
  <2>3. Shaped'
    BY <2>1, <2>2 DEF RedrawInv, Shaped
  <2> QED BY <2>1, <2>2, <2>3 DEF RedrawInv, LeaningIsHeld, StaleReadIsOwed, StaleIsOwed
<1>9. ASSUME NEW b \in Bots, DrawLost(b) PROVE RedrawInv'
  <2>1. /\ lapsed' = lapsed + 1 /\ draw' = [draw EXCEPT ![b] = Waiting]
        /\ UNCHANGED <<stored, card, sync, pending, crossed, adrift>>
    BY <1>9 DEF DrawLost, history
  <2>2. draw'[b] = Waiting /\ Waiting.at = "idle" /\ "at" \in DOMAIN Waiting /\ \A c \in Bots : c = b
    BY <2>1 DEF RedrawInv, Shaped, Waiting
  <2>3. Shaped' /\ lapsed' > 0
    BY <2>1, <2>2 DEF RedrawInv, Shaped
  <2> QED BY <2>1, <2>2, <2>3 DEF RedrawInv, LeaningIsHeld, StaleReadIsOwed, StaleIsOwed
<1>10. ASSUME NEW b \in Bots, DrawRefused(b) PROVE RedrawInv'
  <2>1. /\ draw' = [draw EXCEPT ![b] = Waiting] /\ adrift'
        /\ UNCHANGED <<stored, card, sync, pending, lapsed, crossed>>
    BY <1>10 DEF DrawRefused
  <2>2. draw'[b] = Waiting /\ Waiting.at = "idle" /\ "at" \in DOMAIN Waiting
    BY <2>1 DEF RedrawInv, Shaped, Waiting
  <2>3. Shaped'
    BY <2>1, <2>2 DEF RedrawInv, Shaped
  <2> QED BY <2>1, <2>3 DEF RedrawInv, LeaningIsHeld, StaleReadIsOwed, StaleIsOwed
<1> QED BY <1>1, <1>2, <1>3, <1>4, <1>5, <1>6, <1>7, <1>8, <1>9, <1>10 DEF Next, BotStep, GearMoves, TurnsStale,
        ListDue, FetchSettled, AbandonBatch, Elsewhere, history, vars

\* Before the first sync every card shows what is stored.
LEMMA RedrawBegins == Init => RedrawInv
  BY DEF Init, RedrawInv, Shaped, LeaningIsHeld, StaleReadIsOwed, StaleIsOwed, Resting, Waiting

\* With one bot, whatever a card does not show yet somebody is due to draw, however the
\* syncs' transactions, the claims and the bot's deaths interleave, unless since the roster
\* was last read a sync committed whose row had been claimed meanwhile, or a draw was refused.
THEOREM StaleCardsAreOwed ==
  ASSUME \A b, c \in Bots : b = c
  PROVE  Spec => []StaleIsOwed
<1>1. RedrawInv /\ [Next]_vars => RedrawInv'
  BY RedrawHolds
<1>2. RedrawInv => StaleIsOwed
  BY DEF RedrawInv
<1> QED BY <1>1, <1>2, RedrawBegins, PTL DEF Spec

\* With one bot, once nothing is waiting, held or about to commit, the card shows what is
\* stored, unless since the roster was last read a claim crossed a sync that then committed
\* or Discord refused the draw: ApplySync's coalescing (roster/store.go) and the ack of a
\* refused row (outbox.go:98-106) leave a card behind, and nothing else does.
THEOREM QuietCardsAreCurrent ==
  ASSUME \A b, c \in Bots : b = c
  PROVE  Spec => [](~adrift => NoneIsLost)
<1>1. StaleIsOwed => (~adrift => NoneIsLost)
  BY DEF StaleIsOwed, NoneIsLost, Quiet
<1> QED BY <1>1, StaleCardsAreOwed, PTL
-----------------------------------------------------------------------------
(* Types.  Two facts they need: no more claims lapse than draws are lost,  *)
(* and a worker that has fetched a profile still has its character at hand. *)

Engaged == \A w \in Workers : sync[w] # Resting => batch[w] # <<>>

TypeInv == TypeOK /\ lapsed <= losses /\ Engaged

Batches == UNION {[1..n -> Characters] : n \in 0..Limit}

\* A batch is no longer than the query's limit.
LEMMA BatchLength ==
  ASSUME NEW s \in Batches
  PROVE  \E n \in 0..Limit : s \in [1..n -> Characters]
  BY DEF Batches

\* A batch without its head.
LEMMA BatchTail ==
  ASSUME NEW s \in Batches, s # <<>>
  PROVE  /\ 1 \in DOMAIN s /\ Head(s) = s[1] /\ Head(s) \in Characters /\ Tail(s) \in Batches
         /\ \A i \in DOMAIN Tail(s) : i + 1 \in DOMAIN s /\ Tail(s)[i] = s[i + 1]
<1>1. PICK n \in 0..Limit : s \in [1..n -> Characters]
  BY DEF Batches
<1>2. s \in Seq(Characters) /\ Len(s) = n /\ n # 0
  BY <1>1, RedrawAssumption DEF RedrawAssumption
<1>3. /\ Tail(s) \in Seq(Characters) /\ Len(Tail(s)) = n - 1
      /\ \A i \in 1..(n - 1) : Tail(s)[i] = s[i + 1]
  BY <1>2
<1>4. Tail(s) \in [1..(n - 1) -> Characters] /\ n - 1 \in 0..Limit
  <2>1. n - 1 \in 0..Limit
    BY <1>2, RedrawAssumption DEF RedrawAssumption
  <2>2. PICK m \in Nat : Tail(s) \in [1..m -> Characters]
    <3>1. Tail(s) \in UNION {[1..m -> Characters] : m \in Nat}
      BY <1>3, SeqDef, Zenon
    <3> QED BY <3>1
  <2>3. m = n - 1
    BY <1>3, <2>1, <2>2
  <2> QED BY <2>1, <2>2, <2>3
<1>5. Tail(s) \in Batches
  BY <1>4 DEF Batches
<1> QED BY <1>1, <1>2, <1>3, <1>5

\* The last place of the queue is a number.
LEMMA LastIsNat == Last \in Nat
  BY FS_CardinalityType, RedrawAssumption DEF RedrawAssumption, Last

\* So is how often a character may be passed over.
LEMMA FairShareIsInt == FairShare \in Int
  BY FS_CardinalityType, RedrawAssumption DEF RedrawAssumption, FairShare

\* The places stay places.
LEMMA RetriedTyped ==
  ASSUME turn \in [Characters -> 1..Last], fresh \subseteq Characters, NEW c \in Characters
  PROVE  Retried(c).turn \in [Characters -> 1..Last] /\ Retried(c).fresh \subseteq Characters
<1>1. ASSUME NEW d \in Characters PROVE Retried(c).turn[d] \in 1..Last
  BY LastIsNat DEF Retried
<1> QED BY <1>1 DEF Retried

\* A try keeps the types of the queue and of the worker's batch.
LEMMA TriedTyped ==
  ASSUME TypeOK, NEW w \in Workers, batch[w] # <<>>, Tried(w)
  PROVE  /\ turn' \in [Characters -> 1..Last] /\ fresh' \subseteq Characters
         /\ batch' \in [Workers -> Batches] /\ passed' \in [Characters -> 0..(FairShare + 1)]
<1> DEFINE h == Head(batch[w])
<1>1. h \in Characters /\ Tail(batch[w]) \in Batches
  BY BatchTail DEF TypeOK, Batches
<1>2. turn' \in [Characters -> 1..Last] /\ fresh' \subseteq Characters
  BY <1>1, RetriedTyped DEF Tried, TypeOK
<1>3. batch' \in [Workers -> Batches]
  BY <1>1 DEF Tried, TypeOK, Batches
<1>4. ASSUME NEW d \in Characters PROVE passed'[d] \in 0..(FairShare + 1)
  BY FairShareIsInt DEF Tried, TypeOK
<1> QED BY <1>2, <1>3, <1>4 DEF Tried

\* So does a try whose mark fails.
LEMMA TriedUnmarkedTyped ==
  ASSUME TypeOK, NEW w \in Workers, batch[w] # <<>>, TriedUnmarked(w)
  PROVE  /\ turn' \in [Characters -> 1..Last] /\ fresh' \subseteq Characters
         /\ batch' \in [Workers -> Batches] /\ passed' \in [Characters -> 0..(FairShare + 1)]
<1>1. Head(batch[w]) \in Characters /\ Tail(batch[w]) \in Batches
  BY BatchTail DEF TypeOK, Batches
<1>2. turn' \in [Characters -> 1..Last] /\ fresh' \subseteq Characters
  BY DEF TriedUnmarked, TypeOK
<1>3. batch' \in [Workers -> Batches]
  BY <1>1 DEF TriedUnmarked, TypeOK, Batches
<1>4. 0 \in 0..(FairShare + 1)
  BY <1>1, FairShareIsInt DEF TypeOK
<1>5. passed' \in [Characters -> 0..(FairShare + 1)]
  BY <1>4 DEF TriedUnmarked, TypeOK
<1> QED BY <1>2, <1>3, <1>5

\* A worker does not lose the character it fetched.
LEMMA EngagedHolds ==
  ASSUME TypeInv, [Next]_vars
  PROVE  Engaged'
<1> USE DEF TypeInv, Engaged
<1>1. ASSUME UNCHANGED <<batch, sync>> PROVE Engaged'
  BY <1>1
<1>2. ASSUME NEW w \in Workers, NEW s, NEW b,
             sync' = [sync EXCEPT ![w] = s], batch' = [batch EXCEPT ![w] = b], s = Resting \/ b # <<>>
      PROVE  Engaged'
  BY <1>2 DEF TypeOK
<1>3. ASSUME NEW w \in Workers, ListDue(w) PROVE Engaged'
  <2>1. sync[w] = Resting
    BY <1>3 DEF ListDue
  <2>2. \A v \in Workers \ {w} : batch'[v] = batch[v]
    BY <1>3 DEF ListDue, TypeOK
  <2> QED BY <1>3, <2>1, <2>2 DEF ListDue
<1>4. ASSUME NEW w \in Workers, FetchProfile(w) \/ ApplySyncWrites(w) PROVE Engaged'
  <2>1. batch[w] # <<>> /\ batch' = batch /\ \A v \in Workers \ {w} : sync'[v] = sync[v]
    BY <1>4 DEF FetchProfile, ApplySyncWrites, tries, TypeOK, Resting
  <2> QED BY <2>1
<1>5. ASSUME NEW w \in Workers,
             FetchSettled(w) \/ AbandonBatch(w) \/ ApplySyncCommits(w) \/ ApplySyncFails(w) \/ SyncLost(w)
      PROVE  Engaged'
  <2>1. sync'[w] = Resting /\ \A v \in Workers \ {w} : sync'[v] = sync[v] /\ batch'[v] = batch[v]
    BY <1>5 DEF FetchSettled, AbandonBatch, ApplySyncCommits, ApplySyncFails, SyncLost, Tried, TriedUnmarked,
           Dropped, TypeOK
  <2> QED BY <2>1
<1> QED BY <1>1, <1>3, <1>4, <1>5 DEF Next, GearMoves, TurnsStale, BotStep, ClaimRedraw, ReadRoster, EditCard,
        DrawRefused, DrawLost, Elsewhere, tries, vars

\* Every step keeps the types.
LEMMA TypesHold ==
  ASSUME TypeInv, [Next]_vars
  PROVE  TypeInv'
<1> DEFINE Typed == TypeOK /\ lapsed <= losses
<1> USE DEF TypeInv
<1>0. ASSUME UNCHANGED vars PROVE Typed'
  BY <1>0 DEF vars, tries, TypeOK
<1>1. ASSUME NEW c \in Characters, GearMoves(c) PROVE Typed'
  <2>1. actual'[c] \in Versions /\ actual' = [actual EXCEPT ![c] = actual[c] + 1]
    BY <1>1, RedrawAssumption DEF GearMoves, TypeOK, Versions, RedrawAssumption
  <2> QED BY <1>1, <2>1 DEF GearMoves, TypeOK, tries, history
<1>2. ASSUME TurnsStale PROVE Typed'
  BY <1>2 DEF TurnsStale, Elsewhere, TypeOK, history
<1>3. ASSUME NEW w \in Workers, ListDue(w) PROVE Typed'
  <2>1. PICK s \in [1..(IF Cardinality(Due) < Limit THEN Cardinality(Due) ELSE Limit) -> Due] :
          batch' = [batch EXCEPT ![w] = s]
    BY <1>3 DEF ListDue
  <2>2. IsFiniteSet(Due) /\ Cardinality(Due) \in Nat
    BY FS_Subset, FS_CardinalityType, RedrawAssumption DEF RedrawAssumption, Due
  <2>3. PICK n \in 0..Limit : s \in [1..n -> Due]
    BY <2>1, <2>2, RedrawAssumption DEF RedrawAssumption
  <2>4. s \in [1..n -> Characters]
    BY <2>3 DEF Due
  <2>5. batch' \in [Workers -> Batches]
    <3>1. s \in Batches
      BY <2>4 DEF Batches
    <3>2. batch \in [Workers -> Batches]
      BY DEF TypeOK, Batches
    <3> QED BY <2>1, <3>1, <3>2
  <2>6. UNCHANGED <<actual, stored, card, turn, fresh, passed, sync, pending, lapsed, draw, crossed, adrift, losses>>
    BY <1>3 DEF ListDue, Elsewhere, history
  <2> QED BY <2>5, <2>6 DEF TypeOK, Batches
<1>4. ASSUME NEW w \in Workers, FetchProfile(w) PROVE Typed'
  <2>1. Head(batch[w]) \in Characters
    BY <1>4, BatchTail DEF FetchProfile, TypeOK, Batches
  <2>2. sync' \in [Workers -> SyncState]
    BY <1>4, <2>1 DEF FetchProfile, TypeOK, SyncState
  <2> QED BY <1>4, <2>2 DEF FetchProfile, Elsewhere, TypeOK, tries, history
<1>5. ASSUME NEW w \in Workers, FetchSettled(w) PROVE Typed'
  BY <1>5, TriedTyped, TriedUnmarkedTyped DEF FetchSettled, Elsewhere, TypeOK, Batches, history
<1>6. ASSUME NEW w \in Workers, AbandonBatch(w) \/ SyncLost(w) PROVE Typed'
  <2>1. <<>> \in Batches
    <3>1. <<>> \in [1..0 -> Characters] /\ 0 \in 0..Limit
      BY RedrawAssumption DEF RedrawAssumption
    <3> QED BY <3>1 DEF Batches
  <2>2. batch' \in [Workers -> Batches]
    BY <1>6, <2>1 DEF AbandonBatch, SyncLost, Dropped, TypeOK, Batches
  <2>3. sync' \in [Workers -> SyncState]
    BY <1>6 DEF AbandonBatch, SyncLost, TypeOK, SyncState
  <2> QED BY <1>6, <2>2, <2>3 DEF AbandonBatch, SyncLost, Dropped, Elsewhere, TypeOK, Batches, history
<1>7. ASSUME NEW w \in Workers, ApplySyncWrites(w) PROVE Typed'
  <2>1. sync[w] \in [char : Characters, version : Versions, row : {"fetched", "own", "pending"}]
    BY <1>7 DEF ApplySyncWrites, TypeOK, SyncState, Resting
  <2>2. sync' \in [Workers -> SyncState]
    BY <1>7, <2>1 DEF ApplySyncWrites, TypeOK, SyncState
  <2> QED BY <1>7, <2>2 DEF ApplySyncWrites, Elsewhere, TypeOK, tries, history
<1>8. ASSUME NEW w \in Workers, batch[w] # <<>>, ApplySyncCommits(w) PROVE Typed'
  <2>1. sync[w] \in [char : Characters, version : Versions, row : {"fetched", "own", "pending"}]
    BY <1>8 DEF ApplySyncCommits, Open, TypeOK, SyncState, Resting
  <2>2. sync' \in [Workers -> SyncState] /\ stored' \in [Characters -> Versions]
    BY <1>8, <2>1 DEF ApplySyncCommits, TypeOK, SyncState
  <2>3. pending' \in BOOLEAN
    BY <1>8, Zenon DEF ApplySyncCommits
  <2>4. adrift' \in BOOLEAN /\ crossed' \subseteq Workers
    <3>1. adrift' \in BOOLEAN
      BY <1>8, Zenon DEF ApplySyncCommits
    <3> QED BY <1>8, <3>1 DEF ApplySyncCommits, TypeOK
  <2> QED BY <1>8, <2>2, <2>3, <2>4, TriedTyped DEF ApplySyncCommits, Elsewhere, TypeOK, Batches
<1>9. ASSUME NEW w \in Workers, batch[w] # <<>>, ApplySyncFails(w) PROVE Typed'
  <2>1. sync' \in [Workers -> SyncState]
    BY <1>9 DEF ApplySyncFails, TypeOK, SyncState
  <2> QED BY <1>9, <2>1, TriedTyped, TriedUnmarkedTyped DEF ApplySyncFails, Elsewhere, TypeOK, Batches
<1>10. ASSUME NEW b \in Bots, BotStep(b) \/ DrawLost(b) PROVE Typed'
  <2>1. /\ stored \in [Characters -> Versions]
        /\ Waiting \in [at : {"idle", "claimed", "read"}, read : [Characters -> Versions]]
    BY RedrawAssumption DEF TypeOK, Waiting, Versions, RedrawAssumption
  <2>2. draw' \in [Bots -> [at : {"idle", "claimed", "read"}, read : [Characters -> Versions]]]
    <3> DEFINE D == [at : {"idle", "claimed", "read"}, read : [Characters -> Versions]]
    <3>1. ASSUME NEW d \in D, draw' = [draw EXCEPT ![b] = d] PROVE draw' \in [Bots -> D]
      BY <3>1 DEF TypeOK
    <3>2. CASE ClaimRedraw(b)
      <4>1. [draw[b] EXCEPT !.at = "claimed"] \in D
        BY DEF TypeOK
      <4>2. draw' = [draw EXCEPT ![b] = [draw[b] EXCEPT !.at = "claimed"]]
        BY <3>2 DEF ClaimRedraw
      <4> QED BY <4>1, <4>2 DEF TypeOK
    <3>3. CASE ReadRoster(b)
      BY <2>1, <3>1, <3>3 DEF ReadRoster
    <3>4. CASE EditCard(b) \/ DrawRefused(b) \/ DrawLost(b)
      BY <2>1, <3>1, <3>4 DEF EditCard, DrawRefused, DrawLost
    <3> QED BY <1>10, <3>2, <3>3, <3>4 DEF BotStep
  <2>3. card' \in [Characters -> Versions]
    BY <1>10 DEF BotStep, ClaimRedraw, ReadRoster, EditCard, DrawRefused, DrawLost, TypeOK
  <2>4. pending' \in BOOLEAN
    BY <1>10 DEF BotStep, ClaimRedraw, ReadRoster, EditCard, DrawRefused, DrawLost, TypeOK
  <2>5. crossed' \subseteq Workers /\ adrift' \in BOOLEAN
    BY <1>10 DEF BotStep, ClaimRedraw, ReadRoster, EditCard, DrawRefused, DrawLost, history, TypeOK
  <2>6. lapsed' \in 0..MaxLosses /\ losses' \in 0..MaxLosses /\ lapsed' <= losses'
    BY <1>10, RedrawAssumption DEF BotStep, ClaimRedraw, Reclaimable, ReadRoster, EditCard, DrawRefused, DrawLost, TypeOK,
       RedrawAssumption
  <2>7. UNCHANGED <<actual, tries, sync>> /\ (UNCHANGED stored)
    BY <1>10 DEF BotStep, ClaimRedraw, ReadRoster, EditCard, DrawRefused, DrawLost
  <2> QED BY <2>2, <2>3, <2>4, <2>5, <2>6, <2>7 DEF TypeOK, tries
<1>11. ASSUME NEW w \in Workers, ApplySyncCommits(w) \/ ApplySyncFails(w) PROVE batch[w] # <<>>
  BY <1>11 DEF Engaged, ApplySyncCommits, ApplySyncFails, Open, Resting
<1>12. Typed'
  BY <1>0, <1>1, <1>2, <1>3, <1>4, <1>5, <1>6, <1>7, <1>8, <1>9, <1>10, <1>11 DEF Next
<1> QED BY <1>12, EngagedHolds

\* The first state has them.
LEMMA TypesBegin == Init => TypeInv
<1> SUFFICES ASSUME Init PROVE TypeInv
  OBVIOUS
<1>1. 0 \in Versions /\ 0 \in 0..MaxLosses
  BY RedrawAssumption DEF Versions, RedrawAssumption
<1>2. <<>> \in Batches
  <2>1. <<>> \in [1..0 -> Characters] /\ 0 \in 0..Limit
    BY RedrawAssumption DEF RedrawAssumption
  <2> QED BY <2>1 DEF Batches
<1>3. ASSUME NEW c \in Characters PROVE 0 \in 0..(FairShare + 1)
  <2>1. Cardinality(Workers) \in Nat /\ Cardinality(Characters) \in Nat /\ Cardinality(Characters) # 0
    BY FS_CardinalityType, FS_EmptySet, RedrawAssumption DEF RedrawAssumption
  <2> QED BY <2>1 DEF FairShare
<1>4. batch \in [Workers -> Batches] /\ passed \in [Characters -> 0..(FairShare + 1)]
  BY <1>2, <1>3 DEF Init
<1>5. draw \in [Bots -> [at : {"idle", "claimed", "read"}, read : [Characters -> Versions]]]
  BY <1>1 DEF Init, Waiting
<1>6. sync \in [Workers -> SyncState] /\ pending \in BOOLEAN /\ crossed \subseteq Workers /\ adrift \in BOOLEAN
  BY DEF Init, SyncState
<1>7. /\ actual \in [Characters -> Versions] /\ stored \in [Characters -> Versions]
      /\ card \in [Characters -> Versions] /\ fresh \subseteq Characters
  BY <1>1 DEF Init
<1>8. lapsed <= losses /\ Engaged /\ lapsed \in 0..MaxLosses /\ losses \in 0..MaxLosses
  BY <1>1 DEF Init, Engaged
<1> QED BY <1>4, <1>5, <1>6, <1>7, <1>8 DEF Init, TypeInv, TypeOK, Batches

\* Whatever the syncers and the bots do, every variable keeps to its type.
THEOREM RedrawTyped == Spec => []TypeOK
<1>1. TypeInv /\ [Next]_vars => TypeInv'
  BY TypesHold
<1> QED BY <1>1, TypesBegin, PTL DEF Spec, TypeInv
-----------------------------------------------------------------------------
(* Turns.  A character that is due can be passed over for another only by  *)
(* a try that some worker still owes: one of a character longer untried,   *)
(* or of one that precedes it in the worker's batch.  Each such try is     *)
(* made once, and once a character is due no new one comes to be owed.     *)

Before(w, c) == {batch[w][i] : i \in {k \in DOMAIN batch[w] : \A j \in 1..k : batch[w][j] # c}}

Owed(c) ==
  {x \in Workers \X (Characters \ {c}) : turn[x[2]] < turn[c] \/ x[2] \in Before(x[1], c)}

NoRepeats == \A w \in Workers : \A i, j \in DOMAIN batch[w] : batch[w][i] = batch[w][j] => i = j

TurnsCome ==
  \A c \in Characters :
    /\ c \in fresh => passed[c] = 0
    /\ c \notin fresh => passed[c] + Cardinality(Owed(c)) <= FairShare

TurnInv == NoRepeats /\ TurnsCome

\* There are no more tries of others than workers times the other characters.
LEMMA TriesOfOthers ==
  ASSUME NEW c \in Characters, NEW S, S \subseteq Workers \X (Characters \ {c})
  PROVE  IsFiniteSet(S) /\ Cardinality(S) \in Nat /\ FairShare \in Nat /\ Cardinality(S) <= FairShare
<1> DEFINE All == Workers \X (Characters \ {c})
<1>1. IsFiniteSet(Characters \ {c}) /\ Cardinality(Characters \ {c}) = Cardinality(Characters) - 1
  BY FS_RemoveElement, RedrawAssumption DEF RedrawAssumption
<1>2. IsFiniteSet(All) /\ Cardinality(All) = Cardinality(Workers) * Cardinality(Characters \ {c})
  BY <1>1, FS_Product, RedrawAssumption DEF RedrawAssumption
<1>3. Cardinality(All) = FairShare /\ Cardinality(All) \in Nat
  BY <1>1, <1>2, FS_CardinalityType DEF FairShare
<1> QED BY <1>2, <1>3, FS_Subset, FS_CardinalityType

\* So no more are owed than a fair share.
LEMMA OwedIsFinite ==
  ASSUME NEW c \in Characters
  PROVE  /\ IsFiniteSet(Owed(c)) /\ Cardinality(Owed(c)) \in Nat
         /\ FairShare \in Nat /\ Cardinality(Owed(c)) <= FairShare
<1>1. Owed(c) \subseteq Workers \X (Characters \ {c})
  BY DEF Owed
<1> QED BY <1>1, TriesOfOthers

\* Fewer owed is fine.
LEMMA FewerOwed ==
  ASSUME NEW S, NEW T, IsFiniteSet(T), S \subseteq T
  PROVE  /\ Cardinality(S) \in Nat /\ Cardinality(T) \in Nat /\ Cardinality(S) <= Cardinality(T)
         /\ \A x \in T \ S : Cardinality(S) + 1 <= Cardinality(T)
<1>1. IsFiniteSet(S) /\ Cardinality(S) <= Cardinality(T)
  BY FS_Subset
<1>2. Cardinality(S) \in Nat /\ Cardinality(T) \in Nat
  BY <1>1, FS_CardinalityType
<1>3. ASSUME NEW x \in T \ S PROVE Cardinality(S) + 1 <= Cardinality(T)
  <2>1. Cardinality(T \ {x}) = Cardinality(T) - 1 /\ IsFiniteSet(T \ {x})
    BY FS_RemoveElement
  <2>2. S \subseteq T \ {x}
    BY <1>3
  <2>3. Cardinality(S) <= Cardinality(T \ {x})
    BY <2>1, <2>2, FS_Subset
  <2> QED BY <1>2, <2>1, <2>3
<1> QED BY <1>1, <1>2, <1>3

\* A try of h sends it behind everybody, and brings nobody before anybody else.
LEMMA RetriedOrder ==
  ASSUME turn \in [Characters -> 1..Last], NEW h \in Characters, turn' = Retried(h).turn,
         NEW c \in Characters, NEW d \in Characters, turn'[d] < turn'[c], c # h
  PROVE  d # h /\ turn[d] < turn[c]
<1>1. \A e \in Characters : turn[e] \in 1..Last /\
        turn'[e] = IF e = h THEN Last ELSE IF turn[e] > turn[h] THEN turn[e] - 1 ELSE turn[e]
  BY DEF Retried
<1>2. turn'[c] \in 1..Last
  BY <1>1, LastIsNat
<1> QED BY <1>1, <1>2, LastIsNat

\* After w is through with h, recorded or not, whatever is owed was owed before, unless it
\* is owed to h; and a recorded try is not owed any more.
LEMMA TryIsPaid ==
  ASSUME TypeOK, NoRepeats, NEW w \in Workers, batch[w] # <<>>, Tried(w) \/ TriedUnmarked(w),
         NEW c \in Characters, c # Head(batch[w])
  PROVE  /\ Owed(c)' \subseteq Owed(c)
         /\ Tried(w) => <<w, Head(batch[w])>> \in Owed(c) \ Owed(c)'
<1> DEFINE s == batch[w]
           h == Head(s)
<1>1. /\ 1 \in DOMAIN s /\ h = s[1] /\ h \in Characters
      /\ \A i \in DOMAIN Tail(s) : i + 1 \in DOMAIN s /\ Tail(s)[i] = s[i + 1]
  BY BatchTail DEF TypeOK, Batches
<1>2. PICK n \in 0..Limit : s \in [1..n -> Characters]
  <2>1. s \in Batches
    BY DEF TypeOK, Batches
  <2> QED BY <2>1, BatchLength
<1>3. PICK m \in 0..Limit : Tail(s) \in [1..m -> Characters]
  <2>1. Tail(s) \in Batches
    BY BatchTail DEF TypeOK, Batches
  <2> QED BY <2>1, BatchLength
<1>4. batch' = [batch EXCEPT ![w] = Tail(s)] /\ (turn' = turn \/ (Tried(w) /\ turn' = Retried(h).turn))
  BY DEF Tried, TriedUnmarked
<1>5. \A v \in Workers \ {w} : batch'[v] = batch[v]
  BY <1>4 DEF TypeOK
<1>6. batch'[w] = Tail(s)
  BY <1>4 DEF TypeOK
<1>7. Before(w, c)' \subseteq Before(w, c) \ {h}
  <2> SUFFICES ASSUME NEW i \in DOMAIN Tail(s), \A j \in 1..i : Tail(s)[j] # c
               PROVE  Tail(s)[i] \in Before(w, c) /\ Tail(s)[i] # h
    BY <1>6 DEF Before
  <2>1. i \in 1..m /\ i + 1 \in 1..n /\ i + 1 # 1 /\ Tail(s)[i] = s[i + 1]
    BY <1>1, <1>2, <1>3
  <2>2. s[i + 1] # h
    BY <1>1, <2>1 DEF NoRepeats
  <2>3. \A j \in 1..(i + 1) : s[j] # c
    <3> SUFFICES ASSUME NEW j \in 1..(i + 1) PROVE s[j] # c
      OBVIOUS
    <3>1. CASE j = 1
      BY <1>1, <3>1
    <3>2. CASE j # 1
      <4>1. j - 1 \in 1..i /\ j - 1 \in DOMAIN Tail(s) /\ (j - 1) + 1 = j
        BY <1>3, <2>1, <3>2
      <4> QED BY <1>1, <4>1
    <3> QED BY <3>1, <3>2
  <2>4. i + 1 \in DOMAIN s
    BY <1>1
  <2> QED BY <2>1, <2>2, <2>3, <2>4 DEF Before
<1>8. ASSUME NEW x \in Owed(c)' PROVE x \in Owed(c) /\ (Tried(w) => x # <<w, h>>)
  <2>1. x \in Workers \X (Characters \ {c}) /\ (turn'[x[2]] < turn'[c] \/ x[2] \in Before(x[1], c)')
    BY <1>8 DEF Owed
  <2>2. CASE turn'[x[2]] < turn'[c]
    <3>1. CASE ~Tried(w)
      BY <1>4, <2>1, <2>2, <3>1 DEF Owed
    <3>2. CASE Tried(w)
      <4>1. turn' = Retried(h).turn
        BY <3>2 DEF Tried
      <4>2. x[2] # h /\ turn[x[2]] < turn[c]
        BY <1>1, <2>1, <2>2, <4>1, RetriedOrder DEF TypeOK
      <4> QED BY <2>1, <4>2 DEF Owed
    <3> QED BY <3>1, <3>2
  <2>3. CASE x[2] \in Before(x[1], c)' /\ x[1] = w
    <3>1. x[2] \in Before(w, c) \ {h}
      BY <1>7, <2>3
    <3> QED BY <2>1, <2>3, <3>1 DEF Owed
  <2>4. CASE x[2] \in Before(x[1], c)' /\ x[1] # w
    <3>1. x[2] \in Before(x[1], c)
      BY <1>5, <2>1, <2>4 DEF Before
    <3> QED BY <2>1, <2>4, <3>1 DEF Owed
  <2> QED BY <2>1, <2>2, <2>3, <2>4
<1>9. <<w, h>> \in Owed(c)
  <2>1. h \in Before(w, c)
    BY <1>1 DEF Before
  <2> QED BY <1>1, <2>1 DEF Owed
<1> QED BY <1>8, <1>9

\* A recorded try of another character is one of those owed; one that goes unrecorded is not
\* counted against anybody.
LEMMA TriesAreTurns ==
  ASSUME TypeOK, TurnInv, NEW w \in Workers, batch[w] # <<>>, Tried(w) \/ TriedUnmarked(w)
  PROVE  TurnInv'
<1> DEFINE s == batch[w]
           h == Head(s)
<1>1. h \in Characters /\ \A i \in DOMAIN Tail(s) : i + 1 \in DOMAIN s /\ Tail(s)[i] = s[i + 1]
  BY BatchTail DEF TypeOK, Batches
<1>2. NoRepeats'
  <2>1. ASSUME NEW v \in Workers, NEW i \in DOMAIN batch'[v], NEW j \in DOMAIN batch'[v], batch'[v][i] = batch'[v][j]
        PROVE  i = j
    <3>1. CASE v # w
      <4>1. batch'[v] = batch[v]
        BY <3>1 DEF Tried, TriedUnmarked, TypeOK
      <4> QED BY <2>1, <4>1 DEF TurnInv, NoRepeats
    <3>2. CASE v = w
      <4>1. batch'[v] = Tail(s)
        BY <3>2 DEF Tried, TriedUnmarked, TypeOK
      <4>2. i + 1 \in DOMAIN s /\ j + 1 \in DOMAIN s /\ s[i + 1] = s[j + 1]
        BY <1>1, <2>1, <4>1
      <4>3. PICK m \in 0..Limit : Tail(s) \in [1..m -> Characters]
        <5>1. Tail(s) \in Batches
          BY BatchTail DEF TypeOK, Batches
        <5> QED BY <5>1, BatchLength
      <4>4. i \in 1..m /\ j \in 1..m
        BY <4>1, <4>3
      <4> QED BY <4>2, <4>4 DEF TurnInv, NoRepeats
    <3> QED BY <3>1, <3>2
  <2> QED BY <2>1 DEF NoRepeats
<1>3. ASSUME Tried(w), NEW c \in Characters
      PROVE  /\ c \in fresh' => passed'[c] = 0
             /\ c \notin fresh' => passed'[c] + Cardinality(Owed(c)') <= FairShare
  <2>1. fresh' = fresh \union {h}
    BY <1>3 DEF Tried, Retried
  <2>2. passed'[c] = IF c = h \/ c \in fresh THEN 0 ELSE IF passed[c] > FairShare THEN passed[c] ELSE passed[c] + 1
    BY <1>3 DEF Tried
  <2>3. CASE c \in fresh'
    BY <2>1, <2>2, <2>3
  <2>4. CASE c \notin fresh'
    <3>1. c # h /\ c \notin fresh /\ passed[c] + Cardinality(Owed(c)) <= FairShare
      BY <2>1, <2>4 DEF TurnInv, TurnsCome
    <3>2. Owed(c)' \subseteq Owed(c) /\ <<w, h>> \in Owed(c) \ Owed(c)'
      BY <1>3, <3>1, TryIsPaid DEF TurnInv
    <3>3. /\ Cardinality(Owed(c)') \in Nat /\ Cardinality(Owed(c)) \in Nat
          /\ Cardinality(Owed(c)') + 1 <= Cardinality(Owed(c))
      BY <3>2, OwedIsFinite, FewerOwed
    <3>4. passed[c] \in Int /\ FairShare \in Int
      BY FairShareIsInt DEF TypeOK
    <3>5. passed[c] <= FairShare /\ passed'[c] = passed[c] + 1
      BY <2>2, <3>1, <3>3, <3>4
    <3> QED BY <2>4, <3>1, <3>3, <3>4, <3>5
  <2> QED BY <2>3, <2>4
<1>4. ASSUME TriedUnmarked(w), NEW c \in Characters
      PROVE  /\ c \in fresh' => passed'[c] = 0
             /\ c \notin fresh' => passed'[c] + Cardinality(Owed(c)') <= FairShare
  <2>1. fresh' = fresh /\ passed' = [passed EXCEPT ![h] = 0]
    BY <1>4 DEF TriedUnmarked
  <2>2. passed'[c] = IF c = h THEN 0 ELSE passed[c]
    BY <2>1 DEF TypeOK
  <2>3. CASE c \in fresh'
    BY <2>1, <2>2, <2>3 DEF TurnInv, TurnsCome
  <2>4. CASE c \notin fresh' /\ c = h
    <3>1. Owed(c)' \subseteq Workers \X (Characters \ {c})
      BY DEF Owed
    <3>2. Cardinality(Owed(c)') \in Nat /\ Cardinality(Owed(c)') <= FairShare /\ FairShare \in Nat
      BY <3>1, TriesOfOthers
    <3> QED BY <2>2, <2>4, <3>2
  <2>5. CASE c \notin fresh' /\ c # h
    <3>1. passed[c] + Cardinality(Owed(c)) <= FairShare
      BY <2>1, <2>5 DEF TurnInv, TurnsCome
    <3>2. Owed(c)' \subseteq Owed(c)
      BY <1>4, <2>5, TryIsPaid DEF TurnInv
    <3>3. /\ Cardinality(Owed(c)') \in Nat /\ Cardinality(Owed(c)) \in Nat
          /\ Cardinality(Owed(c)') <= Cardinality(Owed(c))
      BY <3>2, OwedIsFinite, FewerOwed
    <3>4. passed[c] \in Int /\ FairShare \in Int
      BY FairShareIsInt DEF TypeOK
    <3> QED BY <2>2, <2>5, <3>1, <3>3, <3>4
  <2> QED BY <2>3, <2>4, <2>5
<1> QED BY <1>2, <1>3, <1>4 DEF TurnInv, TurnsCome

\* Nothing is tried: it is enough that nothing new is owed to those that stay due.
LEMMA NothingNewIsOwed ==
  ASSUME TypeOK, TurnInv, NoRepeats', UNCHANGED passed,
         \A c \in Characters : /\ c \in fresh' => c \in fresh
                               /\ c \notin fresh' /\ c \notin fresh => Owed(c)' \subseteq Owed(c)
  PROVE  TurnInv'
<1>1. ASSUME NEW c \in Characters
      PROVE  /\ c \in fresh' => passed'[c] = 0
             /\ c \notin fresh' => passed'[c] + Cardinality(Owed(c)') <= FairShare
  <2>1. CASE c \in fresh'
    BY <2>1 DEF TurnInv, TurnsCome
  <2>2. CASE c \notin fresh' /\ c \in fresh
    <3>1. passed'[c] = 0
      BY <2>2 DEF TurnInv, TurnsCome
    <3>2. Owed(c)' \subseteq Workers \X (Characters \ {c})
      BY DEF Owed
    <3>3. Cardinality(Owed(c)') \in Nat /\ Cardinality(Owed(c)') <= FairShare /\ FairShare \in Nat
      BY <3>2, TriesOfOthers
    <3> QED BY <2>2, <3>1, <3>3
  <2>3. CASE c \notin fresh' /\ c \notin fresh
    <3>1. passed[c] + Cardinality(Owed(c)) <= FairShare /\ Owed(c)' \subseteq Owed(c)
      BY <2>3 DEF TurnInv, TurnsCome
    <3>2. /\ Cardinality(Owed(c)') \in Nat /\ Cardinality(Owed(c)) \in Nat
          /\ Cardinality(Owed(c)') <= Cardinality(Owed(c))
      BY <3>1, OwedIsFinite, FewerOwed
    <3>3. passed[c] \in Int /\ FairShare \in Int
      BY FairShareIsInt DEF TypeOK
    <3> QED BY <2>3, <3>1, <3>2, <3>3
  <2> QED BY <2>1, <2>2, <2>3
<1> QED BY <1>1 DEF TurnInv, TurnsCome

\* Every step keeps the turns.
LEMMA TurnsHold ==
  ASSUME TypeInv, TurnInv, [Next]_vars
  PROVE  TurnInv'
<1> USE DEF TypeInv
<1>1. ASSUME UNCHANGED tries PROVE TurnInv'
  <2>1. UNCHANGED <<turn, fresh, passed, batch>>
    BY <1>1 DEF tries
  <2>2. NoRepeats'
    BY <2>1 DEF TurnInv, NoRepeats
  <2>3. \A c \in Characters : Owed(c)' = Owed(c)
    BY <2>1 DEF Owed, Before
  <2> QED BY <2>1, <2>2, <2>3 DEF TurnInv, TurnsCome
<1>2. ASSUME TurnsStale PROVE TurnInv'
  <2>1. NoRepeats' /\ \A c \in Characters : Owed(c)' = Owed(c)
    BY <1>2 DEF TurnsStale, TurnInv, NoRepeats, Owed, Before
  <2> QED BY <1>2, <2>1, NothingNewIsOwed DEF TurnsStale
<1>3. ASSUME NEW w \in Workers, ListDue(w) PROVE TurnInv'
  <2> DEFINE n == IF Cardinality(Due) < Limit THEN Cardinality(Due) ELSE Limit
  <2>0. n \in Int
    BY FS_Subset, FS_CardinalityType, RedrawAssumption DEF RedrawAssumption, Due
  <2>1. PICK s \in [1..n -> Due] :
          /\ \A i, j \in DOMAIN s : i < j => turn[s[i]] < turn[s[j]]
          /\ \A c \in Due : (\E i \in DOMAIN s : s[i] = c) \/ (\A i \in DOMAIN s : turn[s[i]] < turn[c])
          /\ batch' = [batch EXCEPT ![w] = s]
    BY <1>3 DEF ListDue
  <2> HIDE DEF n
  <2>2. \A i \in 1..n : s[i] \in Characters /\ turn[s[i]] \in Int
    <3>1. \A c \in Characters : turn[c] \in Int
      BY LastIsNat DEF TypeOK
    <3>2. s \in [1..n -> Due]
      BY <2>1
    <3> QED BY <3>1, <3>2 DEF Due
  <2>3. batch'[w] = s /\ \A v \in Workers \ {w} : batch'[v] = batch[v]
    BY <2>1 DEF TypeOK
  <2>4. \A i, j \in 1..n : s[i] = s[j] => i = j
    BY <2>0, <2>1, <2>2
  <2>5. NoRepeats'
    BY <2>3, <2>4 DEF NoRepeats, TurnInv
  <2>6. ASSUME NEW c \in Characters, c \notin fresh PROVE Owed(c)' \subseteq Owed(c)
    <3>1. \A d \in Before(w, c)' : turn[d] < turn[c]
      <4> SUFFICES ASSUME NEW i \in 1..n, \A j \in 1..i : s[j] # c PROVE turn[s[i]] < turn[c]
        BY <2>3 DEF Before
      <4>1. CASE \A k \in DOMAIN s : turn[s[k]] < turn[c]
        BY <4>1
      <4>2. CASE \E k \in DOMAIN s : s[k] = c
        <5>1. PICK k \in 1..n : s[k] = c
          BY <4>2
        <5>2. i < k
          BY <2>0, <5>1
        <5> QED BY <2>1, <5>1, <5>2
      <4> QED BY <2>1, <2>6, <4>1, <4>2 DEF Due
    <3>2. \A v \in Workers \ {w} : Before(v, c)' = Before(v, c)
      BY <2>3 DEF Before
    <3>3. turn' = turn
      BY <1>3 DEF ListDue
    <3> QED BY <3>1, <3>2, <3>3 DEF Owed
  <2> QED BY <1>3, <2>5, <2>6, NothingNewIsOwed DEF ListDue
<1>4. ASSUME NEW w \in Workers, Dropped(w) PROVE TurnInv'
  <2>1. batch'[w] = <<>> /\ \A v \in Workers \ {w} : batch'[v] = batch[v]
    BY <1>4 DEF Dropped, TypeOK
  <2>2. NoRepeats'
    BY <2>1 DEF NoRepeats, TurnInv
  <2>3. ASSUME NEW c \in Characters PROVE Owed(c)' \subseteq Owed(c)
    <3>1. Before(w, c)' = {} /\ \A v \in Workers \ {w} : Before(v, c)' = Before(v, c)
      BY <2>1 DEF Before
    <3>2. turn' = turn
      BY <1>4 DEF Dropped
    <3> QED BY <3>1, <3>2 DEF Owed
  <2> QED BY <1>4, <2>2, <2>3, NothingNewIsOwed DEF Dropped
<1>5. ASSUME NEW w \in Workers, FetchSettled(w) \/ ApplySyncCommits(w) \/ ApplySyncFails(w) PROVE TurnInv'
  <2>1. batch[w] # <<>> /\ (Tried(w) \/ TriedUnmarked(w))
    BY <1>5 DEF FetchSettled, ApplySyncCommits, ApplySyncFails, Open, Resting, Engaged
  <2> QED BY <2>1, TriesAreTurns
<1> QED BY <1>1, <1>2, <1>3, <1>4, <1>5 DEF Next, GearMoves, FetchProfile, AbandonBatch, ApplySyncWrites, SyncLost,
        BotStep, ClaimRedraw, ReadRoster, EditCard, DrawRefused, DrawLost, vars, tries

\* At the start nobody was passed over.
LEMMA TurnsBegin == Init => TurnInv
<1> SUFFICES ASSUME Init PROVE TurnInv
  OBVIOUS
<1>1. NoRepeats
  BY DEF Init, NoRepeats
<1>2. ASSUME NEW c \in Characters PROVE passed[c] + Cardinality(Owed(c)) <= FairShare
  <2>1. passed[c] = 0
    BY DEF Init
  <2> QED BY <2>1, OwedIsFinite
<1> QED BY <1>1, <1>2 DEF TurnInv, TurnsCome, Init

\* However many workers share the queue, list the same characters twice, abandon their
\* batches or die, a character that is due is tried before any worker has recorded a second
\* try of another over it: a permanent failure does not starve those behind it, as long as
\* the failed tries get recorded (sync.go:95-99 only logs a mark that fails).
THEOREM NobodyIsPassedOver == Spec => []NoneIsPassedOver
<1>1. TypeInv /\ TurnInv /\ [Next]_vars => TypeInv' /\ TurnInv'
  BY TypesHold, TurnsHold
<1>2. TypeInv /\ TurnInv => NoneIsPassedOver
  <2> SUFFICES ASSUME TypeInv, TurnInv, NEW c \in Characters PROVE passed[c] <= FairShare
    BY DEF NoneIsPassedOver
  <2>1. passed[c] \in Int
    BY DEF TypeInv, TypeOK
  <2> QED BY <2>1, OwedIsFinite DEF TurnInv, TurnsCome
<1> QED BY <1>1, <1>2, TypesBegin, TurnsBegin, PTL DEF Spec

-----------------------------------------------------------------------------
(* The auto-assigner: a least number.                                      *)

\* A set of natural numbers has a least one.
LEMMA LeastNat ==
  ASSUME NEW S, S \subseteq Nat, S # {}
  PROVE  \E n \in S : \A m \in S : n <= m
<1> DEFINE Less == {ss \in Nat \X Nat : ss[1] < ss[2]}
<1>1. IsWellFoundedOn(Less, Nat)
  BY NatLessThanWellFounded DEF OpToRel
<1>2. PICK n \in S : \A m \in S : ~ (<<m, n>> \in Less)
  <2> HIDE DEF Less
  <2> QED BY <1>1, WFMin
<1>3. ASSUME NEW m \in S PROVE n <= m
  <2>1. m \in Nat /\ n \in Nat /\ ~(<<m, n>> \in Less)
    BY <1>2
  <2> QED BY <2>1
<1> QED BY <1>3

-----------------------------------------------------------------------------
(* Menus and ranks.                                                        *)

\* A menu gives some of the roles a priority.
LEMMA MenuTyped ==
  ASSUME AssignAssumption, AssignTypeOK, NEW r \in Raiders
  PROVE  DOMAIN menu[r] \subseteq Roles /\ \A role \in DOMAIN menu[r] : menu[r][role] \in 1..3
<1>1. menu[r] \in Menus
  BY DEF AssignTypeOK
<1>2. PICK S \in SUBSET Roles : menu[r] \in [S -> 1..3]
  BY <1>1 DEF AssignAssumption
<1> QED BY <1>2

\* What a raider ranks by in a group they can play: the best of their priorities.
BestFor(r, g) == {n \in 1..3 : /\ \E role \in MenuFor(r, g) : menu[r][role] = n
                               /\ \A role \in MenuFor(r, g) : n <= menu[r][role]}

\* Whoever can play the group has exactly one best priority in it.
LEMMA BestExists ==
  ASSUME AssignAssumption, AssignTypeOK, NEW r \in Raiders, NEW g, MenuFor(r, g) # {}
  PROVE  \E n \in 1..3 : BestFor(r, g) = {n}
<1> DEFINE S == {menu[r][role] : role \in MenuFor(r, g)}
<1>1. \A role \in MenuFor(r, g) : menu[r][role] \in 1..3
  BY MenuTyped DEF MenuFor
<1>2. S \subseteq Nat /\ S # {} /\ S \subseteq 1..3
  BY <1>1
<1>3. PICK n \in S : \A m \in S : n <= m
  <2> HIDE DEF S
  <2> QED BY <1>2, LeastNat
<1>4. n \in BestFor(r, g)
  BY <1>2, <1>3 DEF BestFor
<1>5. \A m \in BestFor(r, g) : m = n
  <2>1. ASSUME NEW m \in BestFor(r, g) PROVE m = n
    <3>1. m \in 1..3 /\ m \in S /\ \A k \in S : m <= k
      BY DEF BestFor
    <3>2. m <= n /\ n <= m /\ n \in 1..3
      BY <1>2, <1>3, <3>1
    <3> QED BY <3>1, <3>2
  <2> QED BY <2>1
<1> QED BY <1>2, <1>4, <1>5

\* One raider ranks before another by the best priority, then by number.
LEMMA RankIsLexical ==
  ASSUME AssignAssumption, AssignTypeOK, NEW r \in Raiders, NEW q \in Raiders, NEW g,
         NEW n \in 1..3, NEW m \in 1..3, BestFor(r, g) = {n}, BestFor(q, g) = {m}
  PROVE  RanksBefore(r, q, g) <=> n < m \/ (n = m /\ r < q)
<1>1. /\ \E role \in MenuFor(r, g) : menu[r][role] = n
      /\ \A role \in MenuFor(r, g) : n <= menu[r][role] /\ menu[r][role] \in 1..3
  BY MenuTyped DEF BestFor, MenuFor
<1>2. /\ \E role \in MenuFor(q, g) : menu[q][role] = m
      /\ \A role \in MenuFor(q, g) : m <= menu[q][role] /\ menu[q][role] \in 1..3
  BY MenuTyped DEF BestFor, MenuFor
<1>3. (\E role \in MenuFor(r, g) : \A other \in MenuFor(q, g) : menu[r][role] < menu[q][other]) <=> n < m
  BY <1>1, <1>2
<1>4. (\E role \in MenuFor(q, g) : \A other \in MenuFor(r, g) : menu[q][role] < menu[r][other]) <=> m < n
  BY <1>1, <1>2
<1>5. RanksBefore(r, q, g) <=> n < m \/ (~(m < n) /\ r < q)
  BY <1>3, <1>4 DEF RanksBefore
<1> QED BY <1>5

\* Somebody ranks first of those who can play the group.
LEMMA FirstRanksFirst ==
  ASSUME AssignAssumption, AssignTypeOK, NEW g, NEW S \in SUBSET Raiders, S # {},
         \A r \in S : MenuFor(r, g) # {}
  PROVE  First(S, g) \in S /\ \A q \in S \ {First(S, g)} : RanksBefore(First(S, g), q, g)
<1>1. PICK best \in [S -> 1..3] : \A r \in S : BestFor(r, g) = {best[r]}
  <2>1. \A r \in S : \E n \in 1..3 : BestFor(r, g) = {n}
    BY BestExists
  <2> DEFINE f == [r \in S |-> CHOOSE n \in 1..3 : BestFor(r, g) = {n}]
  <2>2. f \in [S -> 1..3] /\ \A r \in S : BestFor(r, g) = {f[r]}
    BY <2>1
  <2> QED BY <2>2
<1> DEFINE Ranks == {best[r] : r \in S}
<1>2. Ranks \subseteq Nat /\ Ranks # {}
  <2>1. \A r \in S : best[r] \in Nat
    <3>1. \A r \in S : best[r] \in 1..3
      OBVIOUS
    <3> QED BY <3>1
  <2>2. Ranks \subseteq Nat
    BY <2>1
  <2>3. PICK r \in S : TRUE
    OBVIOUS
  <2>4. best[r] \in Ranks
    BY <2>3
  <2> QED BY <2>2, <2>4
<1>3. PICK n \in Ranks : \A m \in Ranks : n <= m
  <2> HIDE DEF Ranks
  <2> QED BY <1>2, LeastNat
<1> DEFINE Equal == {r \in S : best[r] = n}
<1>4. Equal \subseteq Nat /\ Equal # {}
  BY <1>3 DEF AssignAssumption
<1>5. PICK r \in Equal : \A q \in Equal : r <= q
  <2> HIDE DEF Equal
  <2> QED BY <1>4, LeastNat
<1>6. ASSUME NEW q \in S \ {r} PROVE RanksBefore(r, q, g)
  <2>1. best[r] = n /\ n <= best[q] /\ best[q] \in 1..3 /\ best[r] \in 1..3
    BY <1>3, <1>5
  <2>2. best[q] = n => r < q
    <3>1. r \in Nat /\ q \in Nat
      BY <1>5 DEF AssignAssumption
    <3> QED BY <1>5, <3>1
  <2>3. BestFor(r, g) = {best[r]} /\ BestFor(q, g) = {best[q]} /\ r \in Raiders /\ q \in Raiders
    BY <1>1, <1>5
  <2>4. RanksBefore(r, q, g) <=> best[r] < best[q] \/ (best[r] = best[q] /\ r < q)
    BY <2>1, <2>3, RankIsLexical
  <2> QED BY <2>1, <2>2, <2>4
<1>7. \E x \in S : \A q \in S \ {x} : RanksBefore(x, q, g)
  BY <1>5, <1>6
<1>8. First(S, g) = CHOOSE x \in S : \A q \in S \ {x} : RanksBefore(x, q, g)
  BY DEF First
<1> QED BY <1>7, <1>8

-----------------------------------------------------------------------------
(* The role a raider gets.                                                 *)

\* Whoever has an open role of the group gets one of them.
LEMMA RoleForIsOpen ==
  ASSUME AssignAssumption, AssignTypeOK, NEW r \in Raiders, NEW g \in Groups, NEW s, OpenTo(r, g, s) # {}
  PROVE  /\ RoleFor(r, g, s) \in OpenTo(r, g, s) /\ RoleFor(r, g, s) \in Roles
         /\ RoleFor(r, g, s) \in DOMAIN menu[r] /\ GroupOf(RoleFor(r, g, s)) = g
         /\ HasRoom(RoleFor(r, g, s), s)
<1> DEFINE S == OpenTo(r, g, s)
           Good(role) == \A other \in S \ {role} :
                           \/ menu[r][role] < menu[r][other]
                           \/ menu[r][role] = menu[r][other] /\ role = "MDPS"
<1>1. /\ S \subseteq DOMAIN menu[r] /\ S \subseteq Roles
      /\ \A role \in S : GroupOf(role) = g /\ HasRoom(role, s)
      /\ \A role \in S : menu[r][role] \in 1..3
  BY MenuTyped DEF OpenTo, MenuFor
<1>2. \E role \in S : Good(role)
  <2>1. CASE g # "DPS"
    <3>1. \A role \in S : role = g
      BY <1>1, <2>1 DEF GroupOf, Roles
    <3> QED BY <3>1
  <2>2. CASE g = "DPS"
    <3>1. \A role \in S : role \in {"MDPS", "RDPS"}
      BY <1>1, <2>2 DEF GroupOf, Roles
    <3>2. CASE "MDPS" \in S /\ ("RDPS" \notin S \/ menu[r]["MDPS"] <= menu[r]["RDPS"])
      <4>1. Good("MDPS")
        BY <1>1, <3>1, <3>2
      <4> QED BY <3>2, <4>1
    <3>3. CASE "MDPS" \in S /\ "RDPS" \in S /\ ~(menu[r]["MDPS"] <= menu[r]["RDPS"])
      <4>1. Good("RDPS")
        BY <1>1, <3>1, <3>3
      <4> QED BY <3>3, <4>1
    <3>4. CASE "MDPS" \notin S
      <4>1. \A role \in S : role = "RDPS"
        BY <3>1, <3>4
      <4>2. "RDPS" \in S /\ Good("RDPS")
        BY <4>1
      <4> QED BY <4>2
    <3> QED BY <3>2, <3>3, <3>4
  <2> QED BY <2>1, <2>2
<1>3. RoleFor(r, g, s) \in S
  <2>1. RoleFor(r, g, s) = CHOOSE role \in S : Good(role)
    BY DEF RoleFor
  <2> HIDE DEF S, Good
  <2> QED BY <1>2, <2>1
<1> QED BY <1>1, <1>3

-----------------------------------------------------------------------------
(* Counting seats.                                                         *)

Boards == [Raiders -> Roles \union {Bench}]

\* A board's counts are natural numbers.
LEMMA SeatCounts ==
  ASSUME AssignAssumption, NEW s
  PROVE  /\ \A role : IsFiniteSet(SeatedAs(role, s)) /\ Cardinality(SeatedAs(role, s)) \in Nat
         /\ \A g : IsFiniteSet(SeatedIn(g, s)) /\ Cardinality(SeatedIn(g, s)) \in Nat
<1>1. \A T \in SUBSET Raiders : IsFiniteSet(T) /\ Cardinality(T) \in Nat
  BY FS_Subset, FS_CardinalityType DEF AssignAssumption
<1>2. (\A role : SeatedAs(role, s) \in SUBSET Raiders) /\ (\A g : SeatedIn(g, s) \in SUBSET Raiders)
  BY DEF SeatedAs, SeatedIn
<1> QED BY <1>1, <1>2

\* r takes the role on board s, which leaves board t.
Takes(s, r, role, t) ==
  /\ s \in Boards /\ t \in Boards /\ role \in Roles
  /\ s[r] = Bench /\ t[r] = role
  /\ \A q \in Raiders \ {r} : t[q] = s[q]

\* One more is one more.
LEMMA OneMore ==
  ASSUME NEW S, IsFiniteSet(S), NEW x, x \notin S, NEW T, T = S \cup {x}
  PROVE  Cardinality(T) = Cardinality(S) + 1
BY FS_AddElement

\* Who takes a seat counts in it, and nowhere else.
LEMMA SeatingCounts ==
  ASSUME AssignAssumption, NEW s, NEW t, NEW r \in Raiders, NEW role, Takes(s, r, role, t)
  PROVE  /\ \A x \in Roles : Cardinality(SeatedAs(x, t)) = Cardinality(SeatedAs(x, s)) + (IF x = role THEN 1 ELSE 0)
         /\ \A g \in Groups : Cardinality(SeatedIn(g, t))
                                = Cardinality(SeatedIn(g, s)) + (IF g = GroupOf(role) THEN 1 ELSE 0)
<1>1. Bench \notin Roles
  BY DEF Bench, Roles
<1>2. /\ t[r] = role /\ s[r] = Bench /\ role \in Roles
      /\ \A q \in Raiders \ {r} : t[q] = s[q]
  BY DEF Takes
<1>3. ASSUME NEW x \in Roles
      PROVE  Cardinality(SeatedAs(x, t)) = Cardinality(SeatedAs(x, s)) + (IF x = role THEN 1 ELSE 0)
  <2>1. Cardinality(SeatedAs(x, s)) \in Nat
    BY SeatCounts
  <2>2. CASE x = role
    <3>1. SeatedAs(x, t) = SeatedAs(x, s) \cup {r} /\ r \notin SeatedAs(x, s)
      BY <1>1, <1>2, <2>2 DEF SeatedAs
    <3>2. Cardinality(SeatedAs(x, t)) = Cardinality(SeatedAs(x, s)) + 1
      BY <3>1, SeatCounts, OneMore
    <3> QED BY <2>2, <3>2
  <2>3. CASE x # role
    <3>1. SeatedAs(x, t) = SeatedAs(x, s)
      BY <1>1, <1>2, <2>3 DEF SeatedAs
    <3> QED BY <2>1, <2>3, <3>1
  <2> QED BY <2>2, <2>3
<1>4. ASSUME NEW g \in Groups
      PROVE  Cardinality(SeatedIn(g, t)) = Cardinality(SeatedIn(g, s)) + (IF g = GroupOf(role) THEN 1 ELSE 0)
  <2>1. Cardinality(SeatedIn(g, s)) \in Nat
    BY SeatCounts
  <2>2. CASE g = GroupOf(role)
    <3>1. \A q \in Raiders : q \in SeatedIn(g, t) <=> q \in SeatedIn(g, s) \/ q = r
      <4>1. r \in SeatedIn(g, t)
        BY <1>1, <1>2, <2>2 DEF SeatedIn
      <4>2. ASSUME NEW q \in Raiders, q # r PROVE q \in SeatedIn(g, t) <=> q \in SeatedIn(g, s)
        <5>1. t[q] = s[q]
          BY <1>2, <4>2
        <5> QED BY <5>1 DEF SeatedIn
      <4> QED BY <4>1, <4>2
    <3>2. SeatedIn(g, s) \subseteq Raiders /\ SeatedIn(g, t) \subseteq Raiders /\ r \notin SeatedIn(g, s)
      BY <1>2 DEF SeatedIn
    <3>3. SeatedIn(g, t) = SeatedIn(g, s) \cup {r}
      BY <3>1, <3>2
    <3>4. Cardinality(SeatedIn(g, t)) = Cardinality(SeatedIn(g, s)) + 1
      BY <3>2, <3>3, SeatCounts, OneMore
    <3> QED BY <2>2, <3>4
  <2>3. CASE g # GroupOf(role)
    <3>1. SeatedIn(g, t) = SeatedIn(g, s)
      <4>1. r \notin SeatedIn(g, t) /\ r \notin SeatedIn(g, s)
        BY <1>2, <2>3 DEF SeatedIn
      <4>2. ASSUME NEW q \in Raiders, q # r PROVE q \in SeatedIn(g, t) <=> q \in SeatedIn(g, s)
        <5>1. t[q] = s[q]
          BY <1>2, <4>2
        <5> QED BY <5>1 DEF SeatedIn
      <4>3. SeatedIn(g, s) \subseteq Raiders /\ SeatedIn(g, t) \subseteq Raiders
        BY DEF SeatedIn
      <4>4. \A q \in Raiders : q \in SeatedIn(g, t) <=> q \in SeatedIn(g, s)
        BY <4>1, <4>2
      <4> QED BY <4>3, <4>4
    <3> QED BY <2>1, <2>3, <3>1
  <2> QED BY <2>2, <2>3
<1> QED BY <1>3, <1>4

-----------------------------------------------------------------------------
(* The invariant, of a board and the groups not yet filled.                *)

\* Nobody plays what they cannot, and no group and no side is over its number.
Limits(s) ==
  /\ \A r \in Raiders : s[r] # Bench => s[r] \in DOMAIN menu[r]
  /\ \A g \in Groups : Cardinality(SeatedIn(g, s)) <= need[g]
  /\ \A role \in Roles : Cap(role) # NULL => Cardinality(SeatedAs(role, s)) <= Cap(role)

\* A group that was filled is full, or the bench has nobody for it.
Exhausted(s, open) ==
  \A g \in Groups \ open : Cardinality(SeatedIn(g, s)) < need[g] => Unseated(g, s) = {}

\* At every moment, not only at the end.
Outranked(s) ==
  \A r, q \in Raiders :
    s[r] = Bench /\ s[q] \in DOMAIN menu[r] => RanksBefore(q, r, GroupOf(s[q]))

GoodBoard(s, open) == s \in Boards /\ Limits(s) /\ Exhausted(s, open) /\ Outranked(s)

\* The counts of the night add up to its size.
Sized == need["TANK"] + need["HEALER"] + need["DPS"] = SizeFor(mode, Cardinality(Playable))

AssignInv == AssignTypeOK /\ GoodBoard(seat, todo) /\ Sized /\ (done => todo = {})

-----------------------------------------------------------------------------
(* Room.                                                                   *)

\* Needs and caps are natural numbers, and only a DPS side has a cap.
LEMMA CapTyped ==
  ASSUME AssignAssumption, AssignTypeOK
  PROVE  /\ \A role : Cap(role) \in Nat \union {NULL}
         /\ \A role : Cap(role) # NULL => Cap(role) \in Nat
         /\ \A role \in Roles : Cap(role) # NULL => role \in {"MDPS", "RDPS"} /\ GroupOf(role) = "DPS"
         /\ \A g \in Groups : need[g] \in Nat
<1>1. need.maxMelee \in Nat \union {NULL} /\ need.maxRanged \in Nat \union {NULL}
  BY DEF AssignTypeOK
<1>2. \A role : Cap(role) \in Nat \union {NULL}
  BY <1>1 DEF Cap
<1>3. \A role \in Roles : Cap(role) # NULL => role \in {"MDPS", "RDPS"} /\ GroupOf(role) = "DPS"
  BY DEF Cap, Roles, GroupOf
<1>4. \A g \in Groups : need[g] \in Nat
  BY DEF AssignTypeOK, Groups
<1> QED BY <1>2, <1>3, <1>4

\* A side with more in it has no more room.
LEMMA RoomShrinks ==
  ASSUME AssignAssumption, AssignTypeOK, NEW s, NEW t, NEW role,
         Cardinality(SeatedAs(role, s)) <= Cardinality(SeatedAs(role, t)), HasRoom(role, t)
  PROVE  HasRoom(role, s)
<1>1. CASE Cap(role) = NULL
  BY <1>1 DEF HasRoom
<1>2. CASE Cap(role) # NULL
  <2>1. Cap(role) \in Nat /\ Cardinality(SeatedAs(role, t)) < Cap(role)
    BY <1>2, CapTyped DEF HasRoom
  <2>2. Cardinality(SeatedAs(role, s)) \in Nat /\ Cardinality(SeatedAs(role, t)) \in Nat
    BY SeatCounts
  <2>3. Cardinality(SeatedAs(role, s)) < Cap(role)
    BY <2>1, <2>2
  <2> QED BY <2>3 DEF HasRoom
<1> QED BY <1>1, <1>2

\* Nor is there anybody new for a group when every side has as many and the bench no more.
LEMMA NobodyNew ==
  ASSUME AssignAssumption, AssignTypeOK, NEW s, NEW t, NEW g,
         \A role \in Roles : GroupOf(role) = g => Cardinality(SeatedAs(role, s)) <= Cardinality(SeatedAs(role, t)),
         \A r \in Raiders : t[r] = Bench => s[r] = Bench
  PROVE  Unseated(g, t) \subseteq Unseated(g, s)
<1>1. SUFFICES ASSUME NEW r \in Raiders, t[r] = Bench, NEW role \in OpenTo(r, g, t)
               PROVE  s[r] = Bench /\ role \in OpenTo(r, g, s)
  BY DEF Unseated
<1>2. role \in MenuFor(r, g) /\ role \in Roles /\ GroupOf(role) = g /\ HasRoom(role, t)
  BY MenuTyped DEF OpenTo, MenuFor
<1>3. HasRoom(role, s)
  BY <1>2, RoomShrinks
<1> QED BY <1>1, <1>2, <1>3 DEF OpenTo

\* Whoever is passed over for a role that is on their menu ranks behind its taker.
LEMMA TakerRanksFirst ==
  ASSUME AssignAssumption, AssignTypeOK, NEW g \in Groups, NEW s \in Boards, Unseated(g, s) # {}
  PROVE  LET b == First(Unseated(g, s), g)
             role == RoleFor(b, g, s)
         IN /\ b \in Raiders /\ b \in Unseated(g, s) /\ s[b] = Bench
            /\ role \in Roles /\ role \in DOMAIN menu[b] /\ GroupOf(role) = g /\ HasRoom(role, s)
            /\ \A r \in Raiders \ {b} : s[r] = Bench /\ role \in DOMAIN menu[r] => RanksBefore(b, r, g)
<1> DEFINE S == Unseated(g, s)
           b == First(S, g)
           role == RoleFor(b, g, s)
<1>1. S \in SUBSET Raiders /\ \A r \in S : s[r] = Bench /\ OpenTo(r, g, s) # {} /\ MenuFor(r, g) # {}
  BY DEF Unseated, OpenTo
<1>2. b \in S /\ \A q \in S \ {b} : RanksBefore(b, q, g)
  <2>1. S # {}
    OBVIOUS
  <2> HIDE DEF S
  <2> QED BY <1>1, <2>1, FirstRanksFirst
<1> HIDE DEF S, b
<1>3. role \in Roles /\ role \in DOMAIN menu[b] /\ GroupOf(role) = g /\ HasRoom(role, s)
  BY <1>1, <1>2, RoleForIsOpen
<1> HIDE DEF role
<1>4. ASSUME NEW r \in Raiders, r # b, s[r] = Bench, role \in DOMAIN menu[r] PROVE RanksBefore(b, r, g)
  <2>1. role \in OpenTo(r, g, s)
    BY <1>3, <1>4 DEF OpenTo, MenuFor
  <2>2. r \in S
    BY <1>4, <2>1 DEF S, Unseated
  <2> QED BY <1>2, <1>4, <2>2
<1> USE DEF S, b, role
<1> QED BY <1>1, <1>2, <1>3, <1>4

-----------------------------------------------------------------------------
(* The passes.                                                             *)

\* Some group's turn it is.
LEMMA SomebodysTurn ==
  ASSUME AssignAssumption, AssignTypeOK, todo # {}
  PROVE  Current \in todo /\ Current \in Groups
<1> DEFINE Key(g) == 3 * need[g] + GroupOrder(g)
           Keys == {Key(g) : g \in todo}
<1>1. \A g \in Groups : need[g] \in Nat /\ GroupOrder(g) \in 0..2
  BY CapTyped DEF GroupOrder, Groups
<1>2. \A g, h \in Groups : g # h => GroupOrder(g) # GroupOrder(h)
  BY DEF GroupOrder, Groups
<1>3. todo \subseteq Groups
  BY DEF AssignTypeOK
<1>4. Keys \subseteq Nat /\ Keys # {}
  <2>1. \A g \in todo : Key(g) \in Nat
    BY <1>1, <1>3
  <2>2. PICK g \in todo : TRUE
    OBVIOUS
  <2> HIDE DEF Key
  <2> QED BY <2>1, <2>2
<1>5. PICK n \in Keys : \A m \in Keys : n <= m
  <2> HIDE DEF Keys
  <2> QED BY <1>4, LeastNat
<1>6. PICK g \in todo : n = Key(g)
  OBVIOUS
<1>7. ASSUME NEW h \in todo, h # g
      PROVE  need[g] < need[h] \/ (need[g] = need[h] /\ GroupOrder(g) < GroupOrder(h))
  <2>1. Key(g) <= Key(h)
    <3> HIDE DEF Key
    <3> QED BY <1>5, <1>6
  <2>2. /\ need[g] \in Nat /\ need[h] \in Nat /\ GroupOrder(g) \in 0..2 /\ GroupOrder(h) \in 0..2
        /\ GroupOrder(g) # GroupOrder(h)
    BY <1>1, <1>2, <1>3, <1>7
  <2> QED BY <2>1, <2>2
<1>8. \E x \in todo : \A h \in todo \ {x} :
        need[x] < need[h] \/ (need[x] = need[h] /\ GroupOrder(x) < GroupOrder(h))
  BY <1>7
<1>9. Current \in todo
  <2>1. Current = CHOOSE x \in todo : \A h \in todo \ {x} :
                    need[x] < need[h] \/ (need[x] = need[h] /\ GroupOrder(x) < GroupOrder(h))
    BY DEF Current
  <2> QED BY <1>8, <2>1
<1> QED BY <1>3, <1>9

\* Seating somebody who fits in a group that is short keeps the limits.
LEMMA SeatingKeepsLimits ==
  ASSUME AssignAssumption, AssignTypeOK, NEW s \in Boards, Limits(s), NEW b \in Raiders, s[b] = Bench,
         NEW role \in Roles, role \in DOMAIN menu[b], HasRoom(role, s),
         GroupOf(role) \in Groups, Cardinality(SeatedIn(GroupOf(role), s)) < need[GroupOf(role)],
         NEW after, Takes(s, b, role, after)
  PROVE  Limits(after)
<1>1. \A r \in Raiders : after[r] # Bench => after[r] \in DOMAIN menu[r]
  BY DEF Limits, Takes
<1>2. /\ \A g \in Groups : Cardinality(SeatedIn(g, s)) \in Nat /\ need[g] \in Nat
      /\ \A x \in Roles : Cardinality(SeatedAs(x, s)) \in Nat /\ (Cap(x) # NULL => Cap(x) \in Nat)
  BY SeatCounts, CapTyped
<1>3. /\ \A x \in Roles : Cardinality(SeatedAs(x, after)) = Cardinality(SeatedAs(x, s)) + (IF x = role THEN 1 ELSE 0)
      /\ \A g \in Groups : Cardinality(SeatedIn(g, after))
                             = Cardinality(SeatedIn(g, s)) + (IF g = GroupOf(role) THEN 1 ELSE 0)
  BY SeatingCounts
<1>4. ASSUME NEW g \in Groups PROVE Cardinality(SeatedIn(g, after)) <= need[g]
  <2>1. Cardinality(SeatedIn(g, s)) <= need[g]
    BY DEF Limits
  <2>2. CASE g = GroupOf(role)
    <3>1. /\ Cardinality(SeatedIn(g, s)) \in Nat /\ need[g] \in Nat /\ Cardinality(SeatedIn(g, s)) < need[g]
          /\ Cardinality(SeatedIn(g, after)) = Cardinality(SeatedIn(g, s)) + 1
      BY <1>2, <1>3, <2>2
    <3> QED BY <3>1
  <2>3. CASE g # GroupOf(role)
    BY <1>2, <1>3, <2>1, <2>3
  <2> QED BY <2>2, <2>3
<1>5. ASSUME NEW x \in Roles, Cap(x) # NULL PROVE Cardinality(SeatedAs(x, after)) <= Cap(x)
  <2>1. Cardinality(SeatedAs(x, s)) <= Cap(x)
    BY <1>5 DEF Limits
  <2>2. CASE x = role
    <3>1. Cardinality(SeatedAs(x, s)) < Cap(x)
      BY <1>5, <2>2 DEF HasRoom
    <3>2. /\ Cardinality(SeatedAs(x, s)) \in Nat /\ Cap(x) \in Nat
          /\ Cardinality(SeatedAs(x, after)) = Cardinality(SeatedAs(x, s)) + 1
      BY <1>2, <1>3, <1>5, <2>2
    <3> QED BY <3>1, <3>2
  <2>3. CASE x # role
    BY <1>2, <1>3, <2>1, <2>3
  <2> QED BY <2>2, <2>3
<1> QED BY <1>1, <1>4, <1>5 DEF Limits

\* fillGroup seats the best-ranked of those it can place.
LEMMA FillSeatKeeps ==
  ASSUME AssignAssumption, AssignTypeOK, GoodBoard(seat, todo), FillSeat, NEW after, after = seat'
  PROVE  GoodBoard(after, todo)
<1> DEFINE g == Current
           b == First(Unseated(g, seat), g)
           role == RoleFor(b, g, seat)
<1>1. /\ g \in todo /\ g \in Groups
  BY SomebodysTurn DEF FillSeat
<1>2. /\ Unseated(g, seat) # {} /\ Cardinality(SeatedIn(g, seat)) < need[g]
      /\ after = [seat EXCEPT ![b] = role]
  BY DEF FillSeat, Takers, Short, Place
<1>3. seat \in Boards /\ Limits(seat) /\ Exhausted(seat, todo) /\ Outranked(seat)
  BY DEF GoodBoard
<1> HIDE DEF g
<1>4. /\ b \in Raiders /\ seat[b] = Bench
      /\ role \in Roles /\ role \in DOMAIN menu[b] /\ GroupOf(role) = g /\ HasRoom(role, seat)
      /\ \A r \in Raiders \ {b} : seat[r] = Bench /\ role \in DOMAIN menu[r] => RanksBefore(b, r, g)
  BY <1>1, <1>2, <1>3, TakerRanksFirst
<1> HIDE DEF b, role
<1>5. Takes(seat, b, role, after)
  BY <1>2, <1>3, <1>4 DEF Takes, Boards
<1>6. Limits(after)
  BY <1>1, <1>2, <1>3, <1>4, <1>5, SeatingKeepsLimits
<1>7. Exhausted(after, todo)
  <2>1. /\ \A x \in Roles : Cardinality(SeatedAs(x, after)) = Cardinality(SeatedAs(x, seat)) + (IF x = role THEN 1 ELSE 0)
        /\ \A h \in Groups : Cardinality(SeatedIn(h, after)) = Cardinality(SeatedIn(h, seat)) + (IF h = g THEN 1 ELSE 0)
    <3>1. b \in Raiders /\ GroupOf(role) = g
      BY <1>4
    <3>2. /\ \A x \in Roles :
               Cardinality(SeatedAs(x, after)) = Cardinality(SeatedAs(x, seat)) + (IF x = role THEN 1 ELSE 0)
          /\ \A h \in Groups :
               Cardinality(SeatedIn(h, after)) = Cardinality(SeatedIn(h, seat)) + (IF h = GroupOf(role) THEN 1 ELSE 0)
      BY <1>5, <3>1, SeatingCounts
    <3> QED BY <3>1, <3>2
  <2>2. SUFFICES ASSUME NEW h \in Groups \ todo, Cardinality(SeatedIn(h, after)) < need[h]
                 PROVE  Unseated(h, after) = {}
    BY DEF Exhausted
  <2>3. h # g /\ Unseated(h, seat) = {}
    <3>1. h # g /\ Cardinality(SeatedIn(h, seat)) \in Nat
      BY <1>1, SeatCounts
    <3>2. Cardinality(SeatedIn(h, seat)) < need[h]
      BY <2>1, <2>2, <3>1
    <3> QED BY <1>3, <3>1, <3>2 DEF Exhausted
  <2>4. \A x \in Roles : Cardinality(SeatedAs(x, seat)) <= Cardinality(SeatedAs(x, after))
    <3>1. \A x \in Roles : Cardinality(SeatedAs(x, seat)) \in Nat
      BY SeatCounts
    <3> QED BY <2>1, <3>1
  <2>5. \A r \in Raiders : after[r] = Bench => seat[r] = Bench
    BY <1>4, <1>5 DEF Takes
  <2> QED BY <2>3, <2>4, <2>5, NobodyNew
<1>8. Outranked(after)
  <2>1. SUFFICES ASSUME NEW r \in Raiders, NEW q \in Raiders, after[r] = Bench, after[q] \in DOMAIN menu[r]
                 PROVE  RanksBefore(q, r, GroupOf(after[q]))
    BY DEF Outranked
  <2>2. r # b /\ seat[r] = Bench
    BY <1>4, <1>5, <2>1 DEF Bench, Roles, Takes
  <2>3. CASE q = b
    BY <1>4, <1>5, <2>1, <2>2, <2>3 DEF Takes
  <2>4. CASE q # b
    BY <1>3, <1>5, <2>1, <2>2, <2>4 DEF Outranked, Takes
  <2> QED BY <2>3, <2>4
<1> QED BY <1>5, <1>6, <1>7, <1>8 DEF GoodBoard, Takes

\* It leaves a group that is full, or that nobody on the bench can join.
LEMMA FillNextKeeps ==
  ASSUME AssignAssumption, AssignTypeOK, GoodBoard(seat, todo), FillNext
  PROVE  GoodBoard(seat, todo \ {Current})
<1>1. ~Short(Current) \/ Unseated(Current, seat) = {}
  BY DEF FillNext, Takers
<1>2. Exhausted(seat, todo \ {Current})
  BY <1>1 DEF GoodBoard, Exhausted, Short
<1> QED BY <1>2 DEF GoodBoard

-----------------------------------------------------------------------------
(* The repairs.                                                            *)

\* m leaves a seat for x in g, which is short, and b takes y in the group m left.
Swap(g, m, x, b, y, without, mid, after) ==
  /\ Short(g) /\ GroupOf(seat[m]) # g
  /\ Takes(without, m, seat[m], seat) /\ Takes(without, m, x, mid) /\ Takes(mid, b, y, after)
  /\ x \in DOMAIN menu[m] /\ GroupOf(x) = g /\ HasRoom(x, without)
  /\ y \in DOMAIN menu[b] /\ GroupOf(y) = GroupOf(seat[m]) /\ HasRoom(y, mid)
  /\ \A r \in Raiders \ {b} : mid[r] = Bench /\ y \in DOMAIN menu[r] => RanksBefore(b, r, GroupOf(seat[m]))

\* Every role is of one group.
LEMMA GroupsOfRoles == \A role \in Roles : GroupOf(role) \in Groups
BY DEF Roles, Groups, GroupOf

\* What trySwapInto does when it helps is a swap.
LEMMA RepairIsASwap ==
  ASSUME AssignAssumption, AssignTypeOK, Repair, NEW after, after = seat'
  PROVE  \E g \in Groups, m \in Raiders, b \in Raiders : \E x, y, without, mid :
           Swap(g, m, x, b, y, without, mid, after)
<1>1. PICK g \in Groups :
        /\ Repairable(g)
        /\ LET m == First(Movable(g), g)
               from == GroupOf(seat[m])
           IN after = IF Backfill(m, g) = {} THEN Moved(m, g)
                      ELSE Place(First(Backfill(m, g), from), from, Moved(m, g))
  BY DEF Repair
<1> DEFINE m == First(Movable(g), g)
           from == GroupOf(seat[m])
           without == [seat EXCEPT ![m] = Bench]
           x == RoleFor(m, g, without)
           mid == Moved(m, g)
           b == First(Unseated(from, mid), from)
           y == RoleFor(b, from, mid)
<1>2. m \in Movable(g)
  <2>1. Movable(g) \in SUBSET Raiders /\ \A r \in Movable(g) : MenuFor(r, g) # {}
    BY DEF Movable, CanMove, OpenTo
  <2>2. Movable(g) # {}
    BY <1>1 DEF Repairable
  <2> QED BY <2>1, <2>2, FirstRanksFirst
<1>3. /\ m \in Raiders /\ seat[m] # Bench /\ from # g /\ OpenTo(m, g, without) # {} /\ Backfill(m, g) # {}
  BY <1>2 DEF Movable, CanMove
<1>4. seat \in Boards
  BY DEF AssignTypeOK, Boards
<1>5. mid = [without EXCEPT ![m] = x] /\ Backfill(m, g) = Unseated(from, mid)
  BY DEF Moved, Place, Backfill
<1>6. after = [mid EXCEPT ![b] = y]
  BY <1>1, <1>3, <1>5 DEF Place
<1> HIDE DEF m, mid
<1>7. seat[m] \in Roles /\ from \in Groups
  BY <1>3, <1>4, GroupsOfRoles DEF Boards
<1>8. Takes(without, m, seat[m], seat)
  BY <1>3, <1>4, <1>7 DEF Takes, Boards
<1> HIDE DEF from
<1>9. x \in Roles /\ x \in DOMAIN menu[m] /\ GroupOf(x) = g /\ HasRoom(x, without)
  <2> HIDE DEF without
  <2> QED BY <1>3, RoleForIsOpen
<1> HIDE DEF x, without
<1>10. Takes(without, m, x, mid)
  BY <1>3, <1>5, <1>8, <1>9 DEF Takes, Boards
<1>11. /\ b \in Raiders /\ mid[b] = Bench
       /\ y \in Roles /\ y \in DOMAIN menu[b] /\ GroupOf(y) = from /\ HasRoom(y, mid)
       /\ \A r \in Raiders \ {b} : mid[r] = Bench /\ y \in DOMAIN menu[r] => RanksBefore(b, r, from)
  <2>1. mid \in Boards /\ Unseated(from, mid) # {}
    BY <1>3, <1>5, <1>10 DEF Takes
  <2> QED BY <1>7, <2>1, TakerRanksFirst
<1> HIDE DEF b, y
<1>12. Takes(mid, b, y, after)
  BY <1>6, <1>10, <1>11 DEF Takes, Boards
<1>13. Short(g)
  BY <1>1 DEF Repairable
<1>14. Swap(g, m, x, b, y, without, mid, after)
  BY <1>3, <1>8, <1>9, <1>10, <1>11, <1>12, <1>13 DEF Swap, from
<1> QED BY <1>3, <1>11, <1>14

\* What a swap does to the counts and to the board.
SwapSums(g, m, x, b, y, without, mid, after) ==
  /\ \A h \in Groups :
       /\ Cardinality(SeatedIn(h, after)) = Cardinality(SeatedIn(h, seat)) + (IF h = g THEN 1 ELSE 0)
       /\ Cardinality(SeatedIn(h, without)) = Cardinality(SeatedIn(h, seat)) - (IF h = GroupOf(seat[m]) THEN 1 ELSE 0)
       /\ Cardinality(SeatedIn(h, mid)) = Cardinality(SeatedIn(h, without)) + (IF h = g THEN 1 ELSE 0)
       /\ Cardinality(SeatedIn(h, seat)) \in Nat /\ Cardinality(SeatedIn(h, mid)) \in Nat
  /\ \A z \in Roles :
       /\ Cardinality(SeatedAs(z, without)) = Cardinality(SeatedAs(z, seat)) - (IF z = seat[m] THEN 1 ELSE 0)
       /\ Cardinality(SeatedAs(z, mid)) = Cardinality(SeatedAs(z, without)) + (IF z = x THEN 1 ELSE 0)
       /\ Cardinality(SeatedAs(z, after)) = Cardinality(SeatedAs(z, mid)) + (IF z = y THEN 1 ELSE 0)
       /\ Cardinality(SeatedAs(z, seat)) \in Nat /\ Cardinality(SeatedAs(z, mid)) \in Nat
  /\ \A r \in Raiders : after[r] = Bench => seat[r] = Bench /\ mid[r] = Bench /\ r # m /\ r # b
  /\ \A r \in Raiders : r \notin {m, b} => after[r] = seat[r]
  /\ m # b /\ after[m] = x /\ after[b] = y /\ seat[b] = Bench /\ seat[m] # Bench /\ seat[m] \in Roles /\ x # seat[m]

\* It adds a seat to the group it helps and takes none from another.
LEMMA SwapCounts ==
  ASSUME AssignAssumption, AssignTypeOK, NEW g \in Groups, NEW m \in Raiders, NEW b \in Raiders,
         NEW x, NEW y, NEW without, NEW mid, NEW after, Swap(g, m, x, b, y, without, mid, after)
  PROVE  SwapSums(g, m, x, b, y, without, mid, after)
<1>1. /\ Takes(without, m, seat[m], seat) /\ Takes(without, m, x, mid) /\ Takes(mid, b, y, after)
      /\ GroupOf(x) = g /\ GroupOf(y) = GroupOf(seat[m]) /\ GroupOf(seat[m]) # g
  BY DEF Swap
<1>2. /\ \A h \in Groups : Cardinality(SeatedIn(h, without)) \in Nat /\ Cardinality(SeatedIn(h, seat)) \in Nat
                           /\ Cardinality(SeatedIn(h, mid)) \in Nat
      /\ \A z \in Roles : Cardinality(SeatedAs(z, without)) \in Nat /\ Cardinality(SeatedAs(z, seat)) \in Nat
                          /\ Cardinality(SeatedAs(z, mid)) \in Nat
  BY SeatCounts
<1>3. /\ \A z \in Roles : Cardinality(SeatedAs(z, seat)) = Cardinality(SeatedAs(z, without)) + (IF z = seat[m] THEN 1 ELSE 0)
      /\ \A h \in Groups : Cardinality(SeatedIn(h, seat))
                             = Cardinality(SeatedIn(h, without)) + (IF h = GroupOf(seat[m]) THEN 1 ELSE 0)
  BY <1>1, SeatingCounts
<1>4. /\ \A z \in Roles : Cardinality(SeatedAs(z, mid)) = Cardinality(SeatedAs(z, without)) + (IF z = x THEN 1 ELSE 0)
      /\ \A h \in Groups : Cardinality(SeatedIn(h, mid))
                             = Cardinality(SeatedIn(h, without)) + (IF h = g THEN 1 ELSE 0)
  <2>1. /\ \A z \in Roles : Cardinality(SeatedAs(z, mid)) = Cardinality(SeatedAs(z, without)) + (IF z = x THEN 1 ELSE 0)
        /\ \A h \in Groups : Cardinality(SeatedIn(h, mid))
                               = Cardinality(SeatedIn(h, without)) + (IF h = GroupOf(x) THEN 1 ELSE 0)
    BY <1>1, SeatingCounts
  <2> QED BY <1>1, <2>1
<1>5. /\ \A z \in Roles : Cardinality(SeatedAs(z, after)) = Cardinality(SeatedAs(z, mid)) + (IF z = y THEN 1 ELSE 0)
      /\ \A h \in Groups : Cardinality(SeatedIn(h, after))
                             = Cardinality(SeatedIn(h, mid)) + (IF h = GroupOf(seat[m]) THEN 1 ELSE 0)
  BY <1>1, SeatingCounts
<1>6. ASSUME NEW h \in Groups
      PROVE  /\ Cardinality(SeatedIn(h, after)) = Cardinality(SeatedIn(h, seat)) + (IF h = g THEN 1 ELSE 0)
             /\ Cardinality(SeatedIn(h, without)) = Cardinality(SeatedIn(h, seat)) - (IF h = GroupOf(seat[m]) THEN 1 ELSE 0)
  BY <1>1, <1>2, <1>3, <1>4, <1>5
<1>7. ASSUME NEW z \in Roles
      PROVE  Cardinality(SeatedAs(z, without)) = Cardinality(SeatedAs(z, seat)) - (IF z = seat[m] THEN 1 ELSE 0)
  BY <1>2, <1>3
<1>8. /\ Bench \notin Roles /\ x \in Roles /\ y \in Roles /\ seat[m] \in Roles
      /\ without[m] = Bench /\ mid[m] = x /\ mid[b] = Bench /\ after[b] = y
      /\ \A q \in Raiders \ {m} : seat[q] = without[q] /\ mid[q] = without[q]
      /\ \A q \in Raiders \ {b} : after[q] = mid[q]
  BY <1>1 DEF Takes, Bench, Roles
<1>9. m # b /\ after[m] = x /\ seat[b] = Bench /\ x # seat[m] /\ seat[m] # Bench
  BY <1>1, <1>8
<1>10. \A r \in Raiders : r \notin {m, b} => after[r] = seat[r]
  BY <1>8
<1>11. \A r \in Raiders : after[r] = Bench => seat[r] = Bench /\ mid[r] = Bench /\ r # m /\ r # b
  <2>1. SUFFICES ASSUME NEW r \in Raiders, after[r] = Bench PROVE seat[r] = Bench /\ mid[r] = Bench /\ r # m /\ r # b
    OBVIOUS
  <2>2. r # m /\ r # b
    BY <1>8, <1>9, <2>1
  <2> QED BY <1>8, <2>1, <2>2
<1> QED BY <1>2, <1>4, <1>5, <1>6, <1>7, <1>8, <1>9, <1>10, <1>11 DEF SwapSums

\* A swap keeps the limits.
LEMMA SwapKeepsLimits ==
  ASSUME AssignAssumption, AssignTypeOK, Limits(seat), NEW g \in Groups, NEW m \in Raiders, NEW b \in Raiders,
         NEW x, NEW y, NEW without, NEW mid, NEW after, Swap(g, m, x, b, y, without, mid, after)
  PROVE  Limits(after)
<1>1. /\ Short(g) /\ GroupOf(seat[m]) # g
      /\ Takes(without, m, seat[m], seat) /\ Takes(without, m, x, mid) /\ Takes(mid, b, y, after)
      /\ x \in DOMAIN menu[m] /\ GroupOf(x) = g /\ HasRoom(x, without)
      /\ y \in DOMAIN menu[b] /\ GroupOf(y) = GroupOf(seat[m]) /\ HasRoom(y, mid)
  BY DEF Swap
<1>2. /\ \A h \in Groups :
           /\ Cardinality(SeatedIn(h, without)) = Cardinality(SeatedIn(h, seat)) - (IF h = GroupOf(seat[m]) THEN 1 ELSE 0)
           /\ Cardinality(SeatedIn(h, mid)) = Cardinality(SeatedIn(h, without)) + (IF h = g THEN 1 ELSE 0)
           /\ Cardinality(SeatedIn(h, seat)) \in Nat
      /\ \A z \in Roles :
           /\ Cardinality(SeatedAs(z, without)) = Cardinality(SeatedAs(z, seat)) - (IF z = seat[m] THEN 1 ELSE 0)
           /\ Cardinality(SeatedAs(z, seat)) \in Nat
      /\ seat[m] \in Roles
  <2>1. SwapSums(g, m, x, b, y, without, mid, after)
    BY SwapCounts
  <2> QED BY <2>1 DEF SwapSums
<1>3. /\ \A h \in Groups : need[h] \in Nat /\ Cardinality(SeatedIn(h, seat)) <= need[h]
      /\ \A z \in Roles : Cap(z) # NULL => Cap(z) \in Nat /\ Cardinality(SeatedAs(z, seat)) <= Cap(z)
  BY CapTyped DEF Limits
<1>4. Limits(without)
  <2>1. \A r \in Raiders : without[r] # Bench => without[r] \in DOMAIN menu[r]
    BY <1>1 DEF Limits, Takes
  <2>2. \A h \in Groups : Cardinality(SeatedIn(h, without)) <= need[h]
    BY <1>2, <1>3
  <2>3. \A z \in Roles : Cap(z) # NULL => Cardinality(SeatedAs(z, without)) <= Cap(z)
    BY <1>2, <1>3
  <2> QED BY <2>1, <2>2, <2>3 DEF Limits
<1>5. Limits(mid)
  <2>1. Cardinality(SeatedIn(g, without)) < need[g]
    BY <1>1, <1>2 DEF Short
  <2>2. without \in Boards /\ without[m] = Bench /\ x \in Roles
    BY <1>1 DEF Takes
  <2> QED BY <1>1, <1>4, <2>1, <2>2, SeatingKeepsLimits
<1>6. Limits(after)
  <2>1. GroupOf(y) \in Groups /\ Cardinality(SeatedIn(GroupOf(y), mid)) < need[GroupOf(y)]
    <3>1. GroupOf(y) \in Groups
      BY <1>1, <1>2, GroupsOfRoles
    <3>2. Cardinality(SeatedIn(GroupOf(y), mid)) = Cardinality(SeatedIn(GroupOf(y), seat)) - 1
      BY <1>1, <1>2, <3>1
    <3> QED BY <1>2, <1>3, <3>1, <3>2
  <2>2. mid \in Boards /\ mid[b] = Bench /\ y \in Roles
    BY <1>1 DEF Takes
  <2> QED BY <1>1, <1>5, <2>1, <2>2, SeatingKeepsLimits
<1> QED BY <1>6

\* Once every group was filled, a swap leaves nobody on the bench for a group that is short.
LEMMA SwapKeepsExhausted ==
  ASSUME AssignAssumption, AssignTypeOK, Exhausted(seat, {}),
         NEW g \in Groups, NEW m \in Raiders, NEW b \in Raiders,
         NEW x, NEW y, NEW without, NEW mid, NEW after, Swap(g, m, x, b, y, without, mid, after)
  PROVE  Exhausted(after, {})
<1>1. SwapSums(g, m, x, b, y, without, mid, after)
  BY SwapCounts
<1>2. /\ \A h \in Groups :
           /\ Cardinality(SeatedIn(h, after)) = Cardinality(SeatedIn(h, seat)) + (IF h = g THEN 1 ELSE 0)
           /\ Cardinality(SeatedIn(h, seat)) \in Nat /\ need[h] \in Nat
      /\ \A z \in Roles :
           /\ Cardinality(SeatedAs(z, without)) = Cardinality(SeatedAs(z, seat)) - (IF z = seat[m] THEN 1 ELSE 0)
           /\ Cardinality(SeatedAs(z, mid)) = Cardinality(SeatedAs(z, without)) + (IF z = x THEN 1 ELSE 0)
           /\ Cardinality(SeatedAs(z, after)) = Cardinality(SeatedAs(z, mid)) + (IF z = y THEN 1 ELSE 0)
           /\ Cardinality(SeatedAs(z, seat)) \in Nat /\ Cardinality(SeatedAs(z, mid)) \in Nat
      /\ \A r \in Raiders : after[r] = Bench => seat[r] = Bench
      /\ seat[b] = Bench /\ x # seat[m]
  BY <1>1, CapTyped DEF SwapSums
<1>3. y \in DOMAIN menu[b] /\ y \in Roles /\ GroupOf(y) = GroupOf(seat[m]) /\ HasRoom(y, mid)
  BY DEF Swap, Takes
<1>4. SUFFICES ASSUME NEW h \in Groups, Cardinality(SeatedIn(h, after)) < need[h]
               PROVE  Unseated(h, after) = {}
  BY DEF Exhausted
<1>5. Unseated(h, seat) = {}
  <2>1. Cardinality(SeatedIn(h, seat)) < need[h]
    BY <1>2, <1>4
  <2> QED BY <2>1 DEF Exhausted
<1>6. ASSUME NEW z \in Roles, GroupOf(z) = h
      PROVE  Cardinality(SeatedAs(z, seat)) <= Cardinality(SeatedAs(z, after))
  <2>1. CASE z = seat[m] /\ y # seat[m]
    <3>1. Cardinality(SeatedAs(y, seat)) <= Cardinality(SeatedAs(y, mid))
      BY <1>2, <1>3, <2>1
    <3>2. HasRoom(y, seat)
      BY <1>3, <3>1, RoomShrinks
    <3>3. b \in Unseated(h, seat)
      BY <1>2, <1>3, <1>6, <2>1, <3>2 DEF Unseated, OpenTo, MenuFor
    <3> QED BY <1>5, <3>3
  <2>2. CASE ~(z = seat[m] /\ y # seat[m])
    <3>1. /\ Cardinality(SeatedAs(z, without)) = Cardinality(SeatedAs(z, seat)) - (IF z = seat[m] THEN 1 ELSE 0)
          /\ Cardinality(SeatedAs(z, mid)) = Cardinality(SeatedAs(z, without)) + (IF z = x THEN 1 ELSE 0)
          /\ Cardinality(SeatedAs(z, after)) = Cardinality(SeatedAs(z, mid)) + (IF z = y THEN 1 ELSE 0)
          /\ Cardinality(SeatedAs(z, seat)) \in Nat /\ Cardinality(SeatedAs(z, mid)) \in Nat
      BY <1>2
    <3> QED BY <1>2, <2>2, <3>1
  <2> QED BY <2>1, <2>2
<1> QED BY <1>2, <1>5, <1>6, NobodyNew

\* Nor does it seat anybody for whom a better raider is benched.
LEMMA SwapKeepsOutranked ==
  ASSUME AssignAssumption, AssignTypeOK, Exhausted(seat, {}), Outranked(seat),
         NEW g \in Groups, NEW m \in Raiders, NEW b \in Raiders,
         NEW x, NEW y, NEW without, NEW mid, NEW after, Swap(g, m, x, b, y, without, mid, after)
  PROVE  Outranked(after)
<1>1. SwapSums(g, m, x, b, y, without, mid, after)
  BY SwapCounts
<1>2. /\ Short(g) /\ x \in Roles /\ GroupOf(x) = g /\ HasRoom(x, without)
      /\ GroupOf(y) = GroupOf(seat[m])
      /\ \A r \in Raiders \ {b} : mid[r] = Bench /\ y \in DOMAIN menu[r] => RanksBefore(b, r, GroupOf(seat[m]))
  BY DEF Swap, Takes
<1>3. /\ \A r \in Raiders : after[r] = Bench => seat[r] = Bench /\ mid[r] = Bench /\ r # m /\ r # b
      /\ \A r \in Raiders : r \notin {m, b} => after[r] = seat[r]
      /\ after[m] = x /\ after[b] = y /\ x # seat[m]
      /\ Cardinality(SeatedAs(x, without)) = Cardinality(SeatedAs(x, seat)) - (IF x = seat[m] THEN 1 ELSE 0)
      /\ Cardinality(SeatedAs(x, seat)) \in Nat
  BY <1>1, <1>2 DEF SwapSums
<1>4. SUFFICES ASSUME NEW r \in Raiders, NEW q \in Raiders, after[r] = Bench, after[q] \in DOMAIN menu[r]
               PROVE  RanksBefore(q, r, GroupOf(after[q]))
  BY DEF Outranked
<1>5. seat[r] = Bench /\ mid[r] = Bench /\ r # m /\ r # b
  BY <1>3, <1>4
<1>6. CASE q = b
  BY <1>2, <1>3, <1>4, <1>5, <1>6
<1>7. CASE q = m
  <2>1. Cardinality(SeatedAs(x, seat)) <= Cardinality(SeatedAs(x, without))
    BY <1>3
  <2>2. HasRoom(x, seat)
    BY <1>2, <2>1, RoomShrinks
  <2>3. r \in Unseated(g, seat)
    BY <1>2, <1>3, <1>4, <1>5, <1>7, <2>2 DEF Unseated, OpenTo, MenuFor
  <2>4. Unseated(g, seat) = {}
    BY <1>2 DEF Exhausted, Short
  <2> QED BY <2>3, <2>4
<1>8. CASE q \notin {m, b}
  BY <1>3, <1>4, <1>5, <1>8 DEF Outranked
<1> QED BY <1>6, <1>7, <1>8

\* A repair keeps the board as good as it was, and only adds seats.
LEMMA RepairKeeps ==
  ASSUME AssignAssumption, AssignTypeOK, GoodBoard(seat, todo), Repair, NEW after, after = seat'
  PROVE  /\ GoodBoard(after, todo)
         /\ \A h \in Groups : Cardinality(SeatedIn(h, after)) >= Cardinality(SeatedIn(h, seat))
         /\ \E h \in Groups : Short(h) /\ Cardinality(SeatedIn(h, after)) > Cardinality(SeatedIn(h, seat))
<1>1. todo = {} /\ Limits(seat) /\ Exhausted(seat, {}) /\ Outranked(seat)
  BY DEF Repair, GoodBoard
<1>2. PICK g \in Groups, m \in Raiders, b \in Raiders : \E x, y, without, mid :
        Swap(g, m, x, b, y, without, mid, after)
  BY RepairIsASwap
<1>3. PICK x, y, without, mid : Swap(g, m, x, b, y, without, mid, after)
  BY <1>2
<1>4. Limits(after) /\ Exhausted(after, {}) /\ Outranked(after)
  BY <1>1, <1>3, SwapKeepsLimits, SwapKeepsExhausted, SwapKeepsOutranked
<1>5. after \in Boards /\ Short(g)
  BY <1>3 DEF Swap, Takes
<1>6. \A h \in Groups :
        /\ Cardinality(SeatedIn(h, after)) = Cardinality(SeatedIn(h, seat)) + (IF h = g THEN 1 ELSE 0)
        /\ Cardinality(SeatedIn(h, seat)) \in Nat
  <2>1. SwapSums(g, m, x, b, y, without, mid, after)
    BY <1>3, SwapCounts
  <2> QED BY <2>1 DEF SwapSums
<1>7. \A h \in Groups : Cardinality(SeatedIn(h, after)) >= Cardinality(SeatedIn(h, seat))
  BY <1>6
<1>8. Cardinality(SeatedIn(g, after)) > Cardinality(SeatedIn(g, seat))
  BY <1>6
<1> QED BY <1>1, <1>4, <1>5, <1>7, <1>8 DEF GoodBoard

-----------------------------------------------------------------------------
(* The specification keeps the invariant.                                  *)

\* The pool is no larger than the raiders.
LEMMA PoolCounts ==
  ASSUME AssignAssumption
  PROVE  /\ Cardinality(Playable) \in Nat /\ Cardinality(Raiders) \in Nat
         /\ Cardinality(Playable) <= Cardinality(Raiders)
<1>1. Playable \subseteq Raiders /\ IsFiniteSet(Raiders)
  BY DEF Playable, AssignAssumption
<1> HIDE DEF Playable
<1> QED BY <1>1, FS_Subset, FS_CardinalityType

\* A night's counts are natural numbers that add up to its size, whatever the template says.
LEMMA ResolveAddsUp ==
  ASSUME AssignAssumption, NEW tmpl \in Templates, NEW m \in Modes, NEW n \in Nat
  PROVE  LET needs == Resolve(tmpl, m, n)
         IN /\ needs \in [TANK : Nat, HEALER : Nat, DPS : Nat,
                          maxMelee : Nat \union {NULL}, maxRanged : Nat \union {NULL}]
            /\ needs["TANK"] + needs["HEALER"] + needs["DPS"] = SizeFor(m, n)
<1>1. /\ tmpl.tanks \in Int \union {NULL} /\ tmpl.healers \in Int \union {NULL}
      /\ tmpl.maxMelee \in Int \union {NULL} /\ tmpl.maxRanged \in Int \union {NULL}
  BY DEF AssignAssumption
<1>2. SizeFor(m, n) \in Nat
  BY DEF SizeFor, Modes, Most, Least
<1>3. \A o \in Int \union {NULL}, i \in Nat : ResolveCount(o, i) \in Nat
  BY DEF ResolveCount, Most, AssignAssumption
<1>4. \A o \in Int \union {NULL} : ResolveCap(o) \in Nat \union {NULL}
  BY DEF ResolveCap, Most, AssignAssumption
<1>5. \A i, j \in Nat : Least(i, j) \in Nat /\ Least(i, j) <= i
  BY DEF Least
<1> DEFINE size == SizeFor(m, n)
           t == ResolveCount(tmpl.tanks, IF m = "MYTHIC_PLUS" THEN 1 ELSE 2)
           tanks == Least(size, t)
           h == ResolveCount(tmpl.healers, (size + 4) \div 5)
           healers == Least(size - tanks, h)
<1>6. t \in Nat
  BY <1>1, <1>3
<1>7. tanks \in Nat /\ size - tanks \in Nat
  <2> HIDE DEF size, t
  <2>1. size \in Nat
    BY <1>2 DEF size
  <2>2. Least(size, t) \in Nat /\ Least(size, t) <= size
    BY <1>5, <1>6, <2>1
  <2> QED BY <2>1, <2>2
<1>8. h \in Nat
  <2> HIDE DEF size
  <2>1. size \in Nat
    BY <1>2 DEF size
  <2>2. (size + 4) \div 5 \in Nat
    BY <2>1
  <2> QED BY <1>1, <1>3, <2>2
<1>9. healers \in Nat /\ size - tanks - healers \in Nat
  <2> DEFINE rest == size - tanks
  <2> HIDE DEF h, rest
  <2>1. rest \in Nat /\ h \in Nat
    BY <1>7, <1>8 DEF rest
  <2>2. Least(rest, h) \in Nat /\ Least(rest, h) <= rest
    BY <1>5, <2>1
  <2>3. healers = Least(rest, h)
    BY DEF rest
  <2>4. rest - Least(rest, h) \in Nat
    BY <2>1, <2>2
  <2> QED BY <2>2, <2>3, <2>4 DEF rest
<1>10. Resolve(tmpl, m, n) = [TANK |-> tanks, HEALER |-> healers, DPS |-> size - tanks - healers,
                              maxMelee |-> ResolveCap(tmpl.maxMelee), maxRanged |-> ResolveCap(tmpl.maxRanged)]
  BY DEF Resolve
<1>11. ResolveCap(tmpl.maxMelee) \in Nat \union {NULL} /\ ResolveCap(tmpl.maxRanged) \in Nat \union {NULL}
  BY <1>1, <1>4
<1>12. tanks + healers + (size - tanks - healers) = size
  <2>1. size \in Nat
    BY <1>2
  <2> HIDE DEF size, tanks, healers
  <2> QED BY <1>7, <1>9, <2>1
<1> HIDE DEF size, tanks, healers
<1> QED BY <1>7, <1>9, <1>10, <1>11, <1>12 DEF size

\* Before the first pass the bench is full and every group is still to be filled.
LEMMA AssignStarts ==
  ASSUME AssignAssumption, AssignInit
  PROVE  AssignInv
<1>1. /\ Cardinality(Playable) \in Nat /\ Cardinality(Raiders) \in Nat
  BY PoolCounts
<1>2. /\ need \in [TANK : Nat, HEALER : Nat, DPS : Nat,
                   maxMelee : Nat \union {NULL}, maxRanged : Nat \union {NULL}]
      /\ Sized
  <2>1. PICK tmpl \in Templates : need = Resolve(tmpl, mode, Cardinality(Playable))
    BY DEF AssignInit
  <2>2. mode \in Modes
    BY DEF AssignInit
  <2> HIDE DEF Playable
  <2> QED BY <1>1, <2>1, <2>2, ResolveAddsUp DEF Sized
<1>3. AssignTypeOK
  <2>1. menu \in [Raiders -> Menus] /\ mode \in Modes /\ todo = Groups /\ swaps = 0 /\ done = FALSE
    BY DEF AssignInit
  <2>2. seat \in [Raiders -> Roles \union {Bench}]
    BY DEF AssignInit
  <2>3. swaps \in 0..Cardinality(Raiders)
    BY <1>1, <2>1
  <2> QED BY <1>2, <2>1, <2>2, <2>3 DEF AssignTypeOK
<1>4. seat \in Boards /\ todo = Groups /\ ~done /\ \A r \in Raiders : seat[r] = Bench
  BY DEF AssignInit, Boards
<1>5. Limits(seat)
  <2>1. /\ \A g \in Groups : SeatedIn(g, seat) = {}
        /\ \A role \in Roles : SeatedAs(role, seat) = {}
    BY <1>4 DEF SeatedIn, SeatedAs, Bench, Roles
  <2>2. \A g \in Groups : Cardinality(SeatedIn(g, seat)) = 0 /\ need[g] \in Nat
    BY <1>3, <2>1, FS_EmptySet, CapTyped
  <2>3. \A role \in Roles : Cardinality(SeatedAs(role, seat)) = 0 /\ (Cap(role) # NULL => Cap(role) \in Nat)
    BY <1>3, <2>1, FS_EmptySet, CapTyped
  <2> QED BY <1>4, <2>2, <2>3 DEF Limits
<1>6. Exhausted(seat, todo)
  BY <1>4 DEF Exhausted
<1>7. Outranked(seat)
  <2>1. ASSUME NEW r \in Raiders PROVE Bench \notin DOMAIN menu[r]
    BY <1>3, MenuTyped DEF Bench, Roles
  <2> QED BY <1>4, <2>1 DEF Outranked
<1> QED BY <1>2, <1>3, <1>4, <1>5, <1>6, <1>7 DEF AssignInv, GoodBoard

\* A board is as good in the next state as it was called in this one.
LEMMA GoodBoardNext ==
  ASSUME menu' = menu, need' = need, GoodBoard(seat', todo')
  PROVE  GoodBoard(seat, todo)'
<1>1. \A role : Cap(role)' = Cap(role)
  BY DEF Cap
<1>2. \A role : HasRoom(role, seat)' <=> HasRoom(role, seat')
  BY <1>1 DEF HasRoom, SeatedAs
<1>3. \A r, g : OpenTo(r, g, seat)' = OpenTo(r, g, seat')
  BY <1>2 DEF OpenTo, MenuFor
<1>4. \A g : Unseated(g, seat)' = Unseated(g, seat')
  BY <1>3 DEF Unseated
<1>5. \A r, q, g : RanksBefore(r, q, g)' <=> RanksBefore(r, q, g)
  BY DEF RanksBefore, MenuFor
<1>6. Limits(seat)'
  BY <1>1 DEF GoodBoard, Limits, SeatedIn, SeatedAs
<1>7. Exhausted(seat, todo)'
  BY <1>4 DEF GoodBoard, Exhausted, SeatedIn
<1>8. Outranked(seat)'
  BY <1>5 DEF GoodBoard, Outranked
<1> QED BY <1>6, <1>7, <1>8 DEF GoodBoard, Boards

\* Every step keeps it.
LEMMA AssignContinues ==
  ASSUME AssignAssumption, AssignInv, [AssignNext]_assignVars
  PROVE  AssignInv'
<1>1. AssignTypeOK /\ GoodBoard(seat, todo) /\ Sized /\ (done => todo = {})
  BY DEF AssignInv
<1>2. menu' = menu /\ mode' = mode /\ need' = need
  BY DEF AssignNext, FillSeat, FillNext, Repair, Finish, assignVars, input
<1>3. GoodBoard(seat', todo')
  <2>1. CASE FillSeat
    <3>1. todo' = todo /\ GoodBoard(seat', todo)
      BY <1>1, <2>1, FillSeatKeeps DEF FillSeat
    <3> QED BY <3>1
  <2>2. CASE FillNext
    <3>1. todo' = todo \ {Current} /\ seat' = seat /\ GoodBoard(seat, todo \ {Current})
      BY <1>1, <2>2, FillNextKeeps DEF FillNext
    <3> QED BY <3>1
  <2>3. CASE Repair
    <3>1. todo' = todo /\ GoodBoard(seat', todo)
      BY <1>1, <2>3, RepairKeeps DEF Repair
    <3> QED BY <3>1
  <2>4. CASE Finish \/ UNCHANGED assignVars
    BY <1>1, <2>4 DEF Finish, assignVars
  <2> QED BY <2>1, <2>2, <2>3, <2>4 DEF AssignNext
<1>4. GoodBoard(seat, todo)'
  BY <1>2, <1>3, GoodBoardNext
<1>5. swaps' \in 0..Cardinality(Raiders)
  <2>1. swaps \in 0..Cardinality(Raiders)
    BY <1>1 DEF AssignTypeOK
  <2>2. CASE swaps' = swaps
    BY <2>1, <2>2
  <2>3. CASE swaps' # swaps
    <3>1. swaps' = swaps + 1 /\ swaps < Cardinality(Playable)
      BY <2>3 DEF AssignNext, FillSeat, FillNext, Repair, Finish, assignVars
    <3> QED BY <2>1, <3>1, PoolCounts
  <2> QED BY <2>2, <2>3
<1>6. todo' \subseteq Groups /\ done' \in BOOLEAN /\ (done' => todo' = {})
  <2>1. todo \subseteq Groups /\ done \in BOOLEAN /\ (done => todo = {})
    BY <1>1 DEF AssignTypeOK
  <2>2. CASE Finish
    BY <2>1, <2>2, Zenon DEF Finish
  <2>3. CASE ~Finish
    <3>1. done' = done
      BY <2>3, Zenon DEF AssignNext, FillSeat, FillNext, Repair, assignVars
    <3>2. todo' = todo \/ (todo # {} /\ todo' = todo \ {Current})
      BY <2>3 DEF AssignNext, FillSeat, FillNext, Repair, assignVars
    <3>3. todo' \subseteq Groups /\ (todo = {} => todo' = {})
      BY <2>1, <3>2
    <3> QED BY <2>1, <3>1, <3>3, Zenon
  <2> QED BY <2>2, <2>3
<1>7. AssignTypeOK'
  BY <1>1, <1>2, <1>3, <1>5, <1>6 DEF AssignTypeOK, GoodBoard, Boards
<1>8. Sized'
  BY <1>1, <1>2 DEF Sized, Playable
<1> QED BY <1>4, <1>6, <1>7, <1>8 DEF AssignInv

\* So it holds throughout.
LEMMA AssignInvariant == AssignSpec => []AssignInv
<1>1. AssignInit => AssignInv
  BY AssignAssumption, AssignStarts
<1>2. AssignInv /\ [AssignNext]_assignVars => AssignInv'
  BY AssignAssumption, AssignContinues
<1> QED BY <1>1, <1>2, PTL DEF AssignSpec

\* Whatever the pool and the template, Resolve (comp/comp.go) returns counts that are natural
\* numbers, and Assign's repairs stop before there are more of them than raiders.
THEOREM AssignTyped == AssignSpec => []AssignTypeOK
<1>1. AssignInv => AssignTypeOK
  BY DEF AssignInv
<1> QED BY <1>1, AssignInvariant, PTL

\* However the passes and the swaps of Assign (comp/assign.go) seat a pool of any size,
\* everyone seated plays a role of their menu, no group is over its need and no side over its cap.
THEOREM SeatsStayWithinLimits == AssignSpec => []WithinLimits
<1>1. AssignInv => WithinLimits
  BY DEF AssignInv, GoodBoard, Limits, Sized, WithinLimits
<1> QED BY <1>1, AssignInvariant, PTL

\* A repair moves somebody into another group, and still nobody is benched for a raider of a
\* lower rank: the backfill is the best of those it could be, and whoever is left on the bench
\* could not have joined the group that was short.
THEOREM BenchIsEarned == AssignSpec => []BenchedForABetter
<1>1. AssignInv => BenchedForABetter
  BY DEF AssignInv, GoodBoard, Outranked, BenchedForABetter, Playable
<1> QED BY <1>1, AssignInvariant, PTL

\* When Assign returns, a group that is short has nobody on the bench its caps admit, although
\* swaps have changed what each side has room for since the group was filled.
THEOREM NobodyBenchedForNothing == AssignSpec => []NoSeatIdle
<1>1. AssignInv => NoSeatIdle
  BY DEF AssignInv, GoodBoard, Exhausted, NoSeatIdle, Short
<1> QED BY <1>1, AssignInvariant, PTL

\* A swap (trySwapInto) adds a seat to a group that is short and opens none elsewhere.
THEOREM SwapsHelp == AssignSpec => RepairOnlyHelps
<1>1. AssignInv /\ [AssignNext]_assignVars =>
        (swaps' # swaps =>
          /\ \A g \in Groups : Cardinality(SeatedIn(g, seat')) >= Cardinality(SeatedIn(g, seat))
          /\ \E g \in Groups : Short(g) /\ Cardinality(SeatedIn(g, seat')) > Cardinality(SeatedIn(g, seat)))
  <2>1. SUFFICES ASSUME AssignInv, [AssignNext]_assignVars, swaps' # swaps
                 PROVE  /\ \A g \in Groups : Cardinality(SeatedIn(g, seat')) >= Cardinality(SeatedIn(g, seat))
                        /\ \E g \in Groups :
                             Short(g) /\ Cardinality(SeatedIn(g, seat')) > Cardinality(SeatedIn(g, seat))
    OBVIOUS
  <2>2. Repair
    BY <2>1 DEF AssignNext, FillSeat, FillNext, Finish, assignVars
  <2>3. AssignTypeOK /\ GoodBoard(seat, todo)
    BY <2>1 DEF AssignInv
  <2> QED BY <2>2, <2>3, AssignAssumption, RepairKeeps
<1> QED BY <1>1, AssignInvariant, PTL DEF AssignSpec, RepairOnlyHelps

-----------------------------------------------------------------------------
(* The bound on the repairs.                                               *)

\* Whom board s seats.
Seated(s) == {r \in Raiders : s[r] # Bench}

\* Every swap seats one more, so a cycle is out of the question.
SwapsSeat == swaps <= Cardinality(Seated(seat))

\* The repairs are over because no group can be helped, not because they were cut off.
NoRepairLeft == done => \A g \in Groups : ~Repairable(g)

\* Seats are counted.
LEMMA SeatedCounts ==
  ASSUME AssignAssumption, NEW s
  PROVE  IsFiniteSet(Seated(s)) /\ Cardinality(Seated(s)) \in Nat
<1>1. Seated(s) \subseteq Raiders /\ IsFiniteSet(Raiders)
  BY DEF Seated, AssignAssumption
<1> QED BY <1>1, FS_Subset, FS_CardinalityType

\* A swap seats one more.
LEMMA SwapSeatsOneMore ==
  ASSUME AssignAssumption, AssignTypeOK, Repair
  PROVE  Cardinality(Seated(seat')) = Cardinality(Seated(seat)) + 1
<1> DEFINE after == seat'
<1>1. PICK g \in Groups, m \in Raiders, b \in Raiders : \E x, y, without, mid :
        Swap(g, m, x, b, y, without, mid, after)
  BY RepairIsASwap
<1> HIDE DEF after
<1>2. PICK x, y, without, mid : Swap(g, m, x, b, y, without, mid, after)
  BY <1>1
<1>3. SwapSums(g, m, x, b, y, without, mid, after)
  BY <1>2, SwapCounts
<1>4. /\ seat[b] = Bench /\ seat[m] # Bench /\ after[m] = x /\ after[b] = y
      /\ \A r \in Raiders : r \notin {m, b} => after[r] = seat[r]
  BY <1>3 DEF SwapSums
<1>5. x # Bench /\ y # Bench
  BY <1>2 DEF Swap, Takes, Roles, Bench
<1>6. \A r \in Raiders : r \in Seated(after) <=> r \in Seated(seat) \/ r = b
  BY <1>4, <1>5 DEF Seated
<1>7. Seated(after) \subseteq Raiders /\ Seated(seat) \subseteq Raiders /\ b \notin Seated(seat)
  BY <1>4 DEF Seated
<1>8. Seated(after) = Seated(seat) \cup {b}
  BY <1>6, <1>7
<1>9. Cardinality(Seated(after)) = Cardinality(Seated(seat)) + 1
  BY <1>7, <1>8, SeatedCounts, OneMore
<1> QED BY <1>9 DEF after

\* Filling unseats nobody.
LEMMA FillingUnseatsNobody ==
  ASSUME AssignAssumption, AssignTypeOK, GoodBoard(seat, todo), FillSeat
  PROVE  Cardinality(Seated(seat)) <= Cardinality(Seated(seat'))
<1> DEFINE g == Current
           b == First(Unseated(g, seat), g)
           role == RoleFor(b, g, seat)
<1>1. g \in Groups /\ seat \in Boards
  BY SomebodysTurn DEF FillSeat, GoodBoard
<1>2. /\ Unseated(g, seat) # {} /\ seat' = [seat EXCEPT ![b] = role]
  BY DEF FillSeat, Takers, Place
<1> HIDE DEF g
<1>3. b \in Raiders /\ role \in Roles
  BY <1>1, <1>2, TakerRanksFirst
<1> HIDE DEF b, role
<1>4. Seated(seat) \subseteq Seated(seat')
  BY <1>1, <1>2, <1>3 DEF Seated, Boards, Roles, Bench
<1> QED BY <1>4, SeatedCounts, FS_Subset

\* When there are as many swaps as raiders who can play, all of them sit.
LEMMA NobodyLeftToRepairWith ==
  ASSUME AssignAssumption, AssignInv, SwapsSeat, swaps = Cardinality(Playable), NEW g \in Groups
  PROVE  ~Repairable(g)
<1>1. AssignTypeOK /\ Limits(seat) /\ seat \in Boards
  BY DEF AssignInv, GoodBoard
<1>2. Seated(seat) \subseteq Playable
  BY <1>1 DEF Limits, Seated, Playable
<1>3. Cardinality(Playable) <= Cardinality(Seated(seat))
  BY DEF SwapsSeat
<1>4. Seated(seat) = Playable
  <2>1. IsFiniteSet(Playable) /\ Cardinality(Playable) \in Nat
    <3>1. Playable \subseteq Raiders /\ IsFiniteSet(Raiders)
      BY DEF Playable, AssignAssumption
    <3> HIDE DEF Playable
    <3> QED BY <3>1, FS_Subset, FS_CardinalityType
  <2>2. Cardinality(Seated(seat)) \in Nat
    BY SeatedCounts
  <2> HIDE DEF Playable
  <2>3. Cardinality(Seated(seat)) <= Cardinality(Playable)
    BY <1>2, <2>1, FS_Subset
  <2>4. Cardinality(Seated(seat)) = Cardinality(Playable)
    BY <1>3, <2>1, <2>2, <2>3
  <2> QED BY <1>2, <2>1, <2>4, FS_Subset
<1>5. SUFFICES ASSUME NEW m \in Raiders, CanMove(m, g) PROVE FALSE
  BY DEF Repairable, Movable
<1> DEFINE without == [seat EXCEPT ![m] = Bench]
<1>6. PICK b \in Raiders : Moved(m, g)[b] = Bench /\ OpenTo(b, GroupOf(seat[m]), Moved(m, g)) # {}
  BY <1>5 DEF CanMove, Backfill, Unseated
<1>7. b # m
  <2>1. OpenTo(m, g, without) # {} /\ Moved(m, g) = [without EXCEPT ![m] = RoleFor(m, g, without)]
    BY <1>5 DEF CanMove, Moved, Place
  <2> HIDE DEF without
  <2>2. RoleFor(m, g, without) \in Roles
    BY <1>1, <2>1, RoleForIsOpen
  <2>3. DOMAIN without = Raiders
    BY <1>1 DEF without, Boards
  <2>4. Moved(m, g)[m] # Bench
    BY <2>1, <2>2, <2>3 DEF Roles, Bench
  <2> QED BY <1>6, <2>4
<1>8. seat[b] = Bench
  BY <1>1, <1>6, <1>7 DEF Moved, Place, Boards
<1>9. b \in Playable
  BY <1>6 DEF OpenTo, MenuFor, Playable
<1> QED BY <1>4, <1>8, <1>9 DEF Seated

\* Which group can be helped is a matter of the board alone.
LEMMA RepairableStays ==
  ASSUME menu' = menu, need' = need, seat' = seat, NEW g
  PROVE  Repairable(g)' <=> Repairable(g)
<1>1. \A role, s : HasRoom(role, s)' <=> HasRoom(role, s)
  BY DEF HasRoom, SeatedAs, Cap
<1>2. \A r, h, s : OpenTo(r, h, s)' = OpenTo(r, h, s)
  BY <1>1 DEF OpenTo, MenuFor
<1>3. \A r, h, s : RoleFor(r, h, s)' = RoleFor(r, h, s)
  BY <1>2 DEF RoleFor
<1>4. \A m : Moved(m, g)' = Moved(m, g)
  BY <1>3 DEF Moved, Place
<1>5. \A m : Backfill(m, g)' = Backfill(m, g)
  BY <1>2, <1>4 DEF Backfill, Unseated
<1>6. \A m : CanMove(m, g)' <=> CanMove(m, g)
  BY <1>2, <1>5 DEF CanMove
<1> QED BY <1>6 DEF Repairable, Movable, Short, SeatedIn

\* Assign stops its repairs after as many as there are raiders, "so a cycle cannot hang the
\* caller" (comp/assign.go): there is no cycle, and no repair is ever cut off by that bound.
THEOREM RepairsRunOut == AssignSpec => []NoRepairLeft
<1> DEFINE Inv == AssignInv /\ SwapsSeat /\ NoRepairLeft
<1>1. AssignInit => Inv
  <2>1. SUFFICES ASSUME AssignInit PROVE Inv
    OBVIOUS
  <2>2. AssignInv /\ swaps = 0 /\ ~done
    BY <2>1, AssignAssumption, AssignStarts DEF AssignInit
  <2> QED BY <2>2, AssignAssumption, SeatedCounts DEF SwapsSeat, NoRepairLeft
<1>2. Inv /\ [AssignNext]_assignVars => Inv'
  <2>1. SUFFICES ASSUME Inv, [AssignNext]_assignVars PROVE Inv'
    OBVIOUS
  <2>2. AssignInv' /\ AssignTypeOK /\ GoodBoard(seat, todo) /\ (done => todo = {})
    BY <2>1, AssignAssumption, AssignContinues DEF AssignInv
  <2>3. swaps \in Nat /\ Cardinality(Seated(seat)) \in Nat /\ Cardinality(Seated(seat')) \in Nat
    BY <2>2, AssignAssumption, SeatedCounts, PoolCounts DEF AssignTypeOK
  <2>4. SwapsSeat'
    <3>1. CASE FillSeat
      BY <2>1, <2>2, <2>3, <3>1, AssignAssumption, FillingUnseatsNobody DEF SwapsSeat, FillSeat
    <3>2. CASE Repair
      BY <2>1, <2>2, <2>3, <3>2, AssignAssumption, SwapSeatsOneMore DEF SwapsSeat, Repair
    <3>3. CASE FillNext \/ Finish \/ UNCHANGED assignVars
      BY <2>1, <3>3 DEF SwapsSeat, FillNext, Finish, assignVars
    <3> QED BY <2>1, <3>1, <3>2, <3>3 DEF AssignNext
  <2>5. NoRepairLeft'
    <3>1. SUFFICES ASSUME done', NEW g \in Groups PROVE ~Repairable(g)'
      BY DEF NoRepairLeft
    <3>2. menu' = menu /\ need' = need /\ seat' = seat /\ ~Repairable(g)
      <4>1. CASE Finish
        BY <2>1, <4>1, AssignAssumption, NobodyLeftToRepairWith DEF Finish, input
      <4>2. CASE ~Finish
        <5>1. done' = done
          BY <2>1, <4>2, Zenon DEF AssignNext, FillSeat, FillNext, Repair, assignVars
        <5>2. done /\ todo = {}
          BY <2>2, <3>1, <5>1
        <5>3. UNCHANGED assignVars
          BY <2>1, <4>2, <5>2 DEF AssignNext, FillSeat, FillNext, Repair
        <5> QED BY <2>1, <5>2, <5>3 DEF assignVars, NoRepairLeft
      <4> QED BY <4>1, <4>2
    <3> QED BY <3>2, RepairableStays
  <2> QED BY <2>2, <2>4, <2>5
<1> QED BY <1>1, <1>2, PTL DEF AssignSpec
=============================================================================
