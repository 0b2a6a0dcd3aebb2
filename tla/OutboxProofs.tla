----------------------------- MODULE OutboxProofs -----------------------------
(***************************************************************************)
(* Proofs, for any number of bots and rows, any batch size and any lease,  *)
(* that the outbox keeps its types, that no two bots hold a row within a   *)
(* lease of each other, that a failure is reported once it is settled, and *)
(* that all of it together implements Delivery.                            *)
(***************************************************************************)
EXTENDS Outbox, TLAPS

RowsTyped == /\ made \in 0..MaxRows
             /\ DOMAIN rows \subseteq 1..made
             /\ \A n \in DOMAIN rows : rows[n] \in Row
HandsTyped == hand \in [Bots -> SUBSET Held]
RestTyped == /\ filing \subseteq Ids
             /\ reported \in [Ids -> 0..MaxRows]
             /\ losses \in 0..MaxLosses

LEMMA TypeParts == TypeOK <=> RowsTyped /\ HandsTyped /\ RestTyped
  BY DEF TypeOK, RowsTyped, HandsTyped, RestTyped

LEMMA Ages ==
  /\ Lapsed \in 0..Lapsed /\ 0 \in 0..Lapsed /\ Lapsed # 0
  /\ \A age \in 0..Lapsed : Older(age) \in 0..Lapsed /\ (age = Lapsed => Older(age) = Lapsed)
  BY OutboxAssumption DEF Lapsed, Older

\* An id there is a row for is one of Ids.
LEMMA RowIds == RowsTyped => DOMAIN rows \subseteq Ids
  BY OutboxAssumption DEF RowsTyped, Ids

\* A row or a held row, older, is the same but for its age.
LEMMA OlderRow ==
  ASSUME NEW r \in Row
  PROVE  LET s == [r EXCEPT !.claim = Older(@)]
         IN s \in Row /\ s.claim = Older(r.claim) /\ s.kind = r.kind /\ s.delivered = r.delivered
  BY Ages DEF Row

LEMMA OlderHeld ==
  ASSUME NEW h \in Held
  PROVE  LET g == [h EXCEPT !.age = Older(@)]
         IN g \in Held /\ g.age = Older(h.age) /\ g.row = h.row
  BY Ages DEF Held

LEMMA Sent ==
  ASSUME NEW h \in Held, NEW outcome \in {"sent", "refused"}
  PROVE  LET g == [h EXCEPT !.did = outcome]
         IN g \in Held /\ g.age = h.age /\ g.row = h.row
  BY DEF Held

\* What Insert does to the table.
LEMMA Inserted ==
  ASSUME RowsTyped, NEW kind \in Kinds, Insert(kind)
  PROVE  /\ made' = made + 1 /\ made + 1 \in Ids /\ RowsTyped'
         /\ made + 1 \notin DOMAIN rows /\ DOMAIN rows' = DOMAIN rows \union {made + 1}
         /\ \A n \in DOMAIN rows : rows'[n] = rows[n]
         /\ rows'[made + 1] = NewRow(kind)
<1>1. NewRow(kind) \in Row
  BY Ages DEF NewRow, Row
<1>2. made + 1 \notin DOMAIN rows /\ made + 1 \in Ids /\ made' = made + 1 /\ made' \in 0..MaxRows
  BY OutboxAssumption DEF Insert, RowsTyped, Ids
<1>3. DOMAIN rows' = DOMAIN rows \union {made + 1} /\ DOMAIN rows' \subseteq 1..made'
  BY <1>2 DEF Insert, RowsTyped
<1>4. /\ \A n \in DOMAIN rows : rows'[n] = rows[n]
      /\ rows'[made + 1] = NewRow(kind)
  BY <1>2 DEF Insert
<1> QED BY <1>1, <1>2, <1>3, <1>4 DEF RowsTyped

\* What an ack does to it: a row may become delivered, and that is all.
LEMMA AckEffect ==
  ASSUME RowsTyped, NEW n, Acked(n)
  PROVE  /\ DOMAIN rows' = DOMAIN rows
         /\ \A m \in DOMAIN rows : /\ rows'[m] \in Row
                                   /\ rows'[m].kind = rows[m].kind /\ rows'[m].claim = rows[m].claim
                                   /\ rows[m].delivered \/ m = n => rows'[m].delivered
<1>1. \A r \in Row : LET s == [r EXCEPT !.delivered = TRUE]
                     IN s \in Row /\ s.kind = r.kind /\ s.claim = r.claim /\ s.delivered
  BY DEF Row
<1> QED BY <1>1 DEF Acked, RowsTyped

\* What a claim hands over.
Claimed(n) == [row |-> n, age |-> 0, did |-> "nothing"]

LEMMA ClaimEffect ==
  ASSUME RowsTyped, HandsTyped, NEW b \in Bots, Claim(b)
  PROVE  \E batch \in SUBSET DOMAIN rows :
           /\ \A n \in batch : rows[n].claim = Lapsed /\ ~rows[n].delivered
           /\ DOMAIN rows' = DOMAIN rows
           /\ \A n \in batch : rows'[n].claim = 0
           /\ \A n \in DOMAIN rows : /\ rows'[n] \in Row /\ rows'[n].kind = rows[n].kind
                                     /\ rows'[n].delivered = rows[n].delivered
                                     /\ n \notin batch => rows'[n] = rows[n]
           /\ hand'[b] = {Claimed(n) : n \in batch}
           /\ \A c \in Bots \ {b} : hand'[c] = hand[c]
           /\ HandsTyped'
<1> DEFINE open == {n \in DOMAIN rows : Claimable(n)}
<1>1. PICK batch \in SUBSET open :
        /\ rows' = [n \in DOMAIN rows |->
                      IF n \in batch THEN [rows[n] EXCEPT !.claim = 0] ELSE rows[n]]
        /\ hand' = [hand EXCEPT ![b] = {[row |-> n, age |-> 0, did |-> "nothing"] : n \in batch}]
  BY DEF Claim
<1>2. \A r \in Row : LET s == [r EXCEPT !.claim = 0]
                     IN s \in Row /\ s.kind = r.kind /\ s.claim = 0 /\ s.delivered = r.delivered
  BY Ages DEF Row
<1>3. batch \in SUBSET DOMAIN rows /\ \A n \in batch : rows[n].claim = Lapsed /\ ~rows[n].delivered
  BY DEF Claimable
<1>4. /\ DOMAIN rows' = DOMAIN rows
      /\ \A n \in batch : rows'[n].claim = 0
      /\ \A n \in DOMAIN rows : /\ rows'[n] \in Row /\ rows'[n].kind = rows[n].kind
                                /\ rows'[n].delivered = rows[n].delivered
                                /\ n \notin batch => rows'[n] = rows[n]
  BY <1>1, <1>2, <1>3 DEF RowsTyped
<1>5. {Claimed(n) : n \in batch} \subseteq Held
  BY <1>3, RowIds, Ages DEF Claimed, Held
<1>6. /\ hand'[b] = {Claimed(n) : n \in batch}
      /\ \A c \in Bots \ {b} : hand'[c] = hand[c]
      /\ HandsTyped'
  BY <1>1, <1>5 DEF HandsTyped, Claimed
<1> QED BY <1>3, <1>4, <1>6

\* What the passing of time does to the hands.
LEMMA ClockEffect ==
  ASSUME RowsTyped, HandsTyped, Clock
  PROVE  /\ RowsTyped' /\ HandsTyped' /\ DOMAIN rows' = DOMAIN rows
         /\ \A n \in DOMAIN rows : /\ rows'[n].claim = Older(rows[n].claim)
                                   /\ rows'[n].kind = rows[n].kind
                                   /\ rows'[n].delivered = rows[n].delivered
         /\ \A b \in Bots : \A g \in hand'[b] :
              \E h \in hand[b] : g.row = h.row /\ g.age = Older(h.age)
<1>1. /\ DOMAIN rows' = DOMAIN rows
      /\ \A n \in DOMAIN rows : rows'[n] = [rows[n] EXCEPT !.claim = Older(@)]
  BY DEF Clock
<1>2. \A n \in DOMAIN rows : /\ rows'[n] \in Row /\ rows'[n].claim = Older(rows[n].claim)
                             /\ rows'[n].kind = rows[n].kind
                             /\ rows'[n].delivered = rows[n].delivered
  BY <1>1, OlderRow DEF RowsTyped
<1>3. RowsTyped'
  BY <1>1, <1>2 DEF RowsTyped, Clock
<1>4. hand' = [b \in Bots |-> {[h EXCEPT !.age = Older(@)] : h \in hand[b]}]
  BY DEF Clock
<1>5. \A b \in Bots : \A g \in hand'[b] :
        g \in Held /\ \E h \in hand[b] : g.row = h.row /\ g.age = Older(h.age)
  <2> TAKE b \in Bots
  <2> TAKE g \in hand'[b]
  <2>1. PICK h \in hand[b] : g = [h EXCEPT !.age = Older(@)]
    BY <1>4
  <2>2. h \in Held
    BY DEF HandsTyped
  <2> QED BY <2>1, <2>2, OlderHeld
<1>6. HandsTyped'
  BY <1>4, <1>5 DEF HandsTyped
<1> QED BY <1>1, <1>2, <1>3, <1>5, <1>6

\* What a bot does to a row it holds leaves the others, and drops or marks it.
LEMMA HandEffect ==
  ASSUME HandsTyped, NEW b \in Bots, NEW h \in hand[b],
         Send(b, h) \/ Settled(b, h)
  PROVE  /\ HandsTyped'
         /\ \A c \in Bots : \A g \in hand'[c] : \E k \in hand[c] : g.row = k.row /\ g.age = k.age
<1>1. h \in Held
  BY DEF HandsTyped
<1>2. CASE Settled(b, h)
  BY <1>2 DEF Settled, HandsTyped
<1>3. CASE Send(b, h)
  <2>1. PICK outcome \in {"sent", "refused"} :
          hand' = [hand EXCEPT ![b] = (@ \ {h}) \union {[h EXCEPT !.did = outcome]}]
    BY <1>3 DEF Send
  <2>2. /\ [h EXCEPT !.did = outcome] \in Held
        /\ [h EXCEPT !.did = outcome].row = h.row /\ [h EXCEPT !.did = outcome].age = h.age
    BY <1>1, Sent
  <2> QED BY <2>1, <2>2 DEF HandsTyped
<1> QED BY <1>2, <1>3
-----------------------------------------------------------------------------
(* Types.                                                                  *)

\* The table after an ack keeps its types.
LEMMA AckTyped ==
  ASSUME RowsTyped, NEW n, Acked(n), made' = made
  PROVE  RowsTyped'
  BY AckEffect DEF RowsTyped

LEMMA TypesHold == TypeOK /\ [Next]_vars => TypeOK'
<1> DEFINE Typed == RowsTyped /\ HandsTyped /\ RestTyped
<1> SUFFICES ASSUME TypeOK, [Next]_vars PROVE Typed'
  BY DEF TypeOK, RowsTyped, HandsTyped, RestTyped
<1>0. RowsTyped /\ HandsTyped /\ RestTyped
  BY TypeParts
<1> USE <1>0, OutboxAssumption
<1>1. CASE Queue
  BY <1>1, Inserted DEF Queue, HandsTyped, RestTyped, Kinds
<1>2. CASE Cascade
  BY <1>2 DEF Cascade, RowsTyped, HandsTyped, RestTyped
<1>3. CASE Clock
  BY <1>3, ClockEffect DEF Clock, RestTyped
<1>4. ASSUME NEW b \in Bots, Claim(b) PROVE Typed'
  BY <1>4, ClaimEffect DEF Claim, RowsTyped, RestTyped
<1>5. ASSUME NEW b \in Bots, NEW h \in hand[b], Send(b, h) PROVE Typed'
  BY <1>5, HandEffect DEF Send, RowsTyped, RestTyped
<1>6. ASSUME NEW b \in Bots, NEW h \in hand[b], MarkDelivered(b, h) PROVE Typed'
  BY <1>6, HandEffect, AckTyped DEF MarkDelivered, RestTyped
<1>7. ASSUME NEW b \in Bots, NEW h \in hand[b], MarkFailedAck(b, h) PROVE Typed'
  BY <1>7, HandEffect, AckTyped, RowIds DEF MarkFailedAck, RestTyped
<1>8. ASSUME NEW n \in Ids, MarkFailedReport(n) PROVE Typed'
  <2>1. filing' \subseteq Ids /\ HandsTyped' /\ losses' \in 0..MaxLosses
    BY <1>8 DEF MarkFailedReport, HandsTyped, RestTyped
  <2>2. CASE /\ Insert("DELIVERY_FAILED")
             /\ reported' = [reported EXCEPT ![made + 1] = n]
    <3>1. n \in 0..MaxRows
      BY DEF Ids
    <3> QED BY <2>1, <2>2, <3>1, Inserted DEF RestTyped, Kinds
  <2>3. CASE UNCHANGED <<rows, made, reported>>
    BY <2>1, <2>3 DEF RowsTyped, RestTyped
  <2> QED BY <1>8, <2>2, <2>3 DEF MarkFailedReport
<1>9. ASSUME NEW n \in Ids, MarkFailedOrphaned(n) \/ ReportLost(n) PROVE Typed'
  BY <1>9 DEF MarkFailedOrphaned, ReportLost, RowsTyped, HandsTyped, RestTyped
<1>10. ASSUME NEW b \in Bots, NEW h \in hand[b], Forget(b, h) PROVE Typed'
  BY <1>10, HandEffect DEF Forget, RowsTyped, RestTyped
<1>11. CASE UNCHANGED vars
  BY <1>11 DEF vars, RowsTyped, HandsTyped, RestTyped
<1> QED BY <1>1, <1>2, <1>3, <1>4, <1>5, <1>6, <1>7, <1>8, <1>9, <1>10, <1>11
        DEF Next, BotStep, ReportStep

LEMMA TypesBegin == Init => TypeOK
  BY OutboxAssumption DEF Init, TypeOK, Ids

\* The rows, the claims and the reports keep their types.
THEOREM OutboxTyped == Spec => []TypeOK
  BY TypesBegin, TypesHold, PTL DEF Spec

-----------------------------------------------------------------------------
(* The lease.                                                              *)

\* Ids are not given twice.
HeldWereMade == \A b \in Bots : \A h \in hand[b] : h.row <= made

Leased == HeldWereMade /\ StampIsTheHolders /\ LeaseIsExclusive

\* A step that hands nothing out, makes nobody's claim younger and moves no stamp of a
\* row that stays keeps the lease.
LEMMA QuietStep ==
  ASSUME RowsTyped, HandsTyped, Leased, made' \in Nat, made <= made',
         DOMAIN rows' \cap 1..made \subseteq DOMAIN rows,
         \A n \in DOMAIN rows' \cap 1..made : rows'[n].claim = rows[n].claim,
         \A c \in Bots : \A g \in hand'[c] : \E k \in hand[c] : g.row = k.row /\ g.age = k.age
  PROVE  Leased'
<1>1. HeldWereMade'
  <2> SUFFICES ASSUME NEW b \in Bots, NEW g \in hand'[b] PROVE g.row <= made'
    BY DEF HeldWereMade
  <2>1. PICK k \in hand[b] : g.row = k.row
    OBVIOUS
  <2>2. k.row \in Nat /\ k.row <= made /\ made \in Nat
    BY DEF Leased, HeldWereMade, HandsTyped, Held, Ids, RowsTyped
  <2> QED BY <2>1, <2>2
<1>2. StampIsTheHolders'
  <2> SUFFICES ASSUME NEW b \in Bots, NEW g \in hand'[b], g.age < Lapsed, g.row \in DOMAIN rows'
               PROVE  rows'[g.row].claim = g.age
    BY DEF StampIsTheHolders, Lapsed
  <2>1. PICK k \in hand[b] : g.row = k.row /\ g.age = k.age
    OBVIOUS
  <2>2. k.row \in 1..made
    BY DEF Leased, HeldWereMade, HandsTyped, Held, Ids, RowsTyped
  <2> QED BY <2>1, <2>2 DEF Leased, StampIsTheHolders
<1>3. LeaseIsExclusive'
  <2> SUFFICES ASSUME NEW b \in Bots, NEW c \in Bots, b # c,
                      NEW g \in hand'[b], NEW l \in hand'[c], g.row = l.row
               PROVE  g.age = Lapsed \/ l.age = Lapsed
    BY DEF LeaseIsExclusive, Lapsed
  <2>1. PICK h \in hand[b] : g.row = h.row /\ g.age = h.age
    OBVIOUS
  <2>2. PICK k \in hand[c] : l.row = k.row /\ l.age = k.age
    OBVIOUS
  <2> QED BY <2>1, <2>2 DEF Leased, LeaseIsExclusive
<1> QED BY <1>1, <1>2, <1>3 DEF Leased

\* Claiming keeps it: of a row whose claim has lapsed, every earlier holder's has.
LEMMA ClaimStep ==
  ASSUME RowsTyped, HandsTyped, Leased, NEW b \in Bots, Claim(b)
  PROVE  Leased'
<1>1. made' = made /\ made \in Nat
  BY DEF Claim, RowsTyped
<1>2. PICK batch \in SUBSET DOMAIN rows :
           /\ \A n \in batch : rows[n].claim = Lapsed
           /\ DOMAIN rows' = DOMAIN rows
           /\ \A n \in batch : rows'[n].claim = 0
           /\ \A n \in DOMAIN rows : n \notin batch => rows'[n] = rows[n]
           /\ hand'[b] = {Claimed(n) : n \in batch}
           /\ \A c \in Bots \ {b} : hand'[c] = hand[c]
  BY ClaimEffect
<1>3. \A g \in hand'[b] : g.row \in batch /\ g.age = 0
  BY <1>2 DEF Claimed
<1>4. \A c \in Bots \ {b} : \A k \in hand'[c] : k.row \in batch => k.age = Lapsed
  <2> SUFFICES ASSUME NEW c \in Bots \ {b}, NEW k \in hand[c], k.row \in batch PROVE k.age = Lapsed
    BY <1>2
  <2>1. k.age \in 0..Lapsed
    BY DEF HandsTyped, Held
  <2>2. rows[k.row].claim = Lapsed /\ k.row \in DOMAIN rows
    BY <1>2
  <2> QED BY <2>1, <2>2, OutboxAssumption DEF Leased, StampIsTheHolders, Lapsed
<1>5. HeldWereMade'
  BY <1>1, <1>2, <1>3 DEF Leased, HeldWereMade, RowsTyped
<1>6. StampIsTheHolders'
  <2> SUFFICES ASSUME NEW c \in Bots, NEW g \in hand'[c], g.age < Lapsed, g.row \in DOMAIN rows'
               PROVE  rows'[g.row].claim = g.age
    BY DEF StampIsTheHolders, Lapsed
  <2>1. CASE c = b
    BY <1>2, <1>3, <2>1
  <2>2. CASE c # b
    <3>1. g.row \notin batch
      BY <1>4, <2>2, OutboxAssumption DEF Lapsed
    <3> QED BY <1>2, <2>2, <3>1 DEF Leased, StampIsTheHolders
  <2> QED BY <2>1, <2>2
<1>7. LeaseIsExclusive'
  <2> SUFFICES ASSUME NEW c \in Bots, NEW d \in Bots, c # d,
                      NEW g \in hand'[c], NEW l \in hand'[d], g.row = l.row
               PROVE  g.age = Lapsed \/ l.age = Lapsed
    BY DEF LeaseIsExclusive, Lapsed
  <2>1. CASE c = b
    BY <1>3, <1>4, <2>1
  <2>2. CASE d = b
    BY <1>3, <1>4, <2>2
  <2>3. CASE c # b /\ d # b
    BY <1>2, <2>3 DEF Leased, LeaseIsExclusive
  <2> QED BY <2>1, <2>2, <2>3
<1> QED BY <1>5, <1>6, <1>7 DEF Leased

\* So does time: the stamp ages with its holder.
LEMMA ClockStep ==
  ASSUME RowsTyped, HandsTyped, Leased, Clock
  PROVE  Leased'
<1>1. made' = made
  BY DEF Clock
<1>2. /\ DOMAIN rows' = DOMAIN rows
      /\ \A n \in DOMAIN rows : rows'[n].claim = Older(rows[n].claim)
      /\ \A b \in Bots : \A g \in hand'[b] :
           \E h \in hand[b] : g.row = h.row /\ g.age = Older(h.age)
  BY ClockEffect
<1>3. \A b \in Bots : \A h \in hand[b] : h.age \in 0..Lapsed
  BY DEF HandsTyped, Held
<1>4. \A age \in 0..Lapsed : Older(age) < Lapsed => age < Lapsed
  BY OutboxAssumption DEF Older, Lapsed
<1>5. HeldWereMade'
  BY <1>1, <1>2 DEF Leased, HeldWereMade
<1>6. StampIsTheHolders'
  <2> SUFFICES ASSUME NEW c \in Bots, NEW g \in hand'[c], g.age < Lapsed, g.row \in DOMAIN rows'
               PROVE  rows'[g.row].claim = g.age
    BY DEF StampIsTheHolders, Lapsed
  <2>1. PICK h \in hand[c] : g.row = h.row /\ g.age = Older(h.age)
    BY <1>2
  <2>2. h.age < Lapsed
    BY <1>3, <1>4, <2>1
  <2> QED BY <1>2, <2>1, <2>2 DEF Leased, StampIsTheHolders
<1>7. LeaseIsExclusive'
  <2> SUFFICES ASSUME NEW c \in Bots, NEW d \in Bots, c # d,
                      NEW g \in hand'[c], NEW l \in hand'[d], g.row = l.row
               PROVE  g.age = Lapsed \/ l.age = Lapsed
    BY DEF LeaseIsExclusive, Lapsed
  <2>1. PICK h \in hand[c] : g.row = h.row /\ g.age = Older(h.age)
    BY <1>2
  <2>2. PICK k \in hand[d] : l.row = k.row /\ l.age = Older(k.age)
    BY <1>2
  <2>3. h.age = Lapsed \/ k.age = Lapsed
    BY <2>1, <2>2 DEF Leased, LeaseIsExclusive
  <2> QED BY <2>1, <2>2, <2>3, Ages
<1> QED BY <1>5, <1>6, <1>7 DEF Leased

LEMMA LeasedHolds == TypeOK /\ Leased /\ [Next]_vars => Leased'
<1> SUFFICES ASSUME TypeOK, Leased, [Next]_vars PROVE Leased'
  OBVIOUS
<1>0. RowsTyped /\ HandsTyped /\ made \in Nat
  BY TypeParts DEF RowsTyped
<1> USE <1>0
<1>1. ASSUME NEW kind \in Kinds, Insert(kind), hand' = hand PROVE Leased'
  <2>1. made + 1 \notin 1..made
    OBVIOUS
  <2>2. DOMAIN rows' \cap 1..made \subseteq DOMAIN rows
    BY <1>1, <2>1, Inserted
  <2>3. \A n \in DOMAIN rows' \cap 1..made : rows'[n].claim = rows[n].claim
    BY <1>1, <2>2, Inserted
  <2> QED BY <1>1, <2>2, <2>3, Inserted, QuietStep
<1>2. CASE Cascade
  BY <1>2, QuietStep DEF Cascade
<1>3. CASE Clock
  BY <1>3, ClockStep
<1>4. ASSUME NEW b \in Bots, Claim(b) PROVE Leased'
  BY <1>4, ClaimStep
<1>5. ASSUME NEW b \in Bots, NEW h \in hand[b],
             Send(b, h) \/ MarkDelivered(b, h) \/ MarkFailedAck(b, h) \/ Forget(b, h)
      PROVE  Leased'
  <2>1. Send(b, h) \/ Settled(b, h)
    BY <1>5 DEF MarkDelivered, MarkFailedAck, Forget
  <2>2. \A c \in Bots : \A g \in hand'[c] : \E k \in hand[c] : g.row = k.row /\ g.age = k.age
    BY <2>1, HandEffect
  <2>3. DOMAIN rows' = DOMAIN rows /\ \A n \in DOMAIN rows : rows'[n].claim = rows[n].claim
    BY <1>5, AckEffect DEF Send, MarkDelivered, MarkFailedAck, Forget
  <2>4. made' = made
    BY <1>5 DEF Send, MarkDelivered, MarkFailedAck, Forget
  <2> QED BY <2>2, <2>3, <2>4, QuietStep
<1>6. ASSUME UNCHANGED <<rows, made, hand>> PROVE Leased'
  BY <1>6 DEF Leased, HeldWereMade, StampIsTheHolders, LeaseIsExclusive
<1>7. CASE Queue
  BY <1>1, <1>7 DEF Queue, Kinds
<1>8. CASE ReportStep
  BY <1>1, <1>6, <1>8 DEF ReportStep, MarkFailedReport, MarkFailedOrphaned, Kinds
<1>9. ASSUME NEW n \in Ids, ReportLost(n) PROVE Leased'
  BY <1>6, <1>9 DEF ReportLost
<1>10. CASE UNCHANGED vars
  BY <1>6, <1>10 DEF vars
<1> QED BY <1>2, <1>3, <1>4, <1>5, <1>7, <1>8, <1>9, <1>10 DEF Next, BotStep

LEMMA LeasedBegins == Init => Leased
  BY DEF Init, Leased, HeldWereMade, StampIsTheHolders, LeaseIsExclusive

\* Two bots never hold one row within a lease of each other, whatever they send, lose
\* or leave unsettled, and for however long: no send is made twice by two prompt bots.
THEOREM LeasesAreExclusive == Spec => []LeaseIsExclusive
<1>1. TypeOK /\ Leased /\ [Next]_vars => (TypeOK /\ Leased)'
  BY TypesHold, LeasedHolds
<1>2. Leased => LeaseIsExclusive
  BY DEF Leased
<1> QED BY <1>1, <1>2, TypesBegin, LeasedBegins, PTL DEF Spec
-----------------------------------------------------------------------------
(* The reports.                                                            *)

\* A failure between its ack and its report: settled, and of a message.
FilingIsSettled ==
  \A n \in filing :
    /\ n <= made /\ reported[n] = 0
    /\ n \in DOMAIN rows => rows[n].delivered

\* No message is a report of anything, nor is a row that has not been made.
MessagesReportNothing ==
  \A n \in Ids : n > made \/ (n \in DOMAIN rows /\ rows[n].kind = "MESSAGE") => reported[n] = 0

\* What a report is about was made before it, settled, and was no report.
ReportsAreSettled ==
  \A n \in Ids : reported[n] # 0 =>
    /\ reported[n] <= made
    /\ reported[reported[n]] = 0
    /\ reported[n] \in DOMAIN rows => rows[reported[n]].delivered

Reports == FilingIsSettled /\ MessagesReportNothing /\ ReportsAreSettled

\* A step that reports nothing new and takes back no ack keeps the reports.
LEMMA ReportlessStep ==
  ASSUME RowsTyped, RestTyped, Reports, reported' = reported, made' \in Nat, made <= made',
         \A n \in filing' : n \in 1..made /\ reported[n] = 0 /\ (n \in DOMAIN rows' => rows'[n].delivered),
         \A n \in DOMAIN rows' \cap 1..made :
           /\ n \in DOMAIN rows /\ rows'[n].kind = rows[n].kind
           /\ rows[n].delivered => rows'[n].delivered
  PROVE  Reports'
<1> USE DEF Ids
<1>0. made \in Nat /\ Ids \subseteq Nat
  BY DEF RowsTyped
<1>1. FilingIsSettled'
  BY <1>0 DEF FilingIsSettled, RestTyped
<1>2. MessagesReportNothing'
  <2> SUFFICES ASSUME NEW n \in Ids, n > made' \/ (n \in DOMAIN rows' /\ rows'[n].kind = "MESSAGE")
               PROVE  reported[n] = 0
    BY DEF MessagesReportNothing
  <2>1. CASE n > made
    BY <2>1 DEF Reports, MessagesReportNothing
  <2>2. CASE n <= made
    BY <1>0, <2>2 DEF Reports, MessagesReportNothing
  <2> QED BY <1>0, <2>1, <2>2
<1>3. ReportsAreSettled'
  <2> SUFFICES ASSUME NEW n \in Ids, reported[n] # 0
               PROVE  /\ reported[n] <= made'
                      /\ reported[reported[n]] = 0
                      /\ reported[n] \in DOMAIN rows' => rows'[reported[n]].delivered
    BY DEF ReportsAreSettled
  <2>1. reported[n] \in 1..made
    BY <1>0 DEF Reports, ReportsAreSettled, RestTyped
  <2> QED BY <1>0, <2>1 DEF Reports, ReportsAreSettled
<1> QED BY <1>1, <1>2, <1>3 DEF Reports

\* The report itself: a new row about one that is settled and no report.
LEMMA ReportStepHolds ==
  ASSUME RowsTyped, RestTyped, Reports, NEW n \in filing, filing' = filing \ {n},
         Insert("DELIVERY_FAILED"), reported' = [reported EXCEPT ![made + 1] = n]
  PROVE  Reports'
<1> DEFINE new == made + 1
<1>0. made \in Nat /\ Ids \subseteq Nat \ {0} /\ n \in Ids
  BY DEF RowsTyped, RestTyped, Ids
<1>1. /\ made' = new /\ new \in Ids /\ DOMAIN rows' = DOMAIN rows \union {new}
      /\ \A m \in DOMAIN rows : rows'[m] = rows[m]
      /\ rows'[new].kind = "DELIVERY_FAILED"
  BY Inserted DEF Kinds, NewRow
<1>2. n <= made /\ reported[n] = 0 /\ (n \in DOMAIN rows => rows[n].delivered)
  BY DEF Reports, FilingIsSettled
<1>3. reported'[new] = n /\ \A m \in Ids \ {new} : reported'[m] = reported[m]
  BY <1>1 DEF RestTyped
<1>4. FilingIsSettled'
  <2> SUFFICES ASSUME NEW m \in filing, m # n
               PROVE  m <= made' /\ reported'[m] = 0 /\ (m \in DOMAIN rows' => rows'[m].delivered)
    BY DEF FilingIsSettled
  <2>1. m \in Ids /\ m <= made /\ reported[m] = 0 /\ (m \in DOMAIN rows => rows[m].delivered)
    BY DEF Reports, FilingIsSettled, RestTyped
  <2>2. m # new /\ m \in Nat
    BY <1>0, <2>1
  <2> QED BY <1>0, <1>1, <1>3, <2>1, <2>2
<1>5. MessagesReportNothing'
  <2> SUFFICES ASSUME NEW m \in Ids, m > made' \/ (m \in DOMAIN rows' /\ rows'[m].kind = "MESSAGE")
               PROVE  reported'[m] = 0
    BY DEF MessagesReportNothing
  <2>1. m # new /\ m \in Nat
    BY <1>0, <1>1
  <2>2. m > made \/ (m \in DOMAIN rows /\ rows[m].kind = "MESSAGE")
    BY <1>0, <1>1, <2>1
  <2> QED BY <1>3, <2>1, <2>2 DEF Reports, MessagesReportNothing
<1>6. ReportsAreSettled'
  <2> SUFFICES ASSUME NEW m \in Ids, reported'[m] # 0
               PROVE  /\ reported'[m] <= made'
                      /\ reported'[reported'[m]] = 0
                      /\ reported'[m] \in DOMAIN rows' => rows'[reported'[m]].delivered
    BY DEF ReportsAreSettled
  <2>0. n # new /\ n \in Nat
    BY <1>0, <1>2
  <2>1. CASE m = new
    BY <1>0, <1>1, <1>2, <1>3, <2>0, <2>1
  <2>2. CASE m # new
    <3>1. /\ reported'[m] = reported[m] /\ reported[m] \in Ids /\ reported[m] <= made
          /\ reported[reported[m]] = 0
          /\ reported[m] \in DOMAIN rows => rows[reported[m]].delivered
      BY <1>3, <2>2 DEF Reports, ReportsAreSettled, RestTyped, Ids
    <3>2. reported[m] # new
      BY <1>0, <3>1
    <3>3. reported'[reported[m]] = 0
      BY <1>3, <3>1, <3>2
    <3>4. reported[m] \in DOMAIN rows' => rows'[reported[m]].delivered
      BY <1>1, <3>1, <3>2
    <3>5. reported[m] <= made'
      <4>1. \A k \in Nat : k <= made => k <= made + 1
        BY <1>0
      <4> QED BY <1>0, <1>1, <3>1, <4>1
    <3> QED BY <3>1, <3>3, <3>4, <3>5
  <2> QED BY <2>1, <2>2
<1> QED BY <1>4, <1>5, <1>6 DEF Reports

\* So every step that files nothing new and keeps the rows but for their claims.
LEMMA FilelessStep ==
  ASSUME RowsTyped, RestTyped, Reports, filing' \subseteq filing, reported' = reported, made' = made,
         DOMAIN rows' \subseteq DOMAIN rows,
         \A n \in DOMAIN rows' : /\ rows'[n].kind = rows[n].kind
                                 /\ rows[n].delivered => rows'[n].delivered
  PROVE  Reports'
<1>1. \A n \in filing' : n \in 1..made /\ reported[n] = 0 /\ (n \in DOMAIN rows' => rows'[n].delivered)
  BY DEF Reports, FilingIsSettled, RestTyped, Ids
<1> QED BY <1>1, ReportlessStep DEF RowsTyped

LEMMA ReportsHold == TypeOK /\ Leased /\ Reports /\ [Next]_vars => Reports'
<1> SUFFICES ASSUME TypeOK, Leased, Reports, [Next]_vars PROVE Reports'
  OBVIOUS
<1>0. RowsTyped /\ HandsTyped /\ RestTyped /\ made \in Nat
  BY TypeParts DEF RowsTyped
<1> USE <1>0
<1>1. CASE Queue
  <2>1. made + 1 \notin 1..made
    OBVIOUS
  <2>2. \A n \in DOMAIN rows' \cap 1..made : n \in DOMAIN rows /\ rows'[n] = rows[n]
    BY <1>1, <2>1, Inserted DEF Queue, Kinds
  <2>3. \A n \in filing : n \in 1..made
    BY DEF Reports, FilingIsSettled, RestTyped, Ids
  <2> QED BY <1>1, <2>2, <2>3, Inserted, ReportlessStep DEF Queue, Kinds, Reports, FilingIsSettled
<1>2. CASE Cascade
  BY <1>2, FilelessStep DEF Cascade
<1>3. CASE Clock
  BY <1>3, ClockEffect, FilelessStep DEF Clock
<1>4. ASSUME NEW b \in Bots, Claim(b) PROVE Reports'
  BY <1>4, ClaimEffect, FilelessStep DEF Claim
<1>5. ASSUME NEW b \in Bots, NEW h \in hand[b], Send(b, h) \/ Forget(b, h) PROVE Reports'
  BY <1>5, FilelessStep DEF Send, Forget
<1>6. ASSUME NEW b \in Bots, NEW h \in hand[b], MarkDelivered(b, h) PROVE Reports'
  BY <1>6, AckEffect, FilelessStep DEF MarkDelivered
<1>7. ASSUME NEW b \in Bots, NEW h \in hand[b], MarkFailedAck(b, h) PROVE Reports'
  <2>1. Acked(h.row) /\ made' = made /\ reported' = reported
    BY <1>7 DEF MarkFailedAck
  <2>2. \A n \in filing' \ filing : n = h.row /\ n \in DOMAIN rows /\ rows[n].kind = "MESSAGE"
    BY <1>7 DEF MarkFailedAck, Reportable, RowsTyped, Row, Kinds
  <2>3. \A n \in filing' \ filing : n \in 1..made /\ reported[n] = 0 /\ rows'[n].delivered
    BY <2>1, <2>2, AckEffect, RowIds DEF Reports, MessagesReportNothing, RowsTyped
  <2>4. \A n \in filing : n \in 1..made /\ reported[n] = 0 /\ (n \in DOMAIN rows' => rows'[n].delivered)
    BY <2>1, AckEffect DEF Reports, FilingIsSettled, RestTyped, Ids
  <2> QED BY <2>1, <2>3, <2>4, AckEffect, ReportlessStep
<1>8. ASSUME NEW n \in Ids, MarkFailedReport(n) PROVE Reports'
  <2>1. n \in filing /\ filing' = filing \ {n}
    BY <1>8 DEF MarkFailedReport, ReadyToReport
  <2>2. CASE UNCHANGED <<rows, made, reported>>
    BY <2>1, <2>2, FilelessStep
  <2> QED BY <1>8, <2>1, <2>2, ReportStepHolds DEF MarkFailedReport
<1>9. ASSUME NEW n \in Ids, MarkFailedOrphaned(n) \/ ReportLost(n) PROVE Reports'
  BY <1>9, FilelessStep DEF MarkFailedOrphaned, ReportLost
<1>10. CASE UNCHANGED vars
  BY <1>10 DEF vars, Reports, FilingIsSettled, MessagesReportNothing, ReportsAreSettled
<1> QED BY <1>1, <1>2, <1>3, <1>4, <1>5, <1>6, <1>7, <1>8, <1>9, <1>10 DEF Next, BotStep, ReportStep

LEMMA ReportsBegin == Init => Reports
<1> SUFFICES ASSUME Init PROVE Reports
  OBVIOUS
<1>1. \A n \in Ids : reported[n] = 0
  BY DEF Init
<1> QED BY <1>1 DEF Init, Reports, FilingIsSettled, MessagesReportNothing, ReportsAreSettled

\* A failed send is reported only of a row that is settled, and a report is never
\* reported on, although the ack and the report are two writes and the row's event, its
\* bot or the server may go between them.
THEOREM FailuresAreReportedSettled == Spec => []ReportFollowsAck
<1> DEFINE Inv == TypeOK /\ Leased /\ Reports
<1>1. Init => Inv
  BY TypesBegin, LeasedBegins, ReportsBegin
<1>2. Inv /\ [Next]_vars => Inv'
  BY TypesHold, LeasedHolds, ReportsHold
<1>3. Inv => ReportFollowsAck
  BY TypeParts, RowIds DEF Reports, ReportsAreSettled, ReportFollowsAck
<1> QED BY <1>1, <1>2, <1>3, PTL DEF Spec
-----------------------------------------------------------------------------
(* The delivery the outbox implements.                                     *)

\* What Delivery is told of a row stays the same.
Same(n) == PhaseOf(n)' = PhaseOf(n) /\ BearersOf(n)' = BearersOf(n)

\* A row whose stamp and ack stay is where it was.
LEMMA PhaseKept ==
  ASSUME NEW n \in Ids, n \in DOMAIN rows' <=> n \in DOMAIN rows, n <= made' <=> n <= made,
         n \in DOMAIN rows =>
           rows'[n].claim = rows[n].claim /\ rows'[n].delivered = rows[n].delivered
  PROVE  PhaseOf(n)' = PhaseOf(n)
  BY DEF PhaseOf

\* Who bears it matters only while it is lent.
LEMMA SameByPrompt ==
  ASSUME NEW n \in Ids, PhaseOf(n)' = PhaseOf(n),
         PhaseOf(n) = "lent" => Prompt(n)' = Prompt(n)
  PROVE  Same(n)
  BY DEF Same, BearersOf

\* Untouched hands are as prompt as before.
LEMMA HandsKept ==
  ASSUME NEW n \in Ids, hand' = hand
  PROVE  Prompt(n)' = Prompt(n)
  BY DEF Prompt

\* What changes no row is a stutter of Delivery.
LEMMA StutterOfDesk ==
  ASSUME \A n \in Ids : Same(n), reported' = reported
  PROVE  UNCHANGED Desk!vars
  BY DEF Same, Desk!vars

\* A new row is posted, and no other changes.
LEMMA InsertSeen ==
  ASSUME RowsTyped, NEW kind \in Kinds, Insert(kind), hand' = hand, NEW new, new = made + 1
  PROVE  /\ new \in Ids /\ PhaseOf(new) = "unwritten" /\ PhaseOf(new)' = "waiting"
         /\ BearersOf(new) = {} /\ BearersOf(new)' = {}
         /\ \A n \in Ids \ {new} : Same(n)
<1>1. /\ made' = new /\ made \in Nat /\ new \in Ids
      /\ new \notin DOMAIN rows /\ DOMAIN rows' = DOMAIN rows \union {new}
      /\ \A n \in DOMAIN rows : rows'[n] = rows[n]
      /\ rows'[new] = NewRow(kind)
  <2>1. made \in Nat
    BY DEF RowsTyped
  <2> QED BY <2>1, Inserted
<1>2. PhaseOf(new) = "unwritten"
  BY <1>1 DEF PhaseOf
<1>3. PhaseOf(new)' = "waiting"
  BY <1>1 DEF PhaseOf, NewRow
<1>4. ASSUME NEW n \in Ids, n # new PROVE Same(n)
  <2>1. n <= made' <=> n <= made
    BY <1>1, <1>4 DEF Ids
  <2>2. n \in DOMAIN rows' <=> n \in DOMAIN rows
    BY <1>1, <1>4
  <2> QED BY <1>1, <2>1, <2>2, PhaseKept, HandsKept, SameByPrompt
<1> QED BY <1>1, <1>2, <1>3, <1>4 DEF BearersOf

\* A queued message is posted.
LEMMA PostOfDesk ==
  ASSUME TypeOK, Insert("MESSAGE"), hand' = hand, reported' = reported
  PROVE  \E new \in Ids : Desk!Post(new)
<1>1. PICK new : new = made + 1
  OBVIOUS
<1>2. /\ new \in Ids /\ PhaseOf(new) = "unwritten" /\ PhaseOf(new)' = "waiting"
      /\ BearersOf(new) = {} /\ BearersOf(new)' = {}
      /\ \A n \in Ids \ {new} : Same(n)
  BY <1>1, TypeParts, InsertSeen DEF Kinds
<1>3. Desk!Post(new)
  BY <1>2 DEF Desk!Post, Same
<1> QED BY <1>2, <1>3

\* The report of a failure is about a settled row that reports nothing.
LEMMA ReportOfDesk ==
  ASSUME TypeOK, Reports, NEW n \in filing, n \in DOMAIN rows,
         Insert("DELIVERY_FAILED"), hand' = hand, reported' = [reported EXCEPT ![made + 1] = n]
  PROVE  n \in Ids /\ \E new \in Ids : Desk!Report(new, n)
<1>1. PICK new : new = made + 1
  OBVIOUS
<1>2. /\ new \in Ids /\ PhaseOf(new) = "unwritten" /\ PhaseOf(new)' = "waiting"
      /\ BearersOf(new) = {} /\ BearersOf(new)' = {}
      /\ \A m \in Ids \ {new} : Same(m)
  BY <1>1, TypeParts, InsertSeen DEF Kinds
<1>3. n \in Ids /\ PhaseOf(n) = "settled" /\ reported[n] = 0
  BY TypeParts DEF RestTyped, Reports, FilingIsSettled, PhaseOf
<1>4. Desk!Report(new, n)
  BY <1>1, <1>2, <1>3 DEF Desk!Report, Same
<1> QED BY <1>2, <1>3, <1>4

\* The event takes every row that was made.
LEMMA CascadeOfDesk ==
  ASSUME TypeOK, Cascade
  PROVE  Desk!Withdraw
<1>1. made' = made /\ DOMAIN rows' = {} /\ reported' = reported /\ DOMAIN rows \subseteq 1..made
  BY DEF Cascade, TypeOK
<1>2. \A n \in Ids : PhaseOf(n)' = IF PhaseOf(n) = "unwritten" THEN "unwritten" ELSE "gone"
  BY <1>1 DEF PhaseOf
<1>3. \A n \in Ids : BearersOf(n)' = {}
  BY <1>2 DEF BearersOf
<1> QED BY <1>1, <1>2, <1>3 DEF Desk!Withdraw

\* Claimed rows waited, and the claimer is the only prompt holder of each.
LEMMA ClaimOfDesk ==
  ASSUME TypeOK, Leased, NEW b \in Bots, Claim(b)
  PROVE  \E batch \in SUBSET Ids : Desk!Take(b, batch)
<1>0. RowsTyped /\ HandsTyped /\ DOMAIN rows \subseteq Ids
  BY TypeParts, RowIds
<1>1. made' = made /\ reported' = reported /\ hand[b] = {}
  BY DEF Claim
<1>2. PICK batch \in SUBSET DOMAIN rows :
           /\ \A n \in batch : rows[n].claim = Lapsed /\ ~rows[n].delivered
           /\ DOMAIN rows' = DOMAIN rows
           /\ \A n \in batch : rows'[n].claim = 0
           /\ \A n \in DOMAIN rows : /\ rows'[n].delivered = rows[n].delivered
                                     /\ n \notin batch => rows'[n] = rows[n]
           /\ hand'[b] = {Claimed(n) : n \in batch}
           /\ \A c \in Bots \ {b} : hand'[c] = hand[c]
  BY <1>0, ClaimEffect
<1>3. \A n \in batch : PhaseOf(n) = "waiting" /\ PhaseOf(n)' = "lent"
  BY <1>2, Ages DEF PhaseOf
<1>4. \A n \in Ids \ batch : PhaseOf(n)' = PhaseOf(n)
  BY <1>1, <1>2, PhaseKept
<1>5. \A n \in Ids \ batch : Prompt(n)' = Prompt(n)
  BY <1>1, <1>2 DEF Prompt, Claimed
<1>6. \A n \in batch : Prompt(n)' = {b}
  <2> SUFFICES ASSUME NEW n \in batch PROVE Prompt(n)' = {b}
    OBVIOUS
  <2>1. b \in Prompt(n)'
    <3>1. Claimed(n) \in hand'[b] /\ Claimed(n).row = n /\ Claimed(n).age = 0 /\ 0 < Lapsed
      BY <1>2, OutboxAssumption DEF Claimed, Lapsed
    <3> QED BY <3>1 DEF Prompt, Lapsed
  <2>2. ASSUME NEW c \in Bots \ {b}, NEW k \in hand[c], k.row = n PROVE ~(k.age < Lapsed)
    BY <1>2, <2>2, OutboxAssumption DEF Leased, StampIsTheHolders, Lapsed
  <2> QED BY <1>2, <2>1, <2>2 DEF Prompt
<1>7. /\ \A n \in Ids \ batch : Same(n)
      /\ \A n \in batch : BearersOf(n)' = {b}
  BY <1>0, <1>3, <1>4, <1>5, <1>6, SameByPrompt DEF BearersOf
<1> QED BY <1>0, <1>1, <1>3, <1>7 DEF Desk!Take, Same

\* Time keeps a holder prompt until the row's own stamp lapses.
LEMMA PromptUntilLapse ==
  ASSUME RowsTyped, HandsTyped, StampIsTheHolders, Clock,
         NEW n \in DOMAIN rows, Older(rows[n].claim) < Lapsed
  PROVE  Prompt(n)' = Prompt(n)
<1>1. hand' = [b \in Bots |-> {[h EXCEPT !.age = Older(@)] : h \in hand[b]}]
  BY DEF Clock
<1>2. \A age \in 0..Lapsed : Older(age) < Lapsed => age < Lapsed
  BY OutboxAssumption DEF Older, Lapsed
<1>3. \A b \in Bots : \A h \in hand[b] : h \in Held /\ h.age \in 0..Lapsed
  BY DEF HandsTyped, Held
<1>4. ASSUME NEW b \in Bots PROVE b \in Prompt(n)' => b \in Prompt(n)
  <2> SUFFICES ASSUME NEW g \in hand'[b], g.row = n, g.age < Lapsed PROVE b \in Prompt(n)
    BY DEF Prompt, Lapsed
  <2>1. PICK h \in hand[b] : g.row = h.row /\ g.age = Older(h.age)
    BY ClockEffect
  <2> QED BY <1>2, <1>3, <2>1 DEF Prompt
<1>5. ASSUME NEW b \in Bots PROVE b \in Prompt(n) => b \in Prompt(n)'
  <2> SUFFICES ASSUME NEW h \in hand[b], h.row = n, h.age < Lapsed PROVE b \in Prompt(n)'
    BY DEF Prompt
  <2>1. h.age = rows[n].claim
    BY DEF StampIsTheHolders
  <2>2. [h EXCEPT !.age = Older(@)] \in hand'[b]
    BY <1>1
  <2>3. /\ [h EXCEPT !.age = Older(@)].row = n
        /\ [h EXCEPT !.age = Older(@)].age < Lapsed
    BY <1>3, <2>1, OlderHeld
  <2> QED BY <2>2, <2>3 DEF Prompt, Lapsed
<1> QED BY <1>4, <1>5 DEF Prompt

\* The rows whose stamp lapses with this tick come back together.
LEMMA ClockOfDesk ==
  ASSUME TypeOK, Leased, Clock
  PROVE  \E batch \in SUBSET Ids : Desk!Lapse(batch)
<1>0. RowsTyped /\ HandsTyped /\ DOMAIN rows \subseteq Ids /\ StampIsTheHolders
  BY TypeParts, RowIds DEF Leased
<1>1. /\ made' = made /\ reported' = reported /\ DOMAIN rows' = DOMAIN rows
      /\ \A n \in DOMAIN rows : /\ rows'[n].claim = Older(rows[n].claim)
                                /\ rows'[n].delivered = rows[n].delivered
                                /\ rows[n].claim \in 0..Lapsed
  BY <1>0, ClockEffect DEF Clock, RowsTyped, Row
<1> DEFINE batch == {n \in Ids : PhaseOf(n) = "lent" /\ Older(rows[n].claim) = Lapsed}
<1>2. \A n \in batch : PhaseOf(n) = "lent" /\ PhaseOf(n)' = "waiting"
  BY <1>1 DEF PhaseOf
<1>3. ASSUME NEW n \in Ids \ batch PROVE Same(n)
  <2>1. PhaseOf(n)' = PhaseOf(n)
    BY <1>1, Ages DEF PhaseOf
  <2>2. ASSUME PhaseOf(n) = "lent" PROVE Prompt(n)' = Prompt(n)
    <3>1. n \in DOMAIN rows /\ Older(rows[n].claim) # Lapsed
      BY <2>2 DEF PhaseOf
    <3>2. Older(rows[n].claim) < Lapsed
      BY <1>1, <3>1, Ages, OutboxAssumption DEF Lapsed
    <3> QED BY <1>0, <3>1, <3>2, PromptUntilLapse
  <2> QED BY <2>1, <2>2, SameByPrompt
<1>4. \A n \in batch : BearersOf(n)' = {}
  BY <1>2 DEF BearersOf
<1> HIDE DEF batch
<1>5. batch \in SUBSET Ids
  BY DEF batch
<1>6. Desk!Lapse(batch)
  BY <1>1, <1>2, <1>3, <1>4, <1>5 DEF Desk!Lapse, Same
<1> QED BY <1>5, <1>6

\* A send leaves the holders prompt.
LEMMA PromptAfterSend ==
  ASSUME HandsTyped, NEW b \in Bots, NEW h \in hand[b], Send(b, h), NEW n \in Ids
  PROVE  Prompt(n)' = Prompt(n)
<1>1. PICK outcome \in {"sent", "refused"} :
        hand' = [hand EXCEPT ![b] = (@ \ {h}) \union {[h EXCEPT !.did = outcome]}]
  BY DEF Send
<1>2. /\ [h EXCEPT !.did = outcome].row = h.row
      /\ [h EXCEPT !.did = outcome].age = h.age
  BY Sent DEF HandsTyped
<1>3. ASSUME NEW c \in Bots PROVE c \in Prompt(n)' <=> c \in Prompt(n)
  BY <1>1, <1>2 DEF Prompt, HandsTyped, Lapsed
<1> QED BY <1>3 DEF Prompt

\* A settled entry was its holder's alone.
LEMMA PromptAfterSettled ==
  ASSUME HandsTyped, NEW b \in Bots, NEW h \in hand[b], Settled(b, h), NEW n \in Ids
  PROVE  /\ n # h.row => Prompt(n)' = Prompt(n)
         /\ Prompt(n)' = Prompt(n) \/ Prompt(n)' = Prompt(n) \ {b}
<1>1. /\ hand'[b] = hand[b] \ {h}
      /\ \A c \in Bots \ {b} : hand'[c] = hand[c]
  BY DEF Settled, HandsTyped
<1>2. ASSUME NEW c \in Bots, n # h.row PROVE c \in Prompt(n)' <=> c \in Prompt(n)
  BY <1>1, <1>2 DEF Prompt, Lapsed
<1>3. ASSUME NEW c \in Bots \ {b} PROVE c \in Prompt(n)' <=> c \in Prompt(n)
  BY <1>1 DEF Prompt, Lapsed
<1>4. b \in Prompt(n)' => b \in Prompt(n)
  BY <1>1 DEF Prompt, Lapsed
<1> QED BY <1>2, <1>3, <1>4 DEF Prompt

\* A row has one prompt holder at most.
LEMMA OneBearer ==
  ASSUME Leased, NEW n \in Ids, NEW b \in Prompt(n)
  PROVE  Prompt(n) = {b}
<1>1. ASSUME NEW c \in Prompt(n), c # b PROVE FALSE
  <2>1. PICK h \in hand[b], k \in hand[c] :
          h.row = n /\ k.row = n /\ h.age < Lapsed /\ k.age < Lapsed
    BY DEF Prompt
  <2>2. h.age = Lapsed \/ k.age = Lapsed
    BY <1>1, <2>1 DEF Leased, LeaseIsExclusive, Prompt
  <2> QED BY <2>1, <2>2, OutboxAssumption DEF Lapsed
<1> QED BY <1>1

\* An ack settles a row that was not, and nothing else.
LEMMA AckOfDesk ==
  ASSUME TypeOK, NEW b \in Bots, NEW h \in hand[b], Settled(b, h), Acked(h.row),
         made' = made, reported' = reported
  PROVE  [Desk!Next]_(Desk!vars)
<1>0. RowsTyped /\ HandsTyped /\ h.row \in Ids
  BY TypeParts DEF HandsTyped, Held
<1>1. DOMAIN rows' = DOMAIN rows /\ \A m \in DOMAIN rows : rows'[m].claim = rows[m].claim
  BY <1>0, AckEffect
<1>2. /\ \A m \in DOMAIN rows \ {h.row} : rows'[m] = rows[m]
      /\ h.row \in DOMAIN rows => rows'[h.row].delivered
  BY <1>0, AckEffect DEF Acked
<1>3. \A m \in Ids \ {h.row} : Same(m)
  BY <1>0, <1>1, <1>2, PhaseKept, PromptAfterSettled, SameByPrompt
<1>4. CASE PhaseOf(h.row) \in {"waiting", "lent"}
  <2>1. PhaseOf(h.row)' = "settled" /\ BearersOf(h.row)' = {}
    BY <1>1, <1>2, <1>4 DEF PhaseOf, BearersOf
  <2>2. Desk!Settle(h.row)
    BY <1>0, <1>3, <1>4, <2>1 DEF Desk!Settle, Same
  <2> QED BY <1>0, <2>2 DEF Desk!Next
<1>5. CASE PhaseOf(h.row) \notin {"waiting", "lent"}
  <2>1. PhaseOf(h.row)' = PhaseOf(h.row)
    BY <1>1, <1>2, <1>5 DEF PhaseOf
  <2>2. Same(h.row)
    BY <1>0, <1>5, <2>1, SameByPrompt
  <2> QED BY <1>3, <2>2, StutterOfDesk
<1> QED BY <1>4, <1>5

\* A forgotten row is let go if its holder was still prompt.
LEMMA ForgetOfDesk ==
  ASSUME TypeOK, Leased, NEW b \in Bots, NEW h \in hand[b], Forget(b, h)
  PROVE  [Desk!Next]_(Desk!vars)
<1>0. RowsTyped /\ HandsTyped /\ h.row \in Ids
  BY TypeParts DEF HandsTyped, Held
<1>1. rows' = rows /\ made' = made /\ reported' = reported /\ Settled(b, h)
  BY DEF Forget
<1>2. \A n \in Ids : PhaseOf(n)' = PhaseOf(n)
  BY <1>1, PhaseKept
<1>3. \A n \in Ids \ {h.row} : Same(n)
  BY <1>0, <1>1, <1>2, PromptAfterSettled, SameByPrompt
<1>4. CASE PhaseOf(h.row) = "lent" /\ Prompt(h.row)' # Prompt(h.row)
  <2>1. Prompt(h.row)' = {}
    BY <1>0, <1>1, <1>4, PromptAfterSettled, OneBearer
  <2>2. BearersOf(h.row)' = {}
    BY <1>2, <2>1 DEF BearersOf
  <2>3. Desk!LetGo(h.row)
    BY <1>0, <1>1, <1>2, <1>3, <1>4, <2>2 DEF Desk!LetGo, Same
  <2> QED BY <1>0, <2>3 DEF Desk!Next
<1>5. CASE ~(PhaseOf(h.row) = "lent" /\ Prompt(h.row)' # Prompt(h.row))
  <2>1. Same(h.row)
    BY <1>0, <1>2, <1>5, SameByPrompt
  <2> QED BY <1>1, <1>3, <2>1, StutterOfDesk
<1> QED BY <1>4, <1>5

\* Step by step, the outbox does what Delivery does, or nothing Delivery sees.
LEMMA StepsOfTheDesk ==
  ASSUME TypeOK, Leased, Reports, [Next]_vars
  PROVE  [Desk!Next]_(Desk!vars)
<1>0. RowsTyped /\ HandsTyped /\ RestTyped
  BY TypeParts
<1>1. CASE Queue
  BY <1>1, PostOfDesk DEF Queue, Desk!Next
<1>2. CASE Cascade
  BY <1>2, CascadeOfDesk DEF Desk!Next
<1>3. CASE Clock
  BY <1>3, ClockOfDesk DEF Desk!Next
<1>4. ASSUME NEW b \in Bots, Claim(b) PROVE Desk!Next
  BY <1>4, ClaimOfDesk DEF Desk!Next
<1>5. ASSUME NEW b \in Bots, NEW h \in hand[b], Send(b, h) PROVE UNCHANGED Desk!vars
  <2>1. rows' = rows /\ made' = made /\ reported' = reported
    BY <1>5 DEF Send
  <2>2. \A n \in Ids : Same(n)
    BY <1>0, <1>5, <2>1, PhaseKept, PromptAfterSend, SameByPrompt
  <2> QED BY <2>1, <2>2, StutterOfDesk
<1>6. ASSUME NEW b \in Bots, NEW h \in hand[b], MarkDelivered(b, h) \/ MarkFailedAck(b, h)
      PROVE  [Desk!Next]_(Desk!vars)
  BY <1>6, AckOfDesk DEF MarkDelivered, MarkFailedAck
<1>7. ASSUME rows' = rows, made' = made, hand' = hand, reported' = reported
      PROVE  UNCHANGED Desk!vars
  BY <1>7, PhaseKept, HandsKept, SameByPrompt, StutterOfDesk
<1>8. ASSUME NEW n \in Ids, MarkFailedReport(n) PROVE [Desk!Next]_(Desk!vars)
  <2>1. CASE /\ Insert("DELIVERY_FAILED")
             /\ reported' = [reported EXCEPT ![made + 1] = n]
    BY <1>8, <2>1, ReportOfDesk DEF MarkFailedReport, ReadyToReport, Desk!Next
  <2>2. CASE UNCHANGED <<rows, made, reported>>
    BY <1>7, <1>8, <2>2 DEF MarkFailedReport
  <2> QED BY <1>8, <2>1, <2>2 DEF MarkFailedReport
<1>9. ASSUME NEW n \in Ids, MarkFailedOrphaned(n) \/ ReportLost(n) PROVE UNCHANGED Desk!vars
  BY <1>7, <1>9 DEF MarkFailedOrphaned, ReportLost
<1>10. ASSUME NEW b \in Bots, NEW h \in hand[b], Forget(b, h) PROVE [Desk!Next]_(Desk!vars)
  BY <1>10, ForgetOfDesk
<1>11. CASE UNCHANGED vars
  BY <1>7, <1>11 DEF vars
<1> QED BY <1>1, <1>2, <1>3, <1>4, <1>5, <1>6, <1>8, <1>9, <1>10, <1>11 DEF Next, BotStep, ReportStep

\* An empty outbox is an empty desk.
LEMMA DeskBegins == Init => Desk!Init
<1> SUFFICES ASSUME Init PROVE Desk!Init
  OBVIOUS
<1>1. \A n \in Ids : PhaseOf(n) = "unwritten" /\ BearersOf(n) = {}
  BY DEF Init, Ids, PhaseOf, BearersOf
<1> QED BY <1>1 DEF Init, Desk!Init

\* For any bots, rows, batches and leases, claims by a stamp, acks by id and reports in a
\* second write are the delivery outbox.go's comments describe: a row is lent to one bot,
\* comes back when the lease is over, is settled for good, and only a settled one is
\* reported.
THEOREM RowsAreDeliveredOnLease == Spec => DeliversOnLease
<1> DEFINE Inv == TypeOK /\ Leased /\ Reports
<1>1. Init => Inv /\ Desk!Init
  BY TypesBegin, LeasedBegins, ReportsBegin, DeskBegins
<1>2. Inv /\ [Next]_vars => Inv'
  BY TypesHold, LeasedHolds, ReportsHold
<1>3. Inv /\ [Next]_vars => [Desk!Next]_(Desk!vars)
  BY StepsOfTheDesk
<1> QED BY <1>1, <1>2, <1>3, PTL DEF Spec, DeliversOnLease, Desk!Spec
=============================================================================
