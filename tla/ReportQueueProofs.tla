-------------------------- MODULE ReportQueueProofs --------------------------
(***************************************************************************)
(* Proofs, for any links, any number of workers and any lease and waits,   *)
(* that the queue keeps its types, that a report shown as READY holds the  *)
(* numbers of the link it shows, and that the asking ends only on numbers  *)
(* read twice.                                                             *)
(***************************************************************************)
EXTENDS ReportQueue, TLAPS

\* The values of next_attempt_at, and that no wait is as long as not being due at all.
LEMMA Times ==
  /\ Settled \in Nat /\ Lease \in 0..Settled /\ Wait \in 0..Settled /\ 0 \in 0..Settled
  /\ Settled \in 0..Settled /\ Settled # 0 /\ Lease # Settled /\ Wait # Settled
  BY ReportQueueAssumption DEF Settled

\* What a worker holds tells by its step which of its fields it has.
LEMMA FetchFields ==
  ASSUME NEW f \in Fetch
  PROVE  /\ f.step = "claimed" => f.code \in Codes /\ f.revision \in Revisions \union {NoRevision}
         /\ f.step = "answered" => f.code \in Codes /\ f.answer \in Answer
         /\ f.step \in {"idle", "claimed", "answered"}
  BY DEF Fetch, Idle

\* So does an answer by its kind.
LEMMA AnswerFields ==
  ASSUME NEW a \in Answer
  PROVE  /\ a.kind = "report" => a.revision \in Revisions /\ a.next \in {Wait, Settled}
         /\ a.kind = "failure" => a.status \in Refusals \union {"UNAVAILABLE"} /\ a.next \in {Wait, Settled}
  BY DEF Answer

-----------------------------------------------------------------------------
(* Types.                                                                  *)

RowTyped == row \in Row \union {NoRow}
BookTyped ==
  /\ numbers \in [code : Codes, revision : Revisions, match : Matchings] \union {Nothing}
  /\ edits \in 0..MaxEdits /\ losses \in 0..MaxLosses
  /\ holder \in Workers \union {Nobody}
FlagsTyped ==
  /\ spent \in [Workers -> BOOLEAN]
  /\ drained \in BOOLEAN /\ keyed \in BOOLEAN
  /\ asked \in BOOLEAN /\ crossed \in BOOLEAN
FetchTyped == fetch \in [Workers -> Fetch]

LEMMA TypeParts == TypeOK <=> RowTyped /\ BookTyped /\ FlagsTyped /\ FetchTyped
  BY DEF TypeOK, RowTyped, BookTyped, FlagsTyped, FetchTyped

\* Every write of the row leaves a row, or the none there was.
LEMMA RowWrites ==
  ASSUME RowTyped
  PROVE  /\ \A code \in Codes : Upserted(code) \in Row
         /\ row # NoRow => /\ Leased \in Row /\ [row EXCEPT !.next = 0] \in Row
         /\ \A status \in Refusals \union {"UNAVAILABLE"}, next \in {Wait, Settled} :
              MarkedFailed(status, next) => RowTyped'
         /\ Rescheduled(Wait) => RowTyped'
         /\ row # NoRow /\ row.next \in 1..(Settled - 1) => [row EXCEPT !.next = @ - 1] \in Row
<1> USE Times
<1>1. \A code \in Codes : NewRow(code) \in Row
  BY DEF NewRow, Row, Statuses
<1>2. row # NoRow => \A next \in 0..Settled : [row EXCEPT !.next = next] \in Row
  BY DEF RowTyped, Row
<1>3. \A status \in Refusals \union {"UNAVAILABLE"}, next \in 0..Settled :
        row # NoRow => [row EXCEPT !.status = status, !.next = next] \in Row
  BY DEF RowTyped, Row, Statuses
<1>4. \A code \in Codes : Upserted(code) \in Row
  BY <1>1, <1>2 DEF Upserted
<1>5. row # NoRow => Leased \in Row /\ [row EXCEPT !.next = 0] \in Row
  BY <1>2 DEF Leased
<1>6. \A status \in Refusals \union {"UNAVAILABLE"}, next \in {Wait, Settled} :
        MarkedFailed(status, next) => RowTyped'
  BY <1>3 DEF MarkedFailed, RowTyped
<1>7. Rescheduled(Wait) => RowTyped'
  BY <1>2 DEF Rescheduled, RowTyped
<1>8. row # NoRow /\ row.next \in 1..(Settled - 1) => [row EXCEPT !.next = @ - 1] \in Row
  BY DEF RowTyped, Row
<1> QED BY <1>4, <1>5, <1>6, <1>7, <1>8

\* A settling worker goes idle.
LEMMA WroteTyped ==
  ASSUME TypeOK, NEW w \in Workers, Wrote(w)
  PROVE  FetchTyped' /\ crossed' \in BOOLEAN
  BY DEF TypeOK, FetchTyped, Wrote, Fetch

\* What FetchAnswers and FetchRejected hand over is an answer.
LEMMA AnsweredTyped ==
  ASSUME TypeOK, NEW w \in Workers, fetch[w].step = "claimed"
  PROVE  /\ FetchReport(w) => FetchTyped'
         /\ FetchFailure(w) => FetchTyped'
         /\ Answered(w, [kind |-> "credential"]) => FetchTyped'
<1>1. fetch[w].code \in Codes
  BY FetchFields DEF TypeOK
<1>2. \A a \in Answer : Answered(w, a) => FetchTyped'
  BY <1>1 DEF TypeOK, Answered, FetchTyped, Fetch
<1>3. \A revision \in Revisions, next \in {Wait, Settled} :
        [kind |-> "report", revision |-> revision, next |-> next] \in Answer
  BY DEF Answer
<1>4. \A status \in Refusals \union {"UNAVAILABLE"}, next \in {Wait, Settled} :
        [kind |-> "failure", status |-> status, next |-> next] \in Answer
  BY DEF Answer
<1>5. [kind |-> "credential"] \in Answer
  BY DEF Answer
<1>6. FetchReport(w) => FetchTyped'
  BY <1>2, <1>3 DEF FetchReport
<1>7. FetchFailure(w) => FetchTyped'
  BY <1>2, <1>4 DEF FetchFailure
<1> QED BY <1>2, <1>5, <1>6, <1>7

LEMMA ObservedTyped ==
  ASSUME TypeOK, NEW w \in Workers, NEW budgets \in SUBSET BOOLEAN, Observed(w, budgets)
  PROVE  spent' \in [Workers -> BOOLEAN]
  BY DEF TypeOK, Observed

LEMMA TypesHold == TypeOK /\ [Next]_vars => TypeOK'
<1> DEFINE Typed == RowTyped /\ BookTyped /\ FlagsTyped /\ FetchTyped
<1> SUFFICES ASSUME TypeOK, [Next]_vars PROVE Typed'
  BY DEF TypeOK, RowTyped, BookTyped, FlagsTyped, FetchTyped
<1> USE TypeParts, RowWrites, ReportQueueAssumption
<1>1. ASSUME NEW code \in Codes, AttachReport(code) PROVE Typed'
  <2>1. RowTyped' /\ BookTyped' /\ FetchTyped'
    BY <1>1 DEF AttachReport, Edit, RowTyped, BookTyped, FetchTyped, history
  <2>2. FlagsTyped'
    BY <1>1, Zenon DEF AttachReport, FlagsTyped, history
  <2> QED BY <2>1, <2>2
<1>2. ASSUME DetachReport PROVE Typed'
  <2>1. RowTyped' /\ BookTyped' /\ FetchTyped'
    BY <1>2 DEF DetachReport, Edit, RowTyped, BookTyped, FetchTyped
  <2>2. FlagsTyped'
    BY <1>2, Zenon DEF DetachReport, FlagsTyped
  <2> QED BY <2>1, <2>2
<1>3. ASSUME RequestRefresh PROVE Typed'
  BY <1>3 DEF RequestRefresh, Edit, RowTyped, BookTyped, FlagsTyped, FetchTyped, history
<1>4. ASSUME ChangeCredentials PROVE Typed'
  BY <1>4 DEF ChangeCredentials, Edit, RowTyped, BookTyped, FlagsTyped, FetchTyped, history, table
<1>5. ASSUME NEW w \in Workers, Work(w) PROVE Typed'
  <2>1. CASE ClaimDue(w)
    <3>1. [step |-> "claimed", code |-> row.code, revision |-> row.revision] \in Fetch
      BY <2>1 DEF ClaimDue, RowTyped, Row, Fetch
    <3> QED BY <3>1, <2>1 DEF ClaimDue, RowTyped, BookTyped, FlagsTyped, FetchTyped
  <2>2. CASE Park(w)
    BY <2>2, WroteTyped DEF Park, BookTyped, FlagsTyped
  <2>3. CASE HoldOff(w)
    BY <2>3, WroteTyped DEF HoldOff, BookTyped, FlagsTyped
  <2>4. CASE FetchAnswers(w)
    <3>1. FetchTyped' /\ RowTyped'
      BY <2>4, AnsweredTyped DEF FetchAnswers, RowTyped, table
    <3>2. {drained} \subseteq BOOLEAN /\ {spent[w], drained} \subseteq BOOLEAN
      BY DEF FlagsTyped
    <3>3. spent' \in [Workers -> BOOLEAN]
      BY <2>4, <3>2, ObservedTyped DEF FetchAnswers
    <3> QED BY <2>4, <3>1, <3>3 DEF FetchAnswers, BookTyped, FlagsTyped, table, history
  <2>5. CASE FetchRejected(w)
    <3>1. FetchTyped' /\ RowTyped'
      BY <2>5, AnsweredTyped DEF FetchRejected, RowTyped, table
    <3>2. {spent[w], drained} \subseteq BOOLEAN
      BY DEF FlagsTyped
    <3>3. spent' \in [Workers -> BOOLEAN]
      BY <2>5, <3>2, ObservedTyped DEF FetchRejected
    <3> QED BY <2>5, <3>1, <3>3 DEF FetchRejected, BookTyped, FlagsTyped, table, history
  <2>6. CASE Settle(w)
    <3>1. fetch[w].code \in Codes /\ fetch[w].answer \in Answer
      BY <2>6, FetchFields DEF Settle, FetchTyped
    <3>2. CASE StoreReport(w, fetch[w].answer)
      <4>1. fetch[w].answer.revision \in Revisions /\ fetch[w].answer.next \in 0..Settled
        BY Times, <3>1, <3>2, AnswerFields DEF StoreReport
      <4>2. RowTyped'
        BY <3>1, <3>2, <4>1 DEF StoreReport, RowTyped, Row, Statuses, table
      <4>3. numbers' \in [code : Codes, revision : Revisions, match : Matchings] \union {Nothing}
        BY <3>1, <3>2, <4>1 DEF StoreReport, BookTyped, table
      <4> QED BY <2>6, <4>2, <4>3, WroteTyped DEF Settle, BookTyped, FlagsTyped
    <3>3. CASE StoreFailure(w, fetch[w].answer)
      <4>1. RowTyped'
        BY <3>1, <3>3, AnswerFields DEF StoreFailure
      <4> QED BY <2>6, <3>3, <4>1, WroteTyped DEF Settle, BookTyped, FlagsTyped, StoreFailure
    <3> QED BY <2>6, <3>2, <3>3 DEF Settle
  <2>7. CASE Reschedule(w)
    BY <2>7, WroteTyped DEF Reschedule, BookTyped, FlagsTyped
  <2> QED BY <1>5, <2>1, <2>2, <2>3, <2>4, <2>5, <2>6, <2>7 DEF Work
<1>6. ASSUME NEW w \in Workers, WorkerLoses(w) PROVE Typed'
  <2>1. FetchTyped'
    BY <1>6 DEF WorkerLoses, FetchTyped, Fetch
  <2>2. {spent[w], FALSE} \subseteq BOOLEAN
    BY DEF FlagsTyped
  <2>3. spent' \in [Workers -> BOOLEAN]
    BY <1>6, <2>2, ObservedTyped DEF WorkerLoses
  <2> QED BY <1>6, <2>1, <2>3 DEF WorkerLoses, RowTyped, BookTyped, FlagsTyped, table, history
<1>7. ASSUME Clock PROVE Typed'
  BY <1>7 DEF Clock, RowTyped, BookTyped, FlagsTyped, FetchTyped, history
<1>8. ASSUME Drain PROVE Typed'
  BY <1>8 DEF Drain, RowTyped, BookTyped, FlagsTyped, FetchTyped, table, history
<1>9. ASSUME HourTurns PROVE Typed'
  BY <1>9 DEF HourTurns, RowTyped, BookTyped, FlagsTyped, FetchTyped, table, history
<1>10. CASE UNCHANGED vars
  BY <1>10 DEF vars, RowTyped, BookTyped, FlagsTyped, FetchTyped
<1> QED BY <1>1, <1>2, <1>3, <1>4, <1>5, <1>6, <1>7, <1>8, <1>9, <1>10 DEF Next

LEMMA TypesBegin == Init => TypeOK
<1> SUFFICES ASSUME Init PROVE RowTyped /\ BookTyped /\ FlagsTyped /\ FetchTyped
  BY TypeParts
<1>1. RowTyped /\ BookTyped /\ FetchTyped
  BY ReportQueueAssumption DEF Init, RowTyped, BookTyped, FetchTyped, Fetch
<1>2. FlagsTyped
  BY Zenon DEF Init, FlagsTyped
<1> QED BY <1>1, <1>2

\* The row, the numbers and what every worker holds keep the types of their columns.
THEOREM QueueTyped == Spec => []TypeOK
  BY TypesBegin, TypesHold, PTL DEF Spec
-----------------------------------------------------------------------------
(* What the numbers are of.                                                *)

\* A row with a revision was read, and its numbers are those of its link.  It holds of
\* rows that failed since, too: a failure leaves both.
NumbersFollow ==
  row # NoRow /\ row.revision # NoRevision
    => ReadFrom(row.code, row.revision)

\* A READY row has been read.
ReadyIsRead == row # NoRow /\ row.status = "READY" => row.revision # NoRevision

\* Who claimed the row last knows its link and its revision, and an answer that would
\* settle the row is of that revision.
Knows(w) ==
  row # NoRow /\ holder = w =>
    /\ fetch[w].step = "claimed" => fetch[w].code = row.code /\ fetch[w].revision = row.revision
    /\ fetch[w].step = "answered" => fetch[w].code = row.code
    /\ fetch[w].step = "answered" /\ fetch[w].answer.kind = "report"
         /\ fetch[w].answer.next = Settled => fetch[w].answer.revision = row.revision

Followed == NumbersFollow /\ ReadyIsRead /\ \A w \in Workers : Knows(w)
QueueInv == TypeOK /\ (~crossed => Followed)

LEMMA Crossing == ASSUME [Next]_vars PROVE crossed => crossed'
  BY DEF Next, vars, AttachReport, DetachReport, RequestRefresh, ChangeCredentials, Work,
         WorkerLoses, Clock, Drain, HourTurns, ClaimDue, Park, HoldOff, FetchAnswers,
         FetchRejected, Settle, Reschedule, Wrote, history

\* Of a row, its fields, as far as they matter here.
Kept == row # NoRow /\ row' # NoRow /\ row'.code = row.code /\ row'.revision = row.revision

\* Putting a row off keeps what it says.
LEMMA PuttingOff ==
  ASSUME TypeOK, row # NoRow, NEW next
  PROVE  /\ row' = [row EXCEPT !.next = next] => Kept /\ row'.status = row.status /\ row'.next = next
         /\ \A status : row' = [row EXCEPT !.status = status, !.next = next] =>
              Kept /\ row'.status = status /\ row'.next = next
<1>1. row \in Row
  BY DEF TypeOK
<1>2. /\ "row" \notin DOMAIN [row EXCEPT !.next = next]
      /\ \A status : "row" \notin DOMAIN [row EXCEPT !.status = status, !.next = next]
      /\ "row" \in DOMAIN NoRow
  BY <1>1 DEF Row, NoRow
<1> QED BY <1>1, <1>2 DEF Kept, Row

\* Writes that keep the row's revision, and make it READY only if it was, keep the
\* first two parts.
LEMMA KeptFollows ==
  ASSUME Followed, Kept, numbers' = numbers, row'.status = "READY" => row.status = "READY"
  PROVE  NumbersFollow' /\ ReadyIsRead'
  BY DEF Followed, Kept, NumbersFollow, ReadFrom, ReadyIsRead

\* And every worker that does not act knows what it knew.
LEMMA KeptKnows ==
  ASSUME Followed, Kept, holder' = holder, NEW w \in Workers, fetch'[w] = fetch[w]
  PROVE  Knows(w)'
  BY DEF Followed, Kept, Knows

\* Without a row, before or after, there is nothing to say.
LEMMA NoRowFollows == ASSUME row' = NoRow PROVE Followed'
  BY DEF Followed, NumbersFollow, ReadFrom, ReadyIsRead, Knows

\* A worker that goes idle says nothing.
LEMMA IdleKnows == ASSUME NEW w \in Workers, fetch'[w] = Idle PROVE Knows(w)'
<1>1. fetch'[w].step = "idle"
  BY DEF Idle
<1> QED BY <1>1 DEF Knows

\* A holder who writes without reading the report leaves all as it was.
LEMMA WritesFollow ==
  ASSUME TypeOK, Followed, NEW w \in Workers, Wrote(w), numbers' = numbers, holder' = holder,
         \/ row = NoRow /\ row' = NoRow
         \/ Kept /\ (row'.status = "READY" => row.status = "READY")
  PROVE  Followed'
<1>1. CASE row' = NoRow
  BY <1>1, NoRowFollows
<1>2. CASE Kept /\ (row'.status = "READY" => row.status = "READY")
  <2>1. NumbersFollow' /\ ReadyIsRead'
    BY <1>2, KeptFollows
  <2>2. \A v \in Workers : Knows(v)'
    <3> TAKE v \in Workers
    <3>1. fetch'[v] = fetch[v] \/ fetch'[v] = Idle
      BY DEF Wrote, TypeOK
    <3> QED BY <3>1, <1>2, KeptKnows, IdleKnows
  <2> QED BY <2>1, <2>2 DEF Followed
<1> QED BY <1>1, <1>2

\* Steps that leave the row, the numbers and the holder, and all but one fetch.
LEMMA OthersFollow ==
  ASSUME TypeOK, Followed, NEW w \in Workers, row' = row, numbers' = numbers, holder' = holder,
         \A v \in Workers \ {w} : fetch'[v] = fetch[v], Knows(w)'
  PROVE  Followed'
  BY DEF Followed, NumbersFollow, ReadFrom, ReadyIsRead, Knows

LEMMA FollowedHolds == QueueInv /\ [Next]_vars => QueueInv'
<1> SUFFICES ASSUME QueueInv, [Next]_vars, ~crossed' PROVE Followed'
  BY TypesHold DEF QueueInv
<1> USE ReportQueueAssumption
<1>0. TypeOK /\ Followed /\ TypeOK'
  BY Crossing, TypesHold DEF QueueInv
<1>1. ASSUME NEW code \in Codes, AttachReport(code) PROVE Followed'
  <2>1. CASE row # NoRow /\ row.code = code
    <3>1. Kept /\ row'.status = row.status
      BY <1>0, <1>1, <2>1, PuttingOff DEF AttachReport, Upserted
    <3>2. holder' = holder /\ numbers' = numbers /\ fetch' = fetch
      BY <1>1, <2>1 DEF AttachReport, history
    <3> QED BY <1>0, <3>1, <3>2, KeptFollows, KeptKnows DEF Followed
  <2>2. CASE ~(row # NoRow /\ row.code = code)
    <3>1. row' = NewRow(code) /\ holder' = Nobody
      BY <1>1, <2>2 DEF AttachReport, Upserted
    <3>2. row'.revision = NoRevision /\ row'.status = "PENDING"
      BY <3>1 DEF NewRow
    <3> QED BY <3>1, <3>2 DEF Followed, NumbersFollow, ReadFrom, ReadyIsRead, Knows, Nobody
  <2> QED BY <2>1, <2>2
<1>2. ASSUME DetachReport PROVE Followed'
  BY <1>2, NoRowFollows DEF DetachReport
<1>3. ASSUME RequestRefresh PROVE Followed'
  <2>1. Kept /\ row'.status = row.status
    BY <1>0, <1>3, PuttingOff DEF RequestRefresh
  <2> QED BY <1>0, <1>3, <2>1, KeptFollows, KeptKnows DEF Followed, RequestRefresh, history
<1>4. ASSUME ChangeCredentials PROVE Followed'
  BY <1>0, <1>4 DEF ChangeCredentials, table, history, Followed, NumbersFollow, ReadFrom, ReadyIsRead, Knows
<1>5. ASSUME NEW w \in Workers, ClaimDue(w) PROVE Followed'
  <2>1. Kept /\ row'.status = row.status
    BY <1>0, <1>5, PuttingOff DEF ClaimDue, Leased
  <2>2. NumbersFollow' /\ ReadyIsRead'
    BY <1>0, <1>5, <2>1, KeptFollows DEF ClaimDue
  <2>3. fetch'[w] = [step |-> "claimed", code |-> row.code, revision |-> row.revision]
    BY <1>0, <1>5 DEF ClaimDue, TypeOK
  <2>4. Knows(w)'
    BY <2>1, <2>3 DEF Knows, Kept
  <2>5. \A v \in Workers \ {w} : Knows(v)'
    BY <1>5 DEF Knows, ClaimDue
  <2> QED BY <2>2, <2>4, <2>5 DEF Followed
<1>6. ASSUME NEW w \in Workers, Park(w) \/ HoldOff(w) \/ Reschedule(w) PROVE Followed'
  <2>1. \/ row = NoRow /\ row' = NoRow
        \/ Kept /\ (row'.status = "READY" => row.status = "READY")
    BY <1>0, <1>6, PuttingOff DEF Park, HoldOff, Reschedule, MarkedFailed, Rescheduled
  <2>2. Wrote(w) /\ numbers' = numbers /\ holder' = holder
    BY <1>6 DEF Park, HoldOff, Reschedule
  <2> QED BY <1>0, <2>1, <2>2, WritesFollow
<1>7. ASSUME NEW w \in Workers, FetchAnswers(w) \/ FetchRejected(w) PROVE Followed'
  <2>1. row' = row /\ numbers' = numbers /\ holder' = holder /\ fetch[w].step = "claimed"
    BY <1>7 DEF FetchAnswers, FetchRejected, table, history
  <2>2. PICK a : /\ Answered(w, a)
                 /\ a.kind = "report" => (a.next = Settled => a.revision = fetch[w].revision)
    <3>1. CASE FetchAnswers(w) /\ FetchReport(w)
      <4>1. PICK revision \in Revisions, live \in BOOLEAN :
              Answered(w, [kind |-> "report", revision |-> revision,
                           next |-> IF Moved(fetch[w].revision, revision) \/ live THEN Wait ELSE Settled])
        BY <3>1 DEF FetchReport
      <4> DEFINE b == [kind |-> "report", revision |-> revision,
                       next |-> IF Moved(fetch[w].revision, revision) \/ live THEN Wait ELSE Settled]
      <4>2. b.next = Settled => b.revision = fetch[w].revision
        BY Times DEF Moved
      <4> QED BY <4>1, <4>2
    <3>2. CASE FetchAnswers(w) /\ FetchFailure(w)
      <4>1. PICK status, next : Answered(w, [kind |-> "failure", status |-> status, next |-> next])
        BY <3>2 DEF FetchFailure
      <4>2. [kind |-> "failure", status |-> status, next |-> next].kind # "report"
        OBVIOUS
      <4> QED BY <4>1, <4>2
    <3>3. CASE FetchRejected(w)
      BY <3>3 DEF FetchRejected
    <3> QED BY <1>7, <3>1, <3>2, <3>3 DEF FetchAnswers
  <2>3. fetch'[w] = [step |-> "answered", code |-> fetch[w].code, answer |-> a]
    BY <1>0, <2>2 DEF Answered, TypeOK
  <2>4. \A v \in Workers \ {w} : fetch'[v] = fetch[v]
    BY <1>0, <2>2 DEF Answered, TypeOK
  <2>5. Knows(w)'
    BY <1>0, <2>1, <2>2, <2>3 DEF Followed, Knows
  <2> QED BY <1>0, <2>1, <2>4, <2>5, OthersFollow
<1>8. ASSUME NEW w \in Workers, Settle(w) PROVE Followed'
  <2>1. Wrote(w) /\ holder' = holder /\ (row = NoRow \/ holder = w) /\ fetch[w].step = "answered"
    BY <1>0, <1>8 DEF Settle, Wrote
  <2>2. fetch[w].answer \in Answer
    BY <1>0, <2>1, FetchFields DEF TypeOK
  <2>3. CASE StoreFailure(w, fetch[w].answer)
    <3>1. fetch[w].answer.status # "READY"
      BY <2>2, <2>3, AnswerFields DEF StoreFailure
    <3>2. numbers' = numbers
      BY <2>3 DEF StoreFailure
    <3>3. \/ row = NoRow /\ row' = NoRow
          \/ Kept /\ (row'.status = "READY" => row.status = "READY")
      BY <1>0, <2>3, <3>1, PuttingOff DEF StoreFailure, MarkedFailed
    <3> QED BY <1>0, <2>1, <3>2, <3>3, WritesFollow
  <2>4. CASE row = NoRow /\ StoreReport(w, fetch[w].answer)
    BY <2>4, NoRowFollows DEF StoreReport, table
  <2>5. CASE row # NoRow /\ StoreReport(w, fetch[w].answer)
    <3> DEFINE a == fetch[w].answer
    <3>1. a.kind = "report" /\ a.revision \in Revisions
      BY <2>2, <2>5, AnswerFields DEF StoreReport
    <3>2. row' = [row EXCEPT !.status = "READY", !.revision = a.revision, !.next = a.next]
      BY <2>5 DEF StoreReport
    <3>3. row'.code = row.code /\ row'.revision = a.revision
      BY <1>0, <2>5, <3>2 DEF TypeOK, Row
    <3>4. \E match \in Matchings :
            numbers' = [code |-> fetch[w].code, revision |-> a.revision, match |-> match]
      BY <2>5 DEF StoreReport
    <3>5. fetch[w].code = row.code
      BY <1>0, <2>1, <2>5 DEF Followed, Knows
    <3>6. NumbersFollow' /\ ReadyIsRead'
      BY <3>1, <3>3, <3>4, <3>5 DEF NumbersFollow, ReadFrom, ReadyIsRead, NoRevision
    <3>7. fetch'[w] = Idle
      BY <1>0, <2>1 DEF Wrote, TypeOK
    <3>8. \A v \in Workers \ {w} : Knows(v)'
      BY <2>1, <2>5 DEF Knows
    <3> QED BY <3>6, <3>7, <3>8, IdleKnows DEF Followed
  <2> QED BY <1>8, <2>3, <2>4, <2>5 DEF Settle
<1>9. ASSUME NEW w \in Workers, WorkerLoses(w) PROVE Followed'
  <2>1. fetch'[w] = Idle /\ \A v \in Workers \ {w} : fetch'[v] = fetch[v]
    BY <1>0, <1>9 DEF WorkerLoses, TypeOK
  <2> QED BY <1>0, <1>9, <2>1, IdleKnows, OthersFollow DEF WorkerLoses, table, history
<1>10. ASSUME Clock PROVE Followed'
  <2>1. Kept /\ row'.status = row.status
    BY <1>0, <1>10, PuttingOff DEF Clock
  <2> QED BY <1>0, <1>10, <2>1, KeptFollows, KeptKnows DEF Followed, Clock, history
<1>11. ASSUME Drain \/ HourTurns \/ UNCHANGED vars PROVE Followed'
  BY <1>0, <1>11 DEF Drain, HourTurns, vars, table, history, Followed, NumbersFollow, ReadFrom,
     ReadyIsRead, Knows
<1> QED BY <1>1, <1>2, <1>3, <1>4, <1>5, <1>6, <1>7, <1>8, <1>9, <1>10, <1>11 DEF Next, Work

LEMMA FollowedBegins == Init => QueueInv
<1> SUFFICES ASSUME Init PROVE Followed
  BY TypesBegin DEF QueueInv
<1> QED BY DEF Init, Followed, NumbersFollow, ReadFrom, ReadyIsRead, Knows

LEMMA AlwaysFollowed == Spec => []QueueInv
  BY FollowedBegins, FollowedHolds, PTL DEF Spec

\* A report shown as READY is the one linked, and its numbers were read from that link
\* at the revision the row names: a failed look, a refresh or a new link in between
\* never leaves one's status beside another's numbers.
THEOREM ReadyReportsAreTheLinks == Spec => []ReadyIsOfTheLink
<1>1. QueueInv => ReadyIsOfTheLink
  BY DEF QueueInv, Followed, NumbersFollow, ReadFrom, ReadyIsRead, ReadyIsOfTheLink
<1> QED BY <1>1, AlwaysFollowed, PTL

\* A step that ends the asking for a READY report stores the link and the revision that
\* were stored: only a second look that found the first one's revision does that.
LEMMA SettlingIsStill ==
  ASSUME QueueInv, [Next]_vars,
         row # NoRow, row.next # Settled, row' # NoRow, row'.next = Settled,
         row'.status = "READY", ~crossed'
  PROVE  \E code \in Codes, revision \in Revisions :
           ReadFrom(code, revision) /\ ReadFrom(code, revision)'
<1>0. TypeOK /\ Followed /\ row \in Row
  BY Crossing DEF QueueInv, TypeOK
<1>1. CASE numbers' = numbers
  <2>1. TypeOK' /\ Followed'
    BY FollowedHolds DEF QueueInv
  <2>2. PICK code \in Codes, revision \in Revisions : row'.code = code /\ row'.revision = revision
    <3>1. row' \in Row
      BY <2>1 DEF TypeOK
    <3>2. row'.code \in Codes /\ row'.revision \in Revisions \union {NoRevision}
      BY <3>1 DEF Row
    <3>3. row'.revision # NoRevision
      BY <2>1 DEF Followed, ReadyIsRead
    <3> QED BY <3>2, <3>3
  <2>3. numbers' \in [code : {code}, revision : {revision}, match : Matchings]
    BY <2>1, <2>2 DEF Followed, NumbersFollow, ReadyIsRead, ReadFrom
  <2> QED BY <1>1, <2>3 DEF ReadFrom
<1>2. CASE \E w \in Workers : Settle(w) /\ StoreReport(w, fetch[w].answer)
  <2> PICK w \in Workers : Settle(w) /\ StoreReport(w, fetch[w].answer)
    BY <1>2
  <2>1. holder = w /\ fetch[w].step = "answered"
    BY DEF Settle, Wrote
  <2> DEFINE a == fetch[w].answer
  <2>2. row' = [row EXCEPT !.status = "READY", !.revision = a.revision, !.next = a.next]
    BY DEF StoreReport
  <2>3. a.kind = "report" /\ a.next = Settled
    BY <1>0, <2>2 DEF StoreReport, Row
  <2>4. a \in Answer
    BY <1>0, <2>1, FetchFields DEF TypeOK
  <2>5. a.revision = row.revision /\ fetch[w].code = row.code /\ row.revision # NoRevision
    BY <1>0, <2>1, <2>3, <2>4, AnswerFields, ReportQueueAssumption
    DEF Followed, Knows, NoRevision
  <2>6. \E match \in Matchings :
          numbers' = [code |-> row.code, revision |-> row.revision, match |-> match]
    BY <2>5 DEF StoreReport
  <2>7. row.code \in Codes /\ row.revision \in Revisions
    BY <1>0, <2>5 DEF Row
  <2> QED BY <1>0, <2>5, <2>6, <2>7 DEF Followed, NumbersFollow, ReadFrom
<1>3. CASE ~\E w \in Workers : Settle(w) /\ StoreReport(w, fetch[w].answer)
  <2>1. numbers' = numbers
    BY <1>3 DEF Next, vars, AttachReport, DetachReport, RequestRefresh, ChangeCredentials, Work,
       WorkerLoses, Clock, Drain, HourTurns, ClaimDue, Park, HoldOff, FetchAnswers, FetchRejected,
       Settle, StoreFailure, Reschedule, table
  <2> QED BY <1>1, <2>1
<1> QED BY <1>2, <1>3

\* The worker stops reading a report only where a second look found the log at the revision
\* stored from that very link already, whatever links, refreshes, failures and deaths came
\* between.  The rows matched to the roster may differ: that look wrote them anew.
THEOREM OnlyTheStillSettle == Spec => SettlesWhenStill
<1>1. QueueInv /\ [Next]_vars =>
        [( /\ row # NoRow /\ row.next # Settled
           /\ row' # NoRow /\ row'.next = Settled /\ row'.status = "READY"
           /\ ~crossed' )
         => \E code \in Codes, revision \in Revisions :
              ReadFrom(code, revision) /\ ReadFrom(code, revision)']_vars
  BY SettlingIsStill
<1> QED BY <1>1, AlwaysFollowed, PTL DEF Spec, SettlesWhenStill
=============================================================================
