--------------------------- MODULE RaidNightProofs ---------------------------
(***************************************************************************)
(* Proofs, for any characters, comps, roles, schedules and any number of   *)
(* concurrent requests, that the sheet keeps its types, that every answer  *)
(* on it is its raider's or a NO_SHOW, that nothing but a start put off    *)
(* between a request's readings brings the late queue a status an approval *)
(* must not write, that a raider who leaves the pool leaves every board,   *)
(* with notice, and that nothing but a conversion changes who owns a       *)
(* board; and that requests served one at a time keep the queue's promise  *)
(* and a raid lead's board.                                                *)
(***************************************************************************)
EXTENDS RaidNight, TLAPS

\* The part of TypeOK each kind of step leaves alone or restores.
EventOK == now \in 0..Horizon /\ alive \in BOOLEAN
             /\ event \in Event
RowsOK == /\ answer \in [Characters -> AllStatuses \union {NONE}]
          /\ assigned \in [Characters -> Roles \union {NONE}]
          /\ request \in [Characters -> Request]
          /\ mode \in [Comps -> {"AUTO", "MANUAL", NONE}]
          /\ seats \subseteq Seat

\* A signup write restores the types of the rows it changes.
LEMMA UpsertTyped ==
  ASSUME RowsOK, NEW c \in Characters, NEW s \in AllStatuses, UpsertSignup(c, s)
  PROVE  /\ answer' \in [Characters -> AllStatuses \union {NONE}]
         /\ assigned' \in [Characters -> Roles \union {NONE}]
         /\ seats' \subseteq Seat
  BY DEF RowsOK, UpsertSignup, RoleAfterUpsert, SeatsAfter

\* So does a withdrawal.
LEMMA DeleteTyped ==
  ASSUME RowsOK, NEW c \in Characters, DeleteSignup(c)
  PROVE  /\ answer' \in [Characters -> AllStatuses \union {NONE}]
         /\ assigned' \in [Characters -> Roles \union {NONE}]
         /\ seats' \subseteq Seat
  BY DEF RowsOK, DeleteSignup, SeatsAfter

\* The redraws queued are well-formed rows.
LEMMA RedrawTyped ==
  ASSUME NEW kind \in {"SIGNUP_CHANGED", "COMP_CHANGED", "EVENT_CHANGED"}, NEW posting \in Posting
  PROVE  Redraw(kind, posting) \subseteq Note
  BY DEF Redraw, Note

\* So are the notices of a signup write.
LEMMA SignupNotesTyped ==
  ASSUME RowsOK, NEW seen \in Posting, NEW c \in Characters,
         NEW s \in AllStatuses \union {NONE}
  PROVE  SignupNotes(seen, c, s) \subseteq Note
<1>1. DroppedFrom(c, s) \in SUBSET Comps
  BY DEF RowsOK, DroppedFrom, SeatsOf, Seat
<1>2. CompSlotsDropped(seen, c, s, DroppedFrom(c, s)) \subseteq Note
  BY <1>1 DEF CompSlotsDropped, Note
<1>3. Redraw("SIGNUP_CHANGED", seen) \subseteq Note
  BY RedrawTyped
<1> QED BY <1>2, <1>3 DEF SignupNotes

\* The slots of a board are rows of comp_slots.
LEMMA SlotsTyped ==
  ASSUME NEW k \in Comps, NEW pool \in SUBSET Characters, NEW board \in Boards(pool),
         NEW m \in {"AUTO", "MANUAL"}
  PROVE  Slots(k, board, m) \subseteq Seat
<1> SUFFICES ASSUME NEW c \in pool, board[c] # NONE
             PROVE  [comp |-> k, char |-> c, role |-> board[c][1], bench |-> board[c][2],
                     reason |-> m] \in Seat
  BY DEF Slots, Boards
<1>1. board[c] \in Roles \X BOOLEAN
  BY DEF Boards, Placement
<1> QED BY <1>1 DEF Seat

\* Replacing a board restores the types of the rows it changes.
LEMMA ReplaceTyped ==
  ASSUME SheetTypeOK, NEW k \in Comps, NEW pool \in SUBSET Characters,
         NEW board \in Boards(pool), NEW m \in {"AUTO", "MANUAL"}, ReplaceComp(k, m, board)
  PROVE  SheetTypeOK'
<1> DEFINE slots == Slots(k, board, m)
<1>1. slots \subseteq Seat
  BY SlotsTyped
<1>2. ASSUME NEW c \in Characters, \E x \in slots : x.char = c /\ ~x.bench
      PROVE  (CHOOSE x \in slots : x.char = c).role \in Roles
  <2> DEFINE x == CHOOSE x \in slots : x.char = c
  <2>1. x \in slots
    BY <1>2
  <2> QED BY <2>1, <1>1 DEF Seat
<1>3. RolesAfter(slots) \in [Characters -> Roles \union {NONE}]
  BY <1>2 DEF RolesAfter
<1>4. assigned' = RolesAfter(slots) /\ seats' = (seats \ BoardOf(k)) \union slots
  BY DEF ReplaceComp
<1>5. queued' \subseteq Note
  BY RedrawTyped DEF ReplaceComp, SheetTypeOK, Event
<1>6. mode' \in [Comps -> {"AUTO", "MANUAL", NONE}]
  BY DEF ReplaceComp, ModeAfterUpsert, SheetTypeOK
<1>7. seats' \subseteq Seat
  BY <1>1, <1>4 DEF SheetTypeOK
<1>8. assigned' \in [Characters -> Roles \union {NONE}]
  BY <1>3, <1>4
<1> QED BY <1>5, <1>6, <1>7, <1>8 DEF ReplaceComp, SheetTypeOK

-----------------------------------------------------------------------------
(* Type correctness, one lemma per part of Next.                           *)

\* Edits of the event.
LEMMA EventTyped ==
  ASSUME SheetTypeOK, EventNext PROVE SheetTypeOK'
<1>1. CASE Tick
  BY <1>1, ScheduleAssumption DEF Tick, SheetTypeOK, Note
<1>2. ASSUME NEW s \in Schedules, Reschedule(s) PROVE SheetTypeOK'
  <2>1. queued' \subseteq Note
    BY <1>2, RedrawTyped DEF Reschedule, SheetTypeOK, Event
  <2>2. event' \in Event
    BY <1>2, ScheduleAssumption DEF Reschedule, SheetTypeOK, Event
  <2> QED BY <1>2, <2>1, <2>2 DEF Reschedule, SheetTypeOK
<1>3. ASSUME NEW p \in Posting, BotRecordsPost(p) PROVE SheetTypeOK'
  <2>1. Learned(p) \in Posting
    BY Zenon DEF Learned, Posting
  <2>2. event' \in Event
    BY <1>3, <2>1 DEF BotRecordsPost, SheetTypeOK, Event
  <2> QED BY <1>3, <2>2 DEF BotRecordsPost, SheetTypeOK, Note
<1>4. CASE DeleteEvent
  BY <1>4 DEF DeleteEvent, SheetTypeOK, Note, Request
<1> QED BY <1>1, <1>2, <1>3, <1>4 DEF EventNext

\* The comp handlers.  They touch no signup's status, request, call or history.
LEMMA CompTyped ==
  ASSUME SheetTypeOK, CompTypeOK, CompNext PROVE SheetTypeOK' /\ CompTypeOK'
<1> USE DEF CompTypeOK, Build, Resting, Turn
<1>1. ASSUME NEW b \in Builders, NEW state \in Build, Reads(b, state)
      PROVE  SheetTypeOK' /\ CompTypeOK'
  BY <1>1 DEF Reads, SheetTypeOK, Note
<1>2. ASSUME NEW b \in Builders, NEW k \in Comps, LockReadsMode(b, k) \/ SaveBegin(b, k)
      PROVE  SheetTypeOK' /\ CompTypeOK'
  BY <1>1, <1>2 DEF LockReadsMode, SaveBegin
<1>3. ASSUME NEW b \in Builders, LockReadsPool(b) PROVE SheetTypeOK' /\ CompTypeOK'
  <2>1. AssignmentPool \subseteq Characters
    BY DEF AssignmentPool
  <2>2. build[b].comp \in Comps
    BY <1>3 DEF LockReadsPool
  <2>3. [at |-> "lock", comp |-> build[b].comp, pool |-> AssignmentPool, into |-> NoComp] \in Build
    BY <2>1, <2>2
  <2> QED BY <1>1, <1>3, <2>3 DEF LockReadsPool
<1>4. ASSUME NEW b \in Builders, LockCommit(b) PROVE SheetTypeOK' /\ CompTypeOK'
  <2>1. PICK board \in Boards(build[b].pool) : ReplaceComp(build[b].comp, "AUTO", board)
    BY <1>4 DEF LockCommit
  <2>2. build[b].pool \in SUBSET Characters
    OBVIOUS
  <2>3. build[b].comp \in Comps
    BY <1>4 DEF LockCommit
  <2>4. SheetTypeOK'
    BY <2>1, <2>2, <2>3, ReplaceTyped
  <2> QED BY <1>4, <2>4 DEF LockCommit
<1>5. ASSUME NEW b \in Builders, SaveCommit(b) PROVE SheetTypeOK' /\ CompTypeOK'
  <2>1. PICK board \in Boards(Characters) : ReplaceComp(build[b].comp, "MANUAL", board)
    BY <1>5 DEF SaveCommit
  <2>2. build[b].comp \in Comps
    BY <1>5 DEF SaveCommit
  <2>3. SheetTypeOK'
    BY <2>1, <2>2, ReplaceTyped
  <2> QED BY <1>5, <2>3 DEF SaveCommit
<1>6. ASSUME NEW b \in Builders, NEW k \in Comps, NEW m \in {"AUTO", "MANUAL"}, SetMode(b, k, m)
      PROVE  SheetTypeOK' /\ CompTypeOK'
  <2>1. queued' \subseteq Note
    BY <1>6, RedrawTyped DEF SetMode, SheetTypeOK, Event
  <2> QED BY <1>6, <2>1 DEF SetMode, SheetTypeOK
<1>7. ASSUME NEW b \in Builders, NEW k \in Comps, NEW into \in Comps, RenameBegin(b, k, into)
      PROVE  SheetTypeOK' /\ CompTypeOK'
  BY <1>1, <1>7 DEF RenameBegin
<1>8. ASSUME NEW b \in Builders, RenameCommit(b) PROVE SheetTypeOK' /\ CompTypeOK'
  <2>1. build[b].comp \in Comps /\ build[b].into \in Comps
    BY <1>8 DEF RenameCommit
  <2>2. queued' \subseteq Note
    BY <1>8, RedrawTyped DEF RenameCommit, SheetTypeOK, Event
  <2>3. seats' \subseteq Seat
    BY <1>8, <2>1 DEF RenameCommit, SheetTypeOK, Seat
  <2>4. mode' \in [Comps -> {"AUTO", "MANUAL", NONE}]
    BY <1>8, <2>1 DEF RenameCommit, SheetTypeOK
  <2> QED BY <1>8, <2>2, <2>3, <2>4 DEF RenameCommit, SheetTypeOK
<1>9. ASSUME NEW b \in Builders, BuildAborts(b) PROVE SheetTypeOK' /\ CompTypeOK'
  BY <1>1, <1>9 DEF BuildAborts
<1> QED
  BY <1>2, <1>3, <1>4, <1>5, <1>6, <1>7, <1>8, <1>9 DEF CompNext

\* What a request holds of the event, with or without its times, is a row.
LEMMA ReadTyped ==
  ASSUME NEW row \in Event PROVE WithoutTimes(row) \in Event
  BY DEF WithoutTimes, NotRead, Event, Posting

\* The signup and late-request handlers.
LEMMA SignupTyped ==
  ASSUME SheetTypeOK, SignupTypeOK, Provenance, SignupNext PROVE SheetTypeOK' /\ SignupTypeOK'
<1> USE DEF SignupTypeOK, Call
<1> DEFINE Stages == {"deadline", "write", "file", "filing", "approve", "withdraw", "reject"}
<1>0. RowsOK /\ event \in Event /\ Idle \in Call
  BY DEF SheetTypeOK, RowsOK
<1>1. ASSUME NEW p \in Callers, NEW c \in Characters, NEW stage \in Stages,
             NEW status \in AllStatuses \union {NONE}, NEW own \in BOOLEAN,
             Start(p, stage, c, status, own)
      PROVE  SheetTypeOK' /\ SignupTypeOK'
  <2> DEFINE read == IF stage = "deadline" THEN event ELSE WithoutTimes(event)
             r == [at |-> stage, char |-> c, status |-> status, own |-> own, putOff |-> FALSE,
                   read |-> read]
  <2>1. read \in Event
    BY <1>0, ReadTyped
  <2>2. call' = [call EXCEPT ![p] = r]
    BY <1>1 DEF Start
  <2> HIDE DEF read
  <2>3. r \in Call
    BY <2>1
  <2> QED BY <1>1, <2>2, <2>3 DEF Start, SheetTypeOK, Note
<1>2. ASSUME NEW p \in Callers, NEW c \in Characters, NEW status \in Offered,
             NEW owned \in BOOLEAN, NEW isRaidLead \in BOOLEAN,
             PutBegin(p, c, status, owned, isRaidLead)
      PROVE  SheetTypeOK' /\ SignupTypeOK'
  BY <1>1, <1>2, CallerAssumption DEF PutBegin, AfterGate
<1>3. ASSUME NEW p \in Callers, NEW c \in Characters, NEW isRaidLead \in BOOLEAN,
             WithdrawBegin(p, c, isRaidLead)
      PROVE  SheetTypeOK' /\ SignupTypeOK'
  BY <1>1, <1>3 DEF WithdrawBegin, AfterGate
<1>4. ASSUME NEW p \in Callers, NEW c \in Characters, ApproveBegin(p, c)
      PROVE  SheetTypeOK' /\ SignupTypeOK'
  <2>1. request[c].status \in AllStatuses
    BY <1>4 DEF ApproveBegin, Undecided, SheetTypeOK, Request, NoRequest, NONE
  <2> QED BY <1>1, <1>4, <2>1 DEF ApproveBegin
<1>5. ASSUME NEW p \in Callers, NEW c \in Characters, RejectBegin(p, c)
      PROVE  SheetTypeOK' /\ SignupTypeOK'
  BY <1>1, <1>5 DEF RejectBegin
<1>15. ASSUME NEW p \in Callers, NEW next \in Call, Advance(p, next)
       PROVE  SheetTypeOK' /\ SignupTypeOK'
  BY <1>15 DEF Advance, SheetTypeOK, Note
<1>16. ASSUME NEW p \in Callers, MeetDeadline(p) PROVE SheetTypeOK' /\ SignupTypeOK'
  <2> DEFINE r == call[p]
             filed == [r EXCEPT !.at = "file", !.status = IF @ = NONE THEN "DECLINED" ELSE @]
             open == [r EXCEPT !.at = IF r.status = NONE THEN "withdraw" ELSE "write",
                               !.read = WithoutTimes(@)]
  <2>1. r \in Call \ {Idle}
    BY <1>16 DEF MeetDeadline, Idle
  <2>2. filed \in Call
    BY <2>1 DEF AllStatuses, SelfReported
  <2>3. WithoutTimes(r.read) \in Event
    BY <2>1, ReadTyped
  <2>4. open \in Call
    BY <2>1, <2>3
  <2>5. Advance(p, filed) \/ Advance(p, open)
    BY <1>16 DEF MeetDeadline
  <2> HIDE DEF filed, open
  <2> QED BY <1>15, <2>2, <2>4, <2>5
<1>17. ASSUME NEW p \in Callers, FileReads(p) PROVE SheetTypeOK' /\ SignupTypeOK'
  <2> DEFINE r == call[p]
             late == event.startsAt > r.read.startsAt
             next == [r EXCEPT !.at = "filing", !.read = WithoutTimes(event), !.putOff = late]
  <2>1. r \in Call \ {Idle}
    BY <1>17 DEF FileReads, Idle
  <2>2. WithoutTimes(event) \in Event /\ late \in BOOLEAN
    BY <1>0, ReadTyped
  <2>3. Advance(p, next)
    BY <1>17 DEF FileReads
  <2> HIDE DEF late
  <2>4. next \in Call
    BY <2>1, <2>2
  <2> QED BY <1>15, <2>3, <2>4
<1>6. ASSUME NEW p \in Callers, Finish(p) PROVE call' \in [Callers -> Call]
  BY <1>0, <1>6 DEF Finish
<1>7. ASSUME NEW c \in Characters, NEW s \in AllStatuses, Speaks(c, s)
      PROVE  said' \in [Characters -> SUBSET AllStatuses]
  BY <1>7 DEF Speaks
<1>8. ASSUME NEW p \in Callers, WriteCommit(p) PROVE SheetTypeOK' /\ SignupTypeOK'
  <2>1. call[p].char \in Characters /\ call[p].status \in AllStatuses /\ call[p].read.seen \in Posting
    BY <1>8 DEF WriteCommit, Idle, Provenance, Founded, Event
  <2>2. queued' \subseteq Note
    BY <1>0, <1>8, <2>1, SignupNotesTyped DEF WriteCommit
  <2>3. SheetTypeOK'
    BY <1>0, <1>8, <2>1, <2>2, UpsertTyped DEF WriteCommit, SheetTypeOK
  <2>4. said' \in [Characters -> SUBSET AllStatuses]
    BY <1>7, <1>8, <2>1 DEF WriteCommit
  <2> QED BY <1>6, <1>8, <2>3, <2>4 DEF WriteCommit
<1>9. ASSUME NEW p \in Callers, WithdrawCommit(p) PROVE SheetTypeOK' /\ SignupTypeOK'
  <2>1. call[p].char \in Characters /\ call[p].read.seen \in Posting
    BY <1>9 DEF WithdrawCommit, Idle, Event
  <2>2. queued' \subseteq Note
    BY <1>0, <1>9, <2>1, SignupNotesTyped DEF WithdrawCommit
  <2>3. SheetTypeOK'
    BY <1>0, <1>9, <2>1, <2>2, DeleteTyped DEF WithdrawCommit, SheetTypeOK
  <2>4. said' \in [Characters -> SUBSET AllStatuses]
    BY <1>7, <1>9, <2>1 DEF WithdrawCommit
  <2> QED BY <1>6, <1>9, <2>3, <2>4 DEF WithdrawCommit
<1>10. ASSUME NEW p \in Callers, FileCommit(p) PROVE SheetTypeOK' /\ SignupTypeOK'
  <2>1. call[p].char \in Characters /\ call[p].status \in AllStatuses
    BY <1>10 DEF FileCommit, Idle, Provenance, Founded, AllStatuses
  <2>2. queued' \subseteq Note
    BY <1>10, <2>1 DEF FileCommit, LateRequestFiled, Note
  <2>3. request' \in [Characters -> Request]
    BY <1>10, <2>1 DEF FileCommit, PendingRequest, Request, SheetTypeOK
  <2>4. SheetTypeOK'
    BY <1>10, <2>2, <2>3 DEF FileCommit, SheetTypeOK
  <2>5. said' \in [Characters -> SUBSET AllStatuses] /\ overtaken' \subseteq Characters
    BY <1>7, <1>10, <2>1 DEF FileCommit
  <2> QED BY <1>6, <1>10, <2>4, <2>5 DEF FileCommit
<1>11. ASSUME NEW c \in Characters, request[c] # NoRequest,
              NEW verdict \in {"APPROVED", "REJECTED"}, Decide(c, verdict)
       PROVE  request' \in [Characters -> Request]
  BY <1>11 DEF Decide, SheetTypeOK, Request
<1>12. ASSUME NEW p \in Callers, ApproveCommit(p) PROVE SheetTypeOK' /\ SignupTypeOK'
  <2>1. call[p].char \in Characters /\ call[p].status \in AllStatuses /\ call[p].read.seen \in Posting
    BY <1>12 DEF ApproveCommit, Idle, Provenance, Founded, AllStatuses, Event
  <2>2. queued' \subseteq Note
    BY <1>0, <1>12, <2>1, SignupNotesTyped DEF ApproveCommit
  <2>3. request[call[p].char] # NoRequest
    BY <1>12 DEF ApproveCommit, Provenance, Founded
  <2>4. request' \in [Characters -> Request]
    BY <1>11, <1>12, <2>1, <2>3 DEF ApproveCommit
  <2>5. SheetTypeOK'
    BY <1>0, <1>12, <2>1, <2>2, <2>4, UpsertTyped DEF ApproveCommit, SheetTypeOK
  <2> QED BY <1>6, <1>12, <2>5 DEF ApproveCommit
<1>13. ASSUME NEW p \in Callers, RejectCommit(p) PROVE SheetTypeOK' /\ SignupTypeOK'
  <2>1. call[p].char \in Characters
    BY <1>13 DEF RejectCommit, Idle
  <2>2. request[call[p].char] # NoRequest
    BY <1>13 DEF RejectCommit, Provenance, Founded
  <2>3. request' \in [Characters -> Request]
    BY <1>11, <1>13, <2>1, <2>2 DEF RejectCommit
  <2>4. SheetTypeOK'
    BY <1>13, <2>3 DEF RejectCommit, SheetTypeOK
  <2> QED BY <1>6, <1>13, <2>4 DEF RejectCommit
<1>14. ASSUME NEW p \in Callers, CallAborts(p) PROVE SheetTypeOK' /\ SignupTypeOK'
  BY <1>6, <1>14 DEF CallAborts, SheetTypeOK
<1> QED
  BY <1>2, <1>3, <1>4, <1>5, <1>8, <1>9, <1>10, <1>12, <1>13, <1>14, <1>16, <1>17 DEF SignupNext

-----------------------------------------------------------------------------
(* Where answers come from.                                                *)

\* The inductive invariant: types, the provenance of what is filed or under way,
\* and that of what stands.
IInv == TypeOK /\ Provenance /\ AnswersAreTheRaiders

\* Who may write what: a raider's own answer, or a raid lead's NO_SHOW.
LEMMA GateOwnership ==
  ASSUME NEW status, NEW owned \in BOOLEAN, NEW isRaidLead \in BOOLEAN,
         status \in AllowedStatuses(owned, isRaidLead, Started)
  PROVE  /\ status \in AllStatuses
         /\ ~owned => status = "NO_SHOW"
         /\ ~isRaidLead => status \in SelfReported
  BY DEF AllowedStatuses, AllStatuses

\* A LATE or ABSENT that meets a closed deadline has the start as read behind it.
LEMMA ClosedMeansPulled ==
  ASSUME now \in Int, NEW row \in Event, NEW status \in UntilPull, SignupsClosed(row, status)
  PROVE  now > row.startsAt
  BY DEF SignupsClosed, UntilPull, Event

\* Steps that touch neither signups, requests, calls nor history.
LEMMA ProvenanceFramed ==
  ASSUME IInv, UNCHANGED <<answer, request, call, said, overtaken>>, alive' = alive,
         now' \in Nat, now' >= now
  PROVE  Provenance' /\ AnswersAreTheRaiders'
<1>1. Filed' /\ AnswersAreTheRaiders'
  BY DEF IInv, Provenance, Filed, AnswersAreTheRaiders
<1>2. ASSUME NEW p \in Callers PROVE Founded(call[p])'
  <2>1. Founded(call[p]) /\ now \in Nat
    BY ScheduleAssumption DEF IInv, Provenance, TypeOK, SheetTypeOK
  <2>2. call[p].at = "file" => call[p].read.startsAt \in Nat
    BY DEF IInv, TypeOK, SignupTypeOK, Call, Idle, Event
  <2> QED BY <2>1, <2>2 DEF Founded
<1> QED BY <1>1, <1>2 DEF Provenance

\* Comp handlers and edits of the event.
LEMMA OthersKeepProvenance ==
  ASSUME IInv, EventNext \/ CompNext, UNCHANGED <<call, said, overtaken>>
  PROVE  Provenance' /\ AnswersAreTheRaiders'
<1>0. now \in Nat
  BY ScheduleAssumption DEF IInv, TypeOK, SheetTypeOK
<1>1. CASE DeleteEvent
  BY <1>1 DEF DeleteEvent, IInv, Provenance, Filed, Founded, AnswersAreTheRaiders
<1>2. CASE Tick \/ (\E s \in Schedules : Reschedule(s)) \/ (\E p \in Posting : BotRecordsPost(p))
  <2>1. UNCHANGED <<alive, answer, request>> /\ now' \in {now, now + 1}
    BY <1>2 DEF Tick, Reschedule, BotRecordsPost
  <2> QED BY <1>0, <2>1, ProvenanceFramed
<1>3. CASE CompNext
  <2>1. UNCHANGED <<now, alive, answer, request>>
    BY <1>3 DEF CompNext, LockReadsMode, LockReadsPool, LockCommit, SaveBegin, SaveCommit,
                SetMode, RenameBegin, RenameCommit, BuildAborts, Reads, ReplaceComp
  <2> QED BY <1>0, <2>1, ProvenanceFramed
<1> QED BY <1>1, <1>2, <1>3 DEF EventNext

\* What the raiders have asked for only grows.
LEMMA WordsRemain ==
  ASSUME SignupTypeOK, NEW c \in Characters, NEW s, Speaks(c, s)
  PROVE  /\ \A d \in Characters : said[d] \subseteq said'[d]
         /\ s \in said'[c]
  BY DEF SignupTypeOK, Speaks

\* A request that moves on or ends leaves the others as well founded as they were,
\* provided nobody's word is forgotten and no filing disappears.
LEMMA FoundedRemains ==
  ASSUME IInv, NEW p \in Callers, NEW next, call' = [call EXCEPT ![p] = next], Founded(next)',
         UNCHANGED <<now, alive>>,
         \A d \in Characters : said[d] \subseteq said'[d],
         \A d \in Characters : request[d] # NoRequest => request'[d] # NoRequest
  PROVE  \A q \in Callers : Founded(call[q])'
<1> SUFFICES ASSUME NEW q \in Callers PROVE Founded(call[q])'
  OBVIOUS
<1>1. CASE q = p
  <2>1. call'[q] = next
    BY <1>1 DEF IInv, TypeOK, SignupTypeOK
  <2> QED BY <2>1 DEF Founded
<1>2. CASE q # p
  <2>1. call'[q] = call[q] /\ Founded(call[q])
    BY <1>2 DEF IInv, TypeOK, SignupTypeOK, Provenance
  <2>2. call[q].at \in {"approve", "reject"} => call[q].char \in Characters
    BY DEF IInv, TypeOK, SignupTypeOK, Call, Idle
  <2> QED BY <2>1, <2>2 DEF Founded
<1> QED BY <1>1, <1>2

\* One that ends is founded for want of anything left to do.
LEMMA FinishedRemains ==
  ASSUME IInv, NEW p \in Callers, Finish(p), UNCHANGED <<now, alive>>,
         \A d \in Characters : said[d] \subseteq said'[d],
         \A d \in Characters : request[d] # NoRequest => request'[d] # NoRequest
  PROVE  \A q \in Callers : Founded(call[q])'
<1>1. Founded(Idle)'
  BY DEF Founded, Idle
<1> QED BY <1>1, FoundedRemains DEF Finish

\* A request that writes nothing yet is founded if what it goes on to do is.
LEMMA AdvanceFounded ==
  ASSUME IInv, NEW p \in Callers, NEW next, call' = [call EXCEPT ![p] = next], Founded(next),
         UNCHANGED <<now, alive, answer, request, said, overtaken>>
  PROVE  Provenance' /\ AnswersAreTheRaiders'
<1>1. Filed' /\ AnswersAreTheRaiders'
  BY DEF IInv, Provenance, Filed, AnswersAreTheRaiders
<1>2. Founded(next)'
  BY DEF Founded
<1> QED BY <1>1, <1>2, FoundedRemains DEF Provenance

\* So for one that begins.
LEMMA StartFounded ==
  ASSUME IInv, NEW p \in Callers, NEW c \in Characters, NEW stage, NEW status, NEW own \in BOOLEAN,
         Start(p, stage, c, status, own), stage \notin {"file", "filing"},
         stage = "deadline" => own /\ status \in SelfReported \union {NONE},
         stage = "write" => status \in AllStatuses /\ (own \/ status = "NO_SHOW"),
         stage = "approve" => status \in said[c] \intersect SelfReported,
         stage \in {"approve", "reject"} => request[c] # NoRequest
  PROVE  Provenance' /\ AnswersAreTheRaiders'
<1> DEFINE read == IF stage = "deadline" THEN event ELSE WithoutTimes(event)
           r == [at |-> stage, char |-> c, status |-> status, own |-> own, putOff |-> FALSE,
                 read |-> read]
<1>1. call' = [call EXCEPT ![p] = r]
  BY DEF Start
<1> HIDE DEF read
<1>2. Founded(r)
  BY DEF Founded
<1> HIDE DEF r
<1> QED BY <1>1, <1>2, AdvanceFounded DEF Start

\* The signup and late-request handlers, one action at a time.
LEMMA SignupKeepsProvenance ==
  ASSUME IInv, SignupNext PROVE Provenance' /\ AnswersAreTheRaiders'
<1>0. SheetTypeOK /\ SignupTypeOK /\ Provenance /\ AnswersAreTheRaiders
  BY DEF IInv, TypeOK
<1>1. ASSUME NEW p \in Callers, NEW c \in Characters, NEW status \in Offered,
             NEW owned \in BOOLEAN, NEW isRaidLead \in BOOLEAN,
             PutBegin(p, c, status, owned, isRaidLead)
      PROVE  Provenance' /\ AnswersAreTheRaiders'
  <2> DEFINE stage == AfterGate(isRaidLead, "write")
  <2>1. Start(p, stage, c, status, owned) /\ (owned \/ isRaidLead)
    BY <1>1 DEF PutBegin
  <2>2. /\ status \in AllStatuses
        /\ ~owned => status = "NO_SHOW"
        /\ ~isRaidLead => status \in SelfReported
    BY <1>1, GateOwnership DEF PutBegin
  <2>3. stage = (IF isRaidLead THEN "write" ELSE "deadline")
    BY DEF AfterGate
  <2> HIDE DEF stage
  <2> QED BY <2>1, <2>2, <2>3, StartFounded
<1>2. ASSUME NEW p \in Callers, NEW c \in Characters, NEW isRaidLead \in BOOLEAN,
             WithdrawBegin(p, c, isRaidLead)
      PROVE  Provenance' /\ AnswersAreTheRaiders'
  <2> DEFINE stage == AfterGate(isRaidLead, "withdraw")
  <2>1. Start(p, stage, c, NONE, TRUE)
    BY <1>2 DEF WithdrawBegin
  <2>2. stage \in {"withdraw", "deadline"}
    BY DEF AfterGate
  <2> HIDE DEF stage
  <2> QED BY <2>1, <2>2, StartFounded
<1>12. ASSUME NEW p \in Callers, MeetDeadline(p) PROVE Provenance' /\ AnswersAreTheRaiders'
  <2> DEFINE r == call[p]
             filed == [r EXCEPT !.at = "file", !.status = IF @ = NONE THEN "DECLINED" ELSE @]
             open == [r EXCEPT !.at = IF r.status = NONE THEN "withdraw" ELSE "write",
                               !.read = WithoutTimes(@)]
  <2>1. r \in Call \ {Idle} /\ r.own /\ r.status \in SelfReported \union {NONE} /\ r.read \in Event
    BY <1>0, <1>12 DEF MeetDeadline, Idle, SignupTypeOK, Call, Provenance, Founded
  <2>2. CASE SignupsClosed(r.read, r.status) /\ Advance(p, filed)
    <3>1. filed.at = "file" /\ filed.status \in SelfReported /\ filed.read = r.read
          /\ (filed.status \in UntilPull => filed.status = r.status)
      BY <2>1 DEF Call, SelfReported, UntilPull
    <3>2. filed.status \in UntilPull => now > filed.read.startsAt
      BY <1>0, <2>1, <2>2, <3>1, ScheduleAssumption, ClosedMeansPulled DEF SheetTypeOK
    <3> HIDE DEF filed
    <3>3. Founded(filed)
      BY <3>1, <3>2 DEF Founded
    <3> QED BY <2>2, <3>3, AdvanceFounded DEF Advance
  <2>3. CASE Advance(p, open)
    <3>1. /\ open.own
          /\ open.status = r.status
          /\ open.at = (IF r.status = NONE THEN "withdraw" ELSE "write")
      BY <2>1 DEF Call
    <3> HIDE DEF open
    <3>2. Founded(open)
      BY <2>1, <3>1 DEF Founded, AllStatuses
    <3> QED BY <2>3, <3>2, AdvanceFounded DEF Advance
  <2> QED BY <1>12, <2>2, <2>3 DEF MeetDeadline
<1>13. ASSUME NEW p \in Callers, FileReads(p) PROVE Provenance' /\ AnswersAreTheRaiders'
  <2> DEFINE r == call[p]
             late == event.startsAt > r.read.startsAt
             next == [r EXCEPT !.at = "filing", !.read = WithoutTimes(event), !.putOff = late]
  <2>1. r \in Call \ {Idle} /\ r.read.startsAt \in Nat /\ Founded(r) /\ r.at = "file"
    BY <1>0, <1>13 DEF FileReads, Idle, SignupTypeOK, Call, Event, Provenance
  <2>2. now < event.startsAt /\ now \in Nat /\ event.startsAt \in Nat
    BY <1>0, <1>13, ScheduleAssumption DEF FileReads, Started, SheetTypeOK, Event
  <2>3. r.status \in UntilPull => late
    BY <2>1, <2>2 DEF Founded
  <2>4. Advance(p, next)
    BY <1>13 DEF FileReads
  <2> HIDE DEF late
  <2>5. next.at = "filing" /\ next.status = r.status /\ next.putOff = late
    BY <2>1 DEF Call
  <2> HIDE DEF next
  <2>6. Founded(next)
    BY <2>1, <2>3, <2>5 DEF Founded
  <2> QED BY <2>4, <2>6, AdvanceFounded DEF Advance
<1>3. ASSUME NEW p \in Callers, NEW c \in Characters, ApproveBegin(p, c)
      PROVE  Provenance' /\ AnswersAreTheRaiders'
  <2>1. request[c] # NoRequest
    BY <1>3 DEF ApproveBegin, Undecided, NoRequest, NONE
  <2>2. request[c].status \in said[c] \intersect SelfReported
    BY <1>0, <2>1 DEF Provenance, Filed
  <2> DEFINE stage == "approve"  own == FALSE
  <2>3. Start(p, stage, c, request[c].status, own) /\ stage = "approve" /\ own \in BOOLEAN
    BY <1>3 DEF ApproveBegin
  <2> HIDE DEF stage, own
  <2> QED BY <2>1, <2>2, <2>3, StartFounded
<1>4. ASSUME NEW p \in Callers, NEW c \in Characters, RejectBegin(p, c)
      PROVE  Provenance' /\ AnswersAreTheRaiders'
  <2>1. request[c] # NoRequest
    BY <1>4 DEF RejectBegin, Undecided, NoRequest, NONE
  <2> DEFINE stage == "reject"  own == FALSE
  <2>2. Start(p, stage, c, NONE, own) /\ stage = "reject" /\ own \in BOOLEAN
    BY <1>4 DEF RejectBegin
  <2> HIDE DEF stage, own
  <2> QED BY <2>1, <2>2, StartFounded
<1>5. ASSUME NEW p \in Callers, WriteCommit(p) PROVE Provenance' /\ AnswersAreTheRaiders'
  <2> DEFINE c == call[p].char  status == call[p].status
  <2>1. c \in Characters /\ status \in AllStatuses /\ (~call[p].own => status = "NO_SHOW")
    BY <1>0, <1>5 DEF WriteCommit, SignupTypeOK, Call, Idle, Provenance, Founded
  <2>2. \/ Speaks(c, status)
        \/ UNCHANGED said /\ status = "NO_SHOW"
    BY <1>0, <1>5, <2>1 DEF WriteCommit, SignupTypeOK, Call, Idle
  <2>3. /\ \A d \in Characters : said[d] \subseteq said'[d]
        /\ status \in said'[c] \union {"NO_SHOW"}
    BY <1>0, <2>1, <2>2, WordsRemain DEF AllStatuses, SelfReported, NONE
  <2>4. answer' = [answer EXCEPT ![c] = status] /\ UNCHANGED <<request, alive, now,
      overtaken>> /\ Finish(p)
    BY <1>5 DEF WriteCommit, UpsertSignup
  <2> HIDE DEF c, status
  <2>5. AnswersAreTheRaiders'
    BY <1>0, <2>1, <2>3, <2>4 DEF AnswersAreTheRaiders, SheetTypeOK
  <2>6. Filed'
    BY <1>0, <2>3, <2>4 DEF Provenance, Filed
  <2> QED BY <2>3, <2>4, <2>5, <2>6, FinishedRemains DEF Provenance
<1>6. ASSUME NEW p \in Callers, WithdrawCommit(p) PROVE Provenance' /\ AnswersAreTheRaiders'
  <2> DEFINE c == call[p].char
  <2>1. c \in Characters
    BY <1>0, <1>6 DEF WithdrawCommit, SignupTypeOK, Call, Idle
  <2>2. \A d \in Characters : said[d] \subseteq said'[d]
    BY <1>6 DEF WithdrawCommit
  <2>3. answer' = [answer EXCEPT ![c] = NONE] /\ UNCHANGED <<request, alive, now,
      overtaken>> /\ Finish(p)
    BY <1>6 DEF WithdrawCommit, DeleteSignup
  <2> HIDE DEF c
  <2>4. AnswersAreTheRaiders'
    BY <1>0, <2>1, <2>2, <2>3 DEF AnswersAreTheRaiders, SheetTypeOK
  <2>5. Filed'
    BY <1>0, <2>2, <2>3 DEF Provenance, Filed
  <2> QED BY <2>2, <2>3, <2>4, <2>5, FinishedRemains DEF Provenance
<1>7. ASSUME NEW p \in Callers, FileCommit(p) PROVE Provenance' /\ AnswersAreTheRaiders'
  <2> DEFINE c == call[p].char  status == call[p].status
  <2>1. c \in Characters /\ status \in SelfReported /\ (status \in UntilPull => call[p].putOff)
    BY <1>0, <1>7 DEF FileCommit, SignupTypeOK, Call, Idle, Provenance, Founded
  <2>2. /\ \A d \in Characters : said[d] \subseteq said'[d]
        /\ status \in said'[c]
    BY <1>0, <1>7, <2>1, WordsRemain DEF FileCommit
  <2>3. request' = [request EXCEPT ![c] = PendingRequest(status)] /\ UNCHANGED <<answer, alive, now>>
        /\ Finish(p)
    BY <1>7 DEF FileCommit
  <2>8. (status \in UntilPull => c \in overtaken') /\ overtaken \ {c} \subseteq overtaken'
    BY <1>7, <2>1 DEF FileCommit
  <2> HIDE DEF c, status
  <2>4. PendingRequest(status) # NoRequest /\ PendingRequest(status).status = status
    BY DEF PendingRequest, NoRequest, NONE
  <2>5. AnswersAreTheRaiders'
    BY <1>0, <2>2, <2>3 DEF AnswersAreTheRaiders
  <2>6. Filed'
    BY <1>0, <2>1, <2>2, <2>3, <2>4, <2>8 DEF Provenance, Filed, SheetTypeOK
  <2>7. \A d \in Characters : request[d] # NoRequest => request'[d] # NoRequest
    BY <1>0, <2>1, <2>3, <2>4 DEF SheetTypeOK
  <2> QED BY <2>2, <2>3, <2>5, <2>6, <2>7, FinishedRemains DEF Provenance
<1>8. ASSUME NEW c \in Characters, request[c] # NoRequest,
             NEW verdict \in {"APPROVED", "REJECTED"}, Decide(c, verdict), UNCHANGED <<said, overtaken>>
      PROVE  Filed' /\ \A d \in Characters : request[d] # NoRequest => request'[d] # NoRequest
  <2>1. /\ request[c].status \in said[c] \intersect SelfReported
        /\ request[c].status \in UntilPull => c \in overtaken
    BY <1>0, <1>8 DEF Provenance, Filed
  <2>2. /\ request'[c].status = request[c].status
        /\ request'[c].state = verdict
        /\ \A d \in Characters \ {c} : request'[d] = request[d]
    BY <1>0, <1>8 DEF Decide, SheetTypeOK, Request
  <2>3. request'[c] # NoRequest
    BY <2>2 DEF NoRequest, NONE
  <2> QED BY <1>0, <1>8, <2>1, <2>2, <2>3 DEF Provenance, Filed
<1>9. ASSUME NEW p \in Callers, ApproveCommit(p) PROVE Provenance' /\ AnswersAreTheRaiders'
  <2> DEFINE c == call[p].char  status == call[p].status
  <2>1. c \in Characters /\ status \in said[c] /\ request[c] # NoRequest
    BY <1>0, <1>9 DEF ApproveCommit, SignupTypeOK, Call, Idle, Provenance, Founded
  <2>2. /\ answer' = [answer EXCEPT ![c] = status]
        /\ Decide(c, "APPROVED") /\ UNCHANGED <<said, overtaken, alive, now>> /\ Finish(p)
    BY <1>9 DEF ApproveCommit, UpsertSignup
  <2> HIDE DEF c, status
  <2>3. AnswersAreTheRaiders'
    BY <1>0, <2>1, <2>2 DEF AnswersAreTheRaiders, SheetTypeOK
  <2> QED BY <1>8, <2>1, <2>2, <2>3, FinishedRemains DEF Provenance
<1>10. ASSUME NEW p \in Callers, RejectCommit(p) PROVE Provenance' /\ AnswersAreTheRaiders'
  <2> DEFINE c == call[p].char
  <2>1. c \in Characters /\ request[c] # NoRequest
    BY <1>0, <1>10 DEF RejectCommit, SignupTypeOK, Call, Idle, Provenance, Founded
  <2>2. Decide(c, "REJECTED") /\ UNCHANGED <<said, overtaken, answer, alive, now>> /\ Finish(p)
    BY <1>10 DEF RejectCommit
  <2> HIDE DEF c
  <2>3. AnswersAreTheRaiders'
    BY <1>0, <2>2 DEF AnswersAreTheRaiders
  <2> QED BY <1>8, <2>1, <2>2, <2>3, FinishedRemains DEF Provenance
<1>11. ASSUME NEW p \in Callers, CallAborts(p) PROVE Provenance' /\ AnswersAreTheRaiders'
  <2>1. Finish(p) /\ UNCHANGED <<said, overtaken, answer, request, alive, now>>
    BY <1>11 DEF CallAborts
  <2>2. Filed' /\ AnswersAreTheRaiders'
    BY <1>0, <2>1 DEF Provenance, Filed, AnswersAreTheRaiders
  <2> QED BY <2>1, <2>2, FinishedRemains DEF Provenance
<1> QED
  BY <1>1, <1>2, <1>3, <1>4, <1>5, <1>6, <1>7, <1>9, <1>10, <1>11, <1>12, <1>13 DEF SignupNext

-----------------------------------------------------------------------------
(* The theorems.                                                           *)

\* The inductive invariant holds at the start and every step keeps it.
LEMMA Invariance == Spec => []IInv
<1>1. Init => IInv
  <2>1. Init => TypeOK
    BY ScheduleAssumption
    DEF Init, SheetInit, SignupInit, CompInit, TypeOK, SheetTypeOK, SignupTypeOK, CompTypeOK,
        Posting, Event, Request, Call, Build
  <2>2. Init => Provenance /\ AnswersAreTheRaiders
    BY DEF Init, SheetInit, SignupInit, Provenance, Filed, Founded, Idle, AnswersAreTheRaiders
  <2> QED BY <2>1, <2>2 DEF IInv
<1>2. IInv /\ [Next]_vars => IInv'
  <2> SUFFICES ASSUME IInv, [Next]_vars PROVE IInv'
    OBVIOUS
  <2>0. SheetTypeOK /\ SignupTypeOK /\ CompTypeOK /\ Provenance
    BY DEF IInv, TypeOK
  <2>1. CASE EventNext /\ UNCHANGED <<call, said, overtaken, build>>
    BY <2>0, <2>1, EventTyped, OthersKeepProvenance DEF IInv, TypeOK, SignupTypeOK, CompTypeOK
  <2>2. CASE SignupNext /\ UNCHANGED build
    BY <2>0, <2>2, SignupTyped, SignupKeepsProvenance DEF IInv, TypeOK, CompTypeOK
  <2>3. CASE CompNext /\ UNCHANGED <<call, said, overtaken>>
    BY <2>0, <2>3, CompTyped, OthersKeepProvenance DEF IInv, TypeOK, SignupTypeOK
  <2>4. CASE UNCHANGED vars
    BY <2>4 DEF vars, sheetVars, IInv, TypeOK, SheetTypeOK, SignupTypeOK, CompTypeOK,
                Provenance, Filed, Founded, AnswersAreTheRaiders, Posting
  <2> QED BY <2>1, <2>2, <2>3, <2>4 DEF Next
<1> QED BY <1>1, <1>2, PTL DEF Spec

\* The sheet, the requests in flight and the boards keep their types.
THEOREM TypeCorrect == Spec => []TypeOK
  BY Invariance, PTL DEF IInv

\* Every answer was asked for by its raider or is a NO_SHOW, however writes,
\* filings, approvals and comp requests interleave.
THEOREM AnswersBelongToRaiders == Spec => []AnswersAreTheRaiders
  BY Invariance, PTL DEF IInv

\* A filing asks for a status an approval must not write only if an edit put the start
\* off between its request's two readings of the event: for any number of requests, leads
\* and edits, that is the one way in (Write's two clock readings, File's rereading).
THEOREM QueueIsOfIntentions == Spec => []QueueHoldsIntentions
<1>1. IInv => QueueHoldsIntentions
  BY DEF IInv, Provenance, Filed, SelfReported, UntilPull, NoRequest, NONE, QueueHoldsIntentions
<1> QED BY <1>1, Invariance, PTL

-----------------------------------------------------------------------------
(* The queue, one request at a time.                                       *)

\* A decision under way has what it read: nobody else touched the filing.
DecisionsAreCurrent ==
  \A p \in Callers : LET r == call[p] IN
    /\ r.at = "approve" /\ alive => request[r.char] = PendingRequest(r.status)
    /\ r.at = "reject" /\ alive => request[r.char].state = "PENDING"

\* A lone request that begins, ends, or sees the event edited, is current.
LEMMA DecisionsStayCurrent ==
  ASSUME \A p, q \in Callers : p = q, TypeOK, DecisionsAreCurrent, [Next]_vars
  PROVE  DecisionsAreCurrent'
<1>0. SheetTypeOK /\ SignupTypeOK
  BY DEF TypeOK
<1>1. CASE UNCHANGED <<call, request, alive>>
  BY <1>1 DEF DecisionsAreCurrent
<1>2. CASE DeleteEvent
  BY <1>2 DEF DeleteEvent, DecisionsAreCurrent
<1>3. ASSUME NEW p \in Callers, Finish(p) PROVE DecisionsAreCurrent'
  BY <1>0, <1>3 DEF Finish, Idle, DecisionsAreCurrent, SignupTypeOK
<1>4. ASSUME NEW p \in Callers, NEW c \in Characters, NEW stage, NEW status, NEW own,
             Start(p, stage, c, status, own), stage \notin {"approve", "reject"}
      PROVE  DecisionsAreCurrent'
  BY <1>0, <1>4 DEF Start, DecisionsAreCurrent, SignupTypeOK
<1>5. ASSUME NEW p \in Callers, NEW c \in Characters, ApproveBegin(p, c) PROVE DecisionsAreCurrent'
  <2>1. request[c] \in Request /\ request[c].state = "PENDING"
    BY <1>0, <1>5 DEF ApproveBegin, Undecided, SheetTypeOK
  <2>2. request[c] = PendingRequest(request[c].status)
    BY <2>1 DEF Request, NoRequest, NONE, PendingRequest
  <2> QED BY <1>0, <1>5, <2>2 DEF ApproveBegin, Start, DecisionsAreCurrent, SignupTypeOK
<1>6. ASSUME NEW p \in Callers, NEW c \in Characters, RejectBegin(p, c) PROVE DecisionsAreCurrent'
  BY <1>0, <1>6 DEF RejectBegin, Undecided, Start, DecisionsAreCurrent, SignupTypeOK
<1>7. CASE SignupNext
  <2>1. ASSUME NEW p \in Callers, NEW c \in Characters, NEW status \in Offered, NEW owned \in BOOLEAN,
               NEW isRaidLead \in BOOLEAN, PutBegin(p, c, status, owned, isRaidLead)
        PROVE  DecisionsAreCurrent'
    <3> DEFINE stage == AfterGate(isRaidLead, "write")
    <3>1. Start(p, stage, c, status, owned) /\ stage \notin {"approve", "reject"}
      BY <2>1 DEF PutBegin, AfterGate
    <3> HIDE DEF stage
    <3> QED BY <1>4, <3>1
  <2>2. ASSUME NEW p \in Callers, NEW c \in Characters, NEW isRaidLead \in BOOLEAN,
               WithdrawBegin(p, c, isRaidLead)
        PROVE  DecisionsAreCurrent'
    <3> DEFINE stage == AfterGate(isRaidLead, "withdraw")
    <3>1. Start(p, stage, c, NONE, TRUE) /\ stage \notin {"approve", "reject"}
      BY <2>2 DEF WithdrawBegin, AfterGate
    <3> HIDE DEF stage
    <3> QED BY <1>4, <3>1
  <2>4. ASSUME NEW p \in Callers, MeetDeadline(p) PROVE DecisionsAreCurrent'
    BY <1>0, <2>4 DEF MeetDeadline, Advance, DecisionsAreCurrent, SignupTypeOK, Call, Idle
  <2>5. ASSUME NEW p \in Callers, FileReads(p) PROVE DecisionsAreCurrent'
    BY <1>0, <2>5 DEF FileReads, Advance, DecisionsAreCurrent, SignupTypeOK, Call, Idle
  <2>3. ASSUME NEW p \in Callers,
      WriteCommit(p) \/ WithdrawCommit(p) \/ FileCommit(p) \/ ApproveCommit(p)
                                  \/ RejectCommit(p) \/ CallAborts(p)
        PROVE  DecisionsAreCurrent'
    BY <1>3, <2>3 DEF WriteCommit, WithdrawCommit, FileCommit, ApproveCommit, RejectCommit, CallAborts
  <2> QED BY <1>5, <1>6, <1>7, <2>1, <2>2, <2>3, <2>4, <2>5 DEF SignupNext
<1>8. CASE CompNext /\ UNCHANGED call
  BY <1>1, <1>8 DEF CompNext, LockReadsMode, LockReadsPool, LockCommit, SaveBegin, SaveCommit,
     SetMode, RenameBegin, RenameCommit, BuildAborts, Reads, ReplaceComp
<1>9. CASE EventNext /\ UNCHANGED call
  BY <1>1, <1>2, <1>9 DEF EventNext, Tick, Reschedule, BotRecordsPost
<1> QED BY <1>1, <1>7, <1>8, <1>9 DEF Next, vars, sheetVars

\* Every step is a step of the abstract queue, or none.
LEMMA StepsOfTheQueue ==
  ASSUME IInv, DecisionsAreCurrent, [Next]_vars
  PROVE  [Queue!Next]_(Queue!vars)
<1>0. SheetTypeOK /\ SignupTypeOK /\ Provenance
  BY DEF IInv, TypeOK
<1>1. CASE UNCHANGED <<answer, request>>
  BY <1>1 DEF Queue!vars
<1>2. CASE DeleteEvent
  BY <1>2 DEF DeleteEvent, NoRequest, Queue!Next, Queue!Cancelled, Queue!Nothing
<1>3. ASSUME NEW p \in Callers, call[p].at # "idle" PROVE call[p].char \in Characters
  BY <1>0, <1>3 DEF SignupTypeOK, Call, Idle
<1>4. ASSUME NEW p \in Callers, WriteCommit(p) PROVE Queue!Next
  <2>1. call[p].char \in Characters /\ call[p].status \in AllStatuses
    BY <1>0, <1>4 DEF WriteCommit, SignupTypeOK, Call, Idle, Provenance, Founded
  <2> QED BY <1>4, <2>1 DEF WriteCommit, UpsertSignup, Queue!Next, Queue!Answer
<1>5. ASSUME NEW p \in Callers, WithdrawCommit(p) PROVE Queue!Next
  BY <1>3, <1>5 DEF WithdrawCommit, DeleteSignup, Queue!Next, Queue!Answer
<1>6. ASSUME NEW p \in Callers, FileCommit(p) PROVE Queue!Next
  <2>1. call[p].char \in Characters /\ call[p].status \in AllStatuses
    BY <1>0, <1>6 DEF FileCommit, SignupTypeOK, Call, Idle, Provenance, Founded, AllStatuses
  <2> QED BY <1>6, <2>1 DEF FileCommit, PendingRequest, Queue!Next, Queue!File
<1>7. ASSUME NEW p \in Callers, ApproveCommit(p) PROVE Queue!Next
  <2> DEFINE c == call[p].char
  <2>1. c \in Characters /\ request[c] = PendingRequest(call[p].status)
    BY <1>3, <1>7 DEF ApproveCommit, DecisionsAreCurrent
  <2>2. request[c].state = "PENDING" /\ request[c].status = call[p].status
    BY <2>1 DEF PendingRequest
  <2>3. Queue!Approve(c)
    BY <1>7, <2>2 DEF ApproveCommit, UpsertSignup, Decide, Queue!Approve
  <2> QED BY <2>1, <2>3 DEF Queue!Next
<1>8. ASSUME NEW p \in Callers, RejectCommit(p) PROVE Queue!Next
  <2>1. Queue!Reject(call[p].char)
    BY <1>8 DEF RejectCommit, Decide, DecisionsAreCurrent, Queue!Reject
  <2>2. call[p].char \in Characters
    BY <1>3, <1>8 DEF RejectCommit
  <2> QED BY <2>1, <2>2 DEF Queue!Next
<1>9. \/ UNCHANGED <<answer, request>>
      \/ DeleteEvent
      \/ \E p \in Callers : WriteCommit(p) \/ WithdrawCommit(p) \/ FileCommit(p) \/ ApproveCommit(p)
                           \/ RejectCommit(p)
  BY DEF Next, vars, sheetVars, SignupNext, PutBegin, WithdrawBegin, ApproveBegin, RejectBegin,
      Start, Advance, MeetDeadline, FileReads,
     CallAborts, EventNext, Tick, Reschedule, BotRecordsPost, CompNext, LockReadsMode, LockReadsPool,
     LockCommit, SaveBegin, SaveCommit, SetMode, RenameBegin, RenameCommit, BuildAborts, Reads,
         ReplaceComp
<1> QED BY <1>1, <1>2, <1>4, <1>5, <1>6, <1>7, <1>8, <1>9

\* Served one at a time, the handlers implement the queue late.go's comments describe: a
\* decision meets a pending filing and applies that very status (Approve, Reject).
THEOREM HandlersKeepTheQueue ==
  ASSUME \A p, q \in Callers : p = q
  PROVE  Spec => KeepsTheQueue
<1>1. Init => Queue!Init /\ DecisionsAreCurrent
  BY DEF Init, SheetInit, SignupInit, Idle, NoRequest, DecisionsAreCurrent, Queue!Init, Queue!Nothing
<1>2. TypeOK /\ DecisionsAreCurrent /\ [Next]_vars => DecisionsAreCurrent'
  BY DecisionsStayCurrent
<1>3. IInv /\ DecisionsAreCurrent /\ [Next]_vars => [Queue!Next]_(Queue!vars)
  BY StepsOfTheQueue
<1>4. IInv => TypeOK
  BY DEF IInv
<1> QED BY <1>1, <1>2, <1>3, <1>4, Invariance, PTL DEF Spec, KeepsTheQueue, Queue!Spec

-----------------------------------------------------------------------------
(* The boards.                                                             *)

\* What a step may not do, of one state and the next.
GivesUpSeats == \A c \in Characters : Leaves(c) => \A x \in seats' : x.char # c
KeepsModes ==
  \A k \in Comps : mode[k] # NONE /\ mode'[k] # NONE /\ mode'[k] # mode[k]
                     => UNCHANGED <<seats, build>>

\* Nobody leaves in a step that writes no answer.
LEMMA NobodyLeaves == ASSUME UNCHANGED answer PROVE GivesUpSeats
  BY DEF GivesUpSeats, Leaves

\* A step that writes no mode changes no owner.
LEMMA NoModeWritten == ASSUME UNCHANGED mode PROVE KeepsModes
  BY DEF KeepsModes

\* UpsertSignup evicts the raider it takes out of the pool, and nobody else leaves.
LEMMA UpsertEvicts ==
  ASSUME SheetTypeOK, NEW c \in Characters, NEW s, UpsertSignup(c, s)
  PROVE  GivesUpSeats
<1> SUFFICES ASSUME NEW d \in Characters, Leaves(d)
             PROVE  \A x \in seats' : x.char # d
  BY DEF GivesUpSeats
<1>1. d = c /\ ~InPool(s)
  BY DEF SheetTypeOK, UpsertSignup, Leaves
<1> QED BY <1>1 DEF UpsertSignup, SeatsAfter

\* So does DeleteSignup.
LEMMA DeleteEvicts ==
  ASSUME SheetTypeOK, NEW c \in Characters, DeleteSignup(c)
  PROVE  GivesUpSeats
<1> SUFFICES ASSUME NEW d \in Characters, Leaves(d)
             PROVE  \A x \in seats' : x.char # d
  BY DEF GivesUpSeats
<1>1. d = c
  BY DEF SheetTypeOK, DeleteSignup, Leaves
<1> QED BY <1>1 DEF DeleteSignup, SeatsAfter, InPool, NONE

\* ReplaceComp keeps the mode of a comp that exists.
LEMMA ReplaceKeepsModes ==
  ASSUME SheetTypeOK, NEW k, NEW m, NEW board, ReplaceComp(k, m, board)
  PROVE  KeepsModes
<1> SUFFICES ASSUME NEW j \in Comps, mode[j] # NONE PROVE mode'[j] = mode[j]
  BY DEF KeepsModes
<1> QED BY DEF SheetTypeOK, ReplaceComp, ModeAfterUpsert

-----------------------------------------------------------------------------
(* One lemma per kind of step.                                             *)

\* An edit, a deletion or the clock.
LEMMA EventKeepsBoards ==
  ASSUME EventNext
  PROVE  GivesUpSeats /\ KeepsModes
<1>1. CASE UNCHANGED <<answer, mode>>
  BY <1>1, NobodyLeaves, NoModeWritten
<1>2. CASE DeleteEvent
  BY <1>2 DEF DeleteEvent, GivesUpSeats, KeepsModes
<1> QED BY <1>1, <1>2 DEF EventNext, Tick, Reschedule, BotRecordsPost

\* A signup or late-request step: only its commits write answers, and none writes a mode.
LEMMA SignupKeepsBoards ==
  ASSUME SheetTypeOK, SignupTypeOK, SignupNext
  PROVE  GivesUpSeats /\ KeepsModes
<1>1. UNCHANGED mode
  BY DEF SignupNext, PutBegin, WithdrawBegin, ApproveBegin, RejectBegin, Start, Advance,
      MeetDeadline, FileReads, WriteCommit,
         WithdrawCommit, FileCommit, ApproveCommit, RejectCommit, CallAborts
<1>2. ASSUME NEW p \in Callers, WriteCommit(p) \/ ApproveCommit(p) PROVE GivesUpSeats
  <2>1. call[p].char \in Characters
    BY <1>2 DEF SignupTypeOK, Call, Idle, WriteCommit, ApproveCommit
  <2>2. UpsertSignup(call[p].char, call[p].status)
    BY <1>2 DEF WriteCommit, ApproveCommit
  <2> QED BY <2>1, <2>2, UpsertEvicts
<1>3. ASSUME NEW p \in Callers, WithdrawCommit(p) PROVE GivesUpSeats
  <2>1. call[p].char \in Characters
    BY <1>3 DEF SignupTypeOK, Call, Idle, WithdrawCommit
  <2> QED BY <1>3, <2>1, DeleteEvicts DEF WithdrawCommit
<1>4. ASSUME UNCHANGED answer PROVE GivesUpSeats
  BY <1>4, NobodyLeaves
<1>5. UNCHANGED answer \/ \E p \in Callers : WriteCommit(p) \/ ApproveCommit(p) \/ WithdrawCommit(p)
  BY DEF SignupNext, PutBegin, WithdrawBegin, ApproveBegin, RejectBegin, Start, Advance,
      MeetDeadline, FileReads, FileCommit,
         RejectCommit, CallAborts
<1> QED BY <1>1, <1>2, <1>3, <1>4, <1>5, NoModeWritten

\* A comp step: none writes an answer.
LEMMA CompKeepsBoards ==
  ASSUME SheetTypeOK, CompNext
  PROVE  GivesUpSeats /\ KeepsModes
<1>1. UNCHANGED answer
  BY DEF CompNext, LockReadsMode, LockReadsPool, LockCommit, SaveBegin, SaveCommit, SetMode,
         RenameBegin, RenameCommit, BuildAborts, Reads, ReplaceComp
<1>2. ASSUME NEW b \in Builders, LockCommit(b) \/ SaveCommit(b) PROVE KeepsModes
  BY <1>2, ReplaceKeepsModes DEF LockCommit, SaveCommit
<1>3. ASSUME NEW b \in Builders, NEW k \in Comps, NEW m, SetMode(b, k, m) PROVE KeepsModes
  BY <1>3 DEF SetMode, KeepsModes
<1>4. ASSUME NEW b \in Builders, RenameCommit(b) PROVE KeepsModes
  BY <1>4 DEF SheetTypeOK, RenameCommit, NameFree, KeepsModes
<1>5. ASSUME UNCHANGED mode PROVE KeepsModes
  BY <1>5, NoModeWritten
<1>6. \/ UNCHANGED mode
      \/ \E b \in Builders : LockCommit(b) \/ SaveCommit(b) \/ RenameCommit(b)
      \/ \E b \in Builders, k \in Comps, m \in {"AUTO", "MANUAL"} : SetMode(b, k, m)
  BY DEF CompNext, LockReadsMode, LockReadsPool, SaveBegin, RenameBegin, BuildAborts, Reads
<1> QED BY <1>1, <1>2, <1>3, <1>4, <1>5, <1>6, NobodyLeaves

\* Any step of a well-typed state.
LEMMA StepKeepsBoards ==
  ASSUME TypeOK, [Next]_vars
  PROVE  GivesUpSeats /\ KeepsModes
<1>1. CASE UNCHANGED vars
  BY <1>1, NobodyLeaves, NoModeWritten DEF vars, sheetVars
<1> QED
  BY <1>1, EventKeepsBoards, SignupKeepsBoards, CompKeepsBoards DEF Next, TypeOK

\* Whoever else writes in the meantime, the transaction that takes a raider out of the
\* pool leaves them no seat on any board of the event (DropCompSlotsForCharacter runs in
\* the transaction of UpsertSignup and DeleteSignup).
THEOREM LeaversHoldNoSeat == Spec => LeavingGivesUpSeats
<1>1. TypeOK /\ [Next]_vars => [\A c \in Characters : Leaves(c) => \A x \in seats' : x.char # c]_vars
  BY StepKeepsBoards DEF GivesUpSeats
<1> QED BY <1>1, TypeCorrect, PTL DEF Spec, LeavingGivesUpSeats

\* However many locks, saves and renames are under way, a board that stays in being
\* changes hands by SetMode alone, and loses no seat by it.
THEOREM OwnersChangeByConversion == Spec => ModeIsDeliberate
<1>1. TypeOK /\ [Next]_vars =>
        [\A k \in Comps : mode[k] # NONE /\ mode'[k] # NONE /\ mode'[k] # mode[k]
                            => UNCHANGED <<seats, build>>]_vars
  BY StepKeepsBoards DEF KeepsModes
<1> QED BY <1>1, TypeCorrect, PTL DEF Spec, ModeIsDeliberate

-----------------------------------------------------------------------------
(* The notice of a hole.                                                   *)

\* The seats a write takes are those its notice names.
LEMMA LostAreDropped ==
  ASSUME NEW c \in Characters, NEW s, seats' = SeatsAfter(c, s)
  PROVE  {x.comp : x \in SeatsOf(c) \ seats'} = DroppedFrom(c, s)
<1>1. CASE InPool(s)
  BY <1>1 DEF SeatsAfter, SeatsOf, DroppedFrom
<1>2. CASE ~InPool(s)
  <2>1. SeatsOf(c) \ seats' = SeatsOf(c)
    BY <1>2 DEF SeatsAfter, SeatsOf
  <2> QED BY <1>2, <2>1 DEF DroppedFrom
<1> QED BY <1>1, <1>2

\* What one caller's commit owes the channel.
Reported(p) ==
  LET c == call[p].char
      lost == {x.comp : x \in SeatsOf(c) \ seats'}
  IN call[p].at \in {"write", "withdraw", "approve"} /\ call'[p] = Idle /\ alive'
       /\ lost # {} /\ call[p].read.seen.channel
     => \E n \in queued' : n.kind = "COMP_SLOT_DROPPED" /\ n.char = c
                             /\ n.comps = lost /\ n.status = answer'[c]

\* A write of status s reports every seat it takes.
LEMMA WriteReports ==
  ASSUME SheetTypeOK, NEW p \in Callers, NEW s, call[p].char \in Characters,
         seats' = SeatsAfter(call[p].char, s), answer' = [answer EXCEPT ![call[p].char] = s],
         queued' = SignupNotes(call[p].read.seen, call[p].char, s)
  PROVE  Reported(p)
<1> DEFINE c == call[p].char
           lost == {x.comp : x \in SeatsOf(c) \ seats'}
           n == [kind |-> "COMP_SLOT_DROPPED", char |-> c, status |-> s, comps |-> lost]
<1>1. lost = DroppedFrom(c, s)
  BY LostAreDropped
<1>2. answer'[c] = s
  BY DEF SheetTypeOK
<1> HIDE DEF lost
<1>3. lost # {} /\ call[p].read.seen.channel => n \in queued'
  BY <1>1 DEF SignupNotes, CompSlotsDropped
<1>4. n.kind = "COMP_SLOT_DROPPED" /\ n.char = c /\ n.comps = lost /\ n.status = answer'[c]
  BY <1>2
<1> HIDE DEF n
<1>5. lost # {} /\ call[p].read.seen.channel =>
        \E m \in queued' : m.kind = "COMP_SLOT_DROPPED" /\ m.char = c /\ m.comps = lost
                              /\ m.status = answer'[c]
  BY <1>3, <1>4
<1> QED BY <1>5 DEF Reported, lost

\* However many requests and boards are in flight, a commit that empties seats queues the
\* notice of exactly those (signup.go's dropCompSlots in the transaction that evicts).
THEOREM HolesAreReported == Spec => DropIsReported
<1>1. ASSUME TypeOK, [Next]_vars, NEW p \in Callers PROVE Reported(p)
  <2>0. SheetTypeOK /\ SignupTypeOK
    BY <1>1 DEF TypeOK
  <2>1. CASE \E q \in Callers \ {p} : call'[p] = call[p]
    BY <2>1, <2>0 DEF Reported, SignupTypeOK, Call, Idle
  <2>2. CASE call'[p] = call[p]
    BY <2>2 DEF Reported, Idle
  <2>3. CASE UNCHANGED seats
    BY <2>3 DEF Reported, SeatsOf
  <2>4. CASE WriteCommit(p) \/ ApproveCommit(p)
    <3>1. call[p].char \in Characters
      BY <2>0, <2>4 DEF SignupTypeOK, Call, Idle, WriteCommit, ApproveCommit
    <3> QED BY <2>0, <2>4, <3>1, WriteReports DEF WriteCommit, ApproveCommit, UpsertSignup
  <2>5. CASE WithdrawCommit(p)
    <3>1. call[p].char \in Characters
      BY <2>0, <2>5 DEF SignupTypeOK, Call, Idle, WithdrawCommit
    <3> QED BY <2>0, <2>5, <3>1, WriteReports DEF WithdrawCommit, DeleteSignup
  <2>6. CASE UNCHANGED vars
    BY <2>2, <2>6 DEF vars
  <2>7. CASE (EventNext \/ CompNext) /\ UNCHANGED call
    BY <2>2, <2>7
  <2>8. CASE SignupNext
    <3>1. PICK q \in Callers :
            \/ UNCHANGED seats
            \/ Finish(q) /\ (WriteCommit(q) \/ ApproveCommit(q) \/ WithdrawCommit(q))
      BY <2>8 DEF SignupNext, PutBegin, WithdrawBegin, ApproveBegin, RejectBegin, Start, Advance,
          MeetDeadline, FileReads, FileCommit,
         RejectCommit, CallAborts, WriteCommit, ApproveCommit, WithdrawCommit
    <3>2. CASE q # p /\ Finish(q)
      BY <2>0, <2>2, <3>2 DEF Finish, SignupTypeOK
    <3> QED BY <2>3, <2>4, <2>5, <3>1, <3>2
  <2> QED BY <1>1, <2>6, <2>7, <2>8 DEF Next
<1>2. TypeOK /\ [Next]_vars => [\A p \in Callers : Reported(p)]_vars
  BY <1>1
<1> QED BY <1>2, TypeCorrect, PTL DEF Spec, DropIsReported, Reported

-----------------------------------------------------------------------------
(* The seats' foreign key.                                                 *)

\* Every seat is of a comp that exists.
SeatsHaveComps == \A x \in seats : mode[x.comp] # NONE

\* Replacing a board keeps the key, and so does moving one to a free name.
LEMMA ReplaceKeepsKey ==
  ASSUME SheetTypeOK, SeatsHaveComps, NEW k \in Comps, NEW m \in {"AUTO", "MANUAL"}, NEW board,
         ReplaceComp(k, m, board)
  PROVE  SeatsHaveComps'
<1>1. mode' = [mode EXCEPT ![k] = ModeAfterUpsert(k, m)] /\ ModeAfterUpsert(k, m) # NONE
  BY DEF ReplaceComp, ModeAfterUpsert, NONE
<1>2. \A x \in seats' : x \in seats \/ x.comp = k
  BY DEF ReplaceComp, Slots
<1>3. mode'[k] # NONE /\ \A j \in Comps : mode[j] # NONE => mode'[j] # NONE
  BY <1>1 DEF SheetTypeOK
<1> QED BY <1>2, <1>3 DEF SeatsHaveComps, SheetTypeOK, Seat

LEMMA RenameKeepsKey ==
  ASSUME SheetTypeOK, CompTypeOK, SeatsHaveComps, NEW b \in Builders, RenameCommit(b)
  PROVE  SeatsHaveComps'
<1> DEFINE k == build[b].comp  into == build[b].into
<1>1. k \in Comps /\ into \in Comps
  BY DEF RenameCommit, CompTypeOK, Build, Resting
<1>2. mode' = (IF mode[k] = NONE THEN mode ELSE [mode EXCEPT ![into] = mode[k], ![k] = NONE])
      /\ seats' = {IF x.comp = k THEN [x EXCEPT !.comp = into] ELSE x : x \in seats}
      /\ NameFree(k, into)
  BY DEF RenameCommit
<1> HIDE DEF k, into
<1>3. CASE mode[k] = NONE
  <2>1. \A x \in seats : x.comp # k
    BY <1>3 DEF SeatsHaveComps
  <2>2. seats' = seats /\ mode' = mode
    BY <1>2, <1>3, <2>1
  <2> QED BY <2>2 DEF SeatsHaveComps
<1>4. CASE mode[k] # NONE
  <2>1. mode[into] = NONE /\ into # k
    BY <1>2, <1>4 DEF NameFree
  <2>2. mode'[into] # NONE /\ \A j \in Comps \ {k} : mode[j] # NONE => mode'[j] # NONE
    BY <1>1, <1>2, <1>4, <2>1 DEF SheetTypeOK
  <2>3. \A x \in seats' : x.comp = into \/ (x \in seats /\ x.comp # k)
    BY <1>2 DEF SheetTypeOK, Seat
  <2> QED BY <2>2, <2>3 DEF SeatsHaveComps, SheetTypeOK, Seat
<1> QED BY <1>3, <1>4

\* The comp_slots_comp_fkey of the schema, kept by every transaction of the model.
LEMMA KeyHolds == Spec => []SeatsHaveComps
<1>1. Init => SeatsHaveComps
  BY DEF Init, SheetInit, SeatsHaveComps
<1>2. TypeOK /\ SeatsHaveComps /\ [Next]_vars => SeatsHaveComps'
  <2> SUFFICES ASSUME TypeOK, SeatsHaveComps, [Next]_vars PROVE SeatsHaveComps'
    OBVIOUS
  <2>0. SheetTypeOK /\ CompTypeOK
    BY DEF TypeOK
  <2>1. CASE seats' \subseteq seats /\ UNCHANGED mode
    BY <2>1 DEF SeatsHaveComps
  <2>2. CASE seats' = {}
    BY <2>2 DEF SeatsHaveComps
  <2>3. ASSUME NEW b \in Builders, LockCommit(b) \/ SaveCommit(b) PROVE SeatsHaveComps'
    <3>1. build[b].comp \in Comps
      BY <2>0, <2>3 DEF LockCommit, SaveCommit, CompTypeOK, Build, Resting
    <3> QED BY <2>0, <2>3, <3>1, ReplaceKeepsKey DEF LockCommit, SaveCommit
  <2>4. ASSUME NEW b \in Builders, NEW k \in Comps, NEW m \in {"AUTO", "MANUAL"}, SetMode(b, k, m)
        PROVE  SeatsHaveComps'
    BY <2>0, <2>4 DEF SetMode, SeatsHaveComps, SheetTypeOK, Seat, NONE
  <2>5. ASSUME NEW b \in Builders, RenameCommit(b) PROVE SeatsHaveComps'
    BY <2>0, <2>5, RenameKeepsKey
  <2>6. CASE CompNext
    BY <2>1, <2>3, <2>4, <2>5, <2>6 DEF CompNext, LockReadsMode, LockReadsPool, SaveBegin, RenameBegin,
       BuildAborts, Reads
  <2> QED BY <2>1, <2>2, <2>6 DEF Next, EventNext, Tick, Reschedule, BotRecordsPost, DeleteEvent, vars,
        sheetVars, SignupNext, PutBegin, WithdrawBegin, ApproveBegin, RejectBegin, Start, Advance,
            MeetDeadline, FileReads, WriteCommit,
        WithdrawCommit, FileCommit, ApproveCommit, RejectCommit, CallAborts, UpsertSignup, DeleteSignup,
        SeatsAfter
<1> QED BY <1>1, <1>2, TypeCorrect, PTL DEF Spec

-----------------------------------------------------------------------------
(* One raid lead at a time.                                                *)

\* A lock under way is of a board the assigner may write.
LocksAreOurs == \A b \in Builders : build[b].at \in {"pool", "lock"} => mode[build[b].comp] # "MANUAL"

\* What a board owned by a raid lead may not gain.
SparesManual ==
  \A k \in Comps : mode[k] = "MANUAL"
    => \A x \in seats' \ seats : x.comp = k => x.reason = "MANUAL"

\* With one raid lead at a time, no lock writes a board that was converted meanwhile: a
\* hand-built board gains the raid lead's own placements only (Lock's ErrCompIsManual).
THEOREM ManualBoardsAreSpared ==
  ASSUME \A a, b \in Builders : a = b
  PROVE  Spec => LockSparesManual
<1>1. Init => LocksAreOurs
  BY DEF Init, CompInit, Resting, LocksAreOurs
<1>2. TypeOK /\ LocksAreOurs /\ [Next]_vars => LocksAreOurs'
  <2> SUFFICES ASSUME TypeOK, LocksAreOurs, [Next]_vars PROVE LocksAreOurs'
    OBVIOUS
  <2>0. SheetTypeOK /\ CompTypeOK
    BY DEF TypeOK
  <2>1. CASE UNCHANGED <<mode, build>>
    BY <2>1 DEF LocksAreOurs
  <2>2. CASE DeleteEvent /\ UNCHANGED build
    BY <2>0, <2>2 DEF DeleteEvent, LocksAreOurs, CompTypeOK, Build, Resting, NONE
  <2>3. ASSUME NEW b \in Builders, build'[b] = Resting PROVE LocksAreOurs'
    BY <2>3 DEF LocksAreOurs, Resting
  <2>4. ASSUME NEW b \in Builders, NEW k \in Comps, LockReadsMode(b, k) PROVE LocksAreOurs'
    BY <2>0, <2>4 DEF LockReadsMode, Reads, Turn, NotManual, LocksAreOurs, CompTypeOK
  <2>5. ASSUME NEW b \in Builders, LockReadsPool(b) PROVE LocksAreOurs'
    BY <2>0, <2>5 DEF LockReadsPool, Reads, Turn, LocksAreOurs, CompTypeOK
  <2>6. ASSUME NEW b \in Builders,
               (\E k \in Comps : SaveBegin(b, k)) \/ (\E k, into \in Comps : RenameBegin(b, k, into))
        PROVE  LocksAreOurs'
    BY <2>0, <2>6 DEF SaveBegin, RenameBegin, Reads, Turn, LocksAreOurs, CompTypeOK
  <2>7. ASSUME NEW b \in Builders, NEW k \in Comps, NEW m, SetMode(b, k, m) PROVE LocksAreOurs'
    BY <2>3, <2>7 DEF SetMode
  <2>8. ASSUME NEW b \in Builders, LockCommit(b) \/ SaveCommit(b) \/ RenameCommit(b) \/ BuildAborts(b)
        PROVE  LocksAreOurs'
    BY <2>0, <2>3, <2>8 DEF LockCommit, SaveCommit, RenameCommit, BuildAborts, Reads, Turn, CompTypeOK
  <2>9. CASE CompNext
    BY <2>4, <2>5, <2>6, <2>7, <2>8, <2>9 DEF CompNext
  <2>10. CASE SignupNext /\ UNCHANGED build
    BY <2>1, <2>10 DEF SignupNext, PutBegin, WithdrawBegin, ApproveBegin, RejectBegin, Start,
        Advance, MeetDeadline, FileReads, WriteCommit,
         WithdrawCommit, FileCommit, ApproveCommit, RejectCommit, CallAborts
  <2>11. CASE EventNext /\ UNCHANGED build
    BY <2>1, <2>2, <2>11 DEF EventNext, Tick, Reschedule, BotRecordsPost
  <2> QED BY <2>1, <2>9, <2>10, <2>11 DEF Next, vars, sheetVars
<1>3. TypeOK /\ LocksAreOurs /\ SeatsHaveComps /\ [Next]_vars => [SparesManual]_vars
  <2> SUFFICES ASSUME TypeOK, LocksAreOurs, SeatsHaveComps, Next PROVE SparesManual
    OBVIOUS
  <2>0. SheetTypeOK /\ CompTypeOK
    BY DEF TypeOK
  <2>1. CASE seats' \subseteq seats
    BY <2>1 DEF SparesManual
  <2>2. ASSUME NEW b \in Builders, LockCommit(b) PROVE SparesManual
    <3>1. PICK board : ReplaceComp(build[b].comp, "AUTO", board)
      BY <2>2 DEF LockCommit
    <3>2. \A x \in seats' \ seats : x.comp = build[b].comp
      BY <3>1 DEF ReplaceComp, Slots
    <3>3. mode[build[b].comp] # "MANUAL"
      BY <2>2 DEF LocksAreOurs, LockCommit
    <3> QED BY <3>2, <3>3 DEF SparesManual
  <2>3. ASSUME NEW b \in Builders, SaveCommit(b) PROVE SparesManual
    <3>1. PICK board : ReplaceComp(build[b].comp, "MANUAL", board)
      BY <2>3 DEF SaveCommit
    <3>2. \A x \in seats' \ seats : x.reason = "MANUAL"
      BY <3>1 DEF ReplaceComp, Slots
    <3> QED BY <3>2 DEF SparesManual
  <2>4. ASSUME NEW b \in Builders, RenameCommit(b) PROVE SparesManual
    <3>1. build[b].comp \in Comps /\ build[b].into \in Comps
      BY <2>0, <2>4 DEF RenameCommit, CompTypeOK, Build, Resting
    <3>2. ASSUME NEW x \in seats' \ seats
          PROVE  x.comp = build[b].into /\ mode[build[b].comp] # NONE
      BY <2>0, <2>4, <3>1 DEF RenameCommit, SeatsHaveComps, SheetTypeOK, Seat
    <3>3. ASSUME NEW x \in seats' \ seats PROVE mode[x.comp] # "MANUAL"
      BY <2>4, <3>2 DEF RenameCommit, NameFree, NONE
    <3> QED BY <3>3 DEF SparesManual
  <2> QED BY <2>1, <2>2, <2>3, <2>4 DEF Next, EventNext, Tick, Reschedule, BotRecordsPost, DeleteEvent,
        SignupNext, PutBegin, WithdrawBegin, ApproveBegin, RejectBegin, Start, Advance,
            MeetDeadline, FileReads, WriteCommit,
        WithdrawCommit, FileCommit, ApproveCommit, RejectCommit, CallAborts, UpsertSignup, DeleteSignup,
        SeatsAfter, CompNext, LockReadsMode, LockReadsPool, SaveBegin, SetMode, RenameBegin,
        BuildAborts, Reads
<1> QED BY <1>1, <1>2, <1>3, TypeCorrect, KeyHolds, PTL DEF Spec, LockSparesManual, SparesManual
=============================================================================
