------------------------------- MODULE Sheet -------------------------------
(***************************************************************************)
(* The rows of one event that signups, late requests and comps share: the  *)
(* event, signups, late_signup_requests, comps and comp_slots, and the     *)
(* statements (internal/db/queries) and event edits that change them.      *)
(* SignupHandlers and CompHandlers hold the request handlers that race     *)
(* over these rows; RaidNight puts the two together.                       *)
(*                                                                         *)
(* A transaction is one step, taken at its commit.  What a handler reads   *)
(* before its transaction, or by a plain SELECT inside it, is a step of    *)
(* its own: under READ COMMITTED nothing keeps such a row from changing    *)
(* before the writes that follow.                                          *)
(***************************************************************************)
EXTENDS Integers, FiniteSets

CONSTANTS
  Characters,   \* the guild's characters
  Comps,        \* comp names in use on the event ("prog", "farm")
  Roles,        \* tank, healer, dps
  Schedules,    \* the [startsAt, deadline] pairs an edit may choose (bound)
  Horizon       \* the last instant of the clock (bound)

SelfReported == {"CONFIRMED", "TENTATIVE", "DECLINED", "LATE", "ABSENT"}
AllStatuses == SelfReported \union {"NO_SHOW"}
NONE == "NONE"                                          \* no row, or SQL NULL

ASSUME ScheduleAssumption ==
  /\ Horizon \in Nat
  /\ Schedules \subseteq [startsAt : Nat, deadline : Nat]
  /\ NONE \notin Roles

VARIABLES
  now,       \* the clock every process reads
  alive,     \* the event row exists
  event,     \* startsAt, deadline, and whether channel_id, message_id are known
  answer,    \* signups.status of each character, NONE without a row
  assigned,  \* signups.assigned_role
  request,   \* late_signup_requests: at most one row per character
  mode,      \* comps.mode, NONE where the comp does not exist
  seats,     \* comp_slots
  queued     \* the notifications the latest transaction inserted

sheetVars == <<now, alive, event, answer, assigned, request, mode, seats, queued>>

Posting == [channel : BOOLEAN, message : BOOLEAN]
Event == [startsAt : Nat, deadline : Nat, seen : Posting]
Seat == [comp : Comps, char : Characters, role : Roles, bench : BOOLEAN,
         reason : {"AUTO", "MANUAL"}]
NoRequest == [status |-> NONE, state |-> NONE]
Request ==
  {NoRequest} \union [status : AllStatuses, state : {"PENDING", "APPROVED", "REJECTED"}]
Note ==
  [kind : {"SIGNUP_CHANGED", "COMP_CHANGED", "EVENT_CHANGED"}]
    \union [kind : {"LATE_REQUEST_FILED"}, char : Characters, status : AllStatuses]
    \union [kind : {"COMP_SLOT_DROPPED"}, char : Characters,
            status : AllStatuses \union {NONE}, comps : SUBSET Comps]

SheetTypeOK ==
  /\ now \in 0..Horizon
  /\ alive \in BOOLEAN
  /\ event \in Event
  /\ answer \in [Characters -> AllStatuses \union {NONE}]
  /\ assigned \in [Characters -> Roles \union {NONE}]
  /\ request \in [Characters -> Request]
  /\ mode \in [Comps -> {"AUTO", "MANUAL", NONE}]
  /\ seats \subseteq Seat
  /\ queued \subseteq Note

SheetInit ==
  /\ now = 0
  /\ alive = TRUE
  /\ \E s \in Schedules :
       event = [startsAt |-> s.startsAt, deadline |-> s.deadline,
                seen |-> [channel |-> FALSE, message |-> FALSE]]
  /\ answer = [c \in Characters |-> NONE]
  /\ assigned = [c \in Characters |-> NONE]
  /\ request = [c \in Characters |-> NoRequest]
  /\ mode = [k \in Comps |-> NONE]
  /\ seats = {}
  /\ queued = {}

-----------------------------------------------------------------------------
(* Who counts as coming, and the statements that write a signup.           *)

\* ListAssignmentPoolForEvent's test, repeated by DropCompSlotsForCharacter.
InPool(status) == status \in {"CONFIRMED", "LATE"}

AssignmentPool == {c \in Characters : InPool(answer[c])}

Started == now >= event.startsAt

SeatsOf(c) == {x \in seats : x.char = c}

\* assigned_role after UpsertSignup's ON CONFLICT clause: kept by an edit that
\* repeats the status, cleared by one that changes it.
RoleAfterUpsert(c, status) == IF answer[c] = status THEN assigned[c] ELSE NONE

\* MUTANT: the eviction compares against declining only, so ABSENT keeps the seat.
SeatsAfter_DeclinedOnly(c, status) == {x \in seats : x.char # c \/ status # "DECLINED"}

\* DropCompSlotsForCharacter, run after the row it tests has been written.
SeatsAfter(c, status) == {x \in seats : x.char # c \/ InPool(status)}

\* The comp names that statement returns.
DroppedFrom(c, status) ==
  IF InPool(status) THEN {} ELSE {x.comp : x \in SeatsOf(c)}

UpsertSignup(c, status) ==
  /\ answer' = [answer EXCEPT ![c] = status]
  /\ assigned' = [assigned EXCEPT ![c] = RoleAfterUpsert(c, status)]
  /\ seats' = SeatsAfter(c, status)

DeleteSignup(c) ==
  /\ answer' = [answer EXCEPT ![c] = NONE]
  /\ assigned' = [assigned EXCEPT ![c] = NONE]
  /\ seats' = SeatsAfter(c, NONE)

-----------------------------------------------------------------------------
(* The notifications a transaction queues.  posting is what the handler    *)
(* read of channel_id and message_id, which need not be what is stored by  *)
(* the time it commits.                                                    *)

Redraw(kind, posting) ==
  IF posting.channel /\ posting.message THEN {[kind |-> kind]} ELSE {}

\* MUTANT: nothing is said when the raider left without a status (a withdrawal).
CompSlotsDropped_SilentWithdrawal(posting, c, status, comps) ==
  IF comps # {} /\ posting.channel /\ status # NONE
  THEN {[kind |-> "COMP_SLOT_DROPPED", char |-> c, status |-> status, comps |-> comps]}
  ELSE {}

CompSlotsDropped(posting, c, status, comps) ==
  IF comps # {} /\ posting.channel
  THEN {[kind |-> "COMP_SLOT_DROPPED", char |-> c, status |-> status, comps |-> comps]}
  ELSE {}

LateRequestFiled(posting, c, status) ==
  IF posting.channel
  THEN {[kind |-> "LATE_REQUEST_FILED", char |-> c, status |-> status]}
  ELSE {}

-----------------------------------------------------------------------------
(* The event itself.                                                       *)

\* Time passes; bounded by Horizon.
Tick ==
  /\ now < Horizon
  /\ now' = now + 1
  /\ queued' = {}
  /\ UNCHANGED <<alive, event, answer, assigned, request, mode, seats>>

\* A raid lead edits the event: the start, the deadline, or neither and only what
\* the card shows (ReminderJobs has the jobs this reschedules).
Reschedule(s) ==
  /\ alive
  /\ event' = [event EXCEPT !.startsAt = s.startsAt, !.deadline = s.deadline]
  /\ queued' = Redraw("EVENT_CHANGED", event.seen)
  /\ UNCHANGED <<now, alive, answer, assigned, request, mode, seats>>

\* COALESCE: a field once known is never unlearned.
Learned(p) == [channel |-> event.seen.channel \/ p.channel,
               message |-> event.seen.message \/ p.message]

\* The bot records its post.  An edit of these two alone is not worth a redraw
\* (changesWhatIsPosted).
BotRecordsPost(p) ==
  /\ alive
  /\ Learned(p) # event.seen
  /\ event' = [event EXCEPT !.seen = Learned(p)]
  /\ queued' = {}
  /\ UNCHANGED <<now, alive, answer, assigned, request, mode, seats>>

\* The cascade takes the signups, requests, comps and slots along.
DeleteEvent ==
  /\ alive
  /\ alive' = FALSE
  /\ answer' = [c \in Characters |-> NONE]
  /\ assigned' = [c \in Characters |-> NONE]
  /\ request' = [c \in Characters |-> NoRequest]
  /\ mode' = [k \in Comps |-> NONE]
  /\ seats' = {}
  /\ queued' = {}
  /\ UNCHANGED <<now, event>>

EventNext ==
  \/ Tick
  \/ \E s \in Schedules : Reschedule(s)
  \/ \E p \in Posting : BotRecordsPost(p)
  \/ DeleteEvent
=============================================================================
