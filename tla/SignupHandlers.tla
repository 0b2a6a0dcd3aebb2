--------------------------- MODULE SignupHandlers ---------------------------
(***************************************************************************)
(* internal/signup/signup.go and late.go with the HTTP handlers that drive *)
(* them: writing and withdrawing a signup, and filing, approving and       *)
(* rejecting the late request a closed deadline turns a write into.        *)
(*                                                                         *)
(* Each caller is one request being served: "Begin" reads the event, the   *)
(* steps between read the clock or the event again, "Commit" is the write. *)
(* A request that is refused changes nothing and takes no step.            *)
(***************************************************************************)
EXTENDS Sheet

CONSTANTS
  Callers,  \* concurrent HTTP requests (bound)
  NoOne,    \* the character of an idle caller
  Offered   \* the statuses clients send in this instance (bound)

ASSUME CallerAssumption == NoOne \notin Characters /\ Offered \subseteq AllStatuses

VARIABLES
  call,     \* what each caller has read and not yet committed
  said,     \* history: every status a raider has asked for
  overtaken \* history: whose filing met a start put off since Write read the event

signupVars == <<sheetVars, call, said, overtaken>>

NotRead == [startsAt |-> 0, deadline |-> 0, seen |-> [channel |-> FALSE, message |-> FALSE]]
Idle == [at |-> "idle", char |-> NoOne, status |-> NONE, own |-> FALSE, read |-> NotRead,
         putOff |-> FALSE]

\* own: the caller owns the character.  read: the event row as this request holds it,
\* without its times once they have been looked at.
\* putOff is history: the start had moved later when File read the event again.
Call ==
  {Idle}
    \union [at : {"deadline", "write", "file", "filing", "approve", "withdraw", "reject"},
            char : Characters, status : AllStatuses \union {NONE}, own : BOOLEAN,
            read : Event, putOff : BOOLEAN]

SignupTypeOK ==
  /\ call \in [Callers -> Call]
  /\ said \in [Characters -> SUBSET AllStatuses]
  /\ overtaken \subseteq Characters

SignupInit ==
  /\ call = [p \in Callers |-> Idle]
  /\ said = [c \in Characters |-> {}]
  /\ overtaken = {}

-----------------------------------------------------------------------------
(* The two gates a write passes.                                           *)

\* MUTANT: a raid lead may write any status on anyone's signup.
AllowedStatuses_LeadMayAnything(owned, isRaidLead, started) ==
  IF started THEN IF isRaidLead THEN {"NO_SHOW"} ELSE {}
  ELSE IF owned \/ isRaidLead THEN AllStatuses ELSE {}

AllowedStatuses(owned, isRaidLead, started) ==
  IF started THEN IF isRaidLead THEN {"NO_SHOW"} ELSE {}
  ELSE IF owned THEN SelfReported
  ELSE IF isRaidLead THEN {"NO_SHOW"} ELSE {}

\* MUTANT: the gate forgets that LATE and ABSENT run until the pull.
SignupsClosed_OneDeadline(read, status) == now > read.deadline

\* checkDeadline for a raider, against the event as read.  A withdrawal, which names
\* no status, closes at the deadline.
SignupsClosed(read, status) ==
  LET runsUntilPull == status \in {"LATE", "ABSENT"} /\ read.startsAt > read.deadline
  IN now > (IF runsUntilPull THEN read.startsAt ELSE read.deadline)

-----------------------------------------------------------------------------
(* Beginning a request.                                                    *)

WithoutTimes(read) == [NotRead EXCEPT !.seen = read.seen]

Start(p, stage, c, status, own) ==
  /\ call[p] = Idle
  /\ call' = [call EXCEPT ![p] =
       [at |-> stage, char |-> c, status |-> status, own |-> own, putOff |-> FALSE,
        read |-> IF stage = "deadline" THEN event ELSE WithoutTimes(event)]]
  /\ queued' = {}
  /\ UNCHANGED <<now, alive, event, answer, assigned, request, mode, seats, said, overtaken>>

\* A raid lead is not asked about the deadline; a raider has yet to pass it.
AfterGate(isRaidLead, stage) == IF isRaidLead THEN stage ELSE "deadline"

\* PUT .../signups/{cid}: Write reads the event outside its transaction and then the
\* clock, for who may write what.  The two are one step: a clock read later only
\* refuses a raider more, and a raid lead's NO_SHOW is allowed on either side.
PutBegin(p, c, status, owned, isRaidLead) ==
  /\ alive
  /\ owned \/ isRaidLead
  /\ status \in AllowedStatuses(owned, isRaidLead, Started)
  /\ Start(p, AfterGate(isRaidLead, "write"), c, status, owned)

\* DELETE .../signups/{cid}: the owner alone.
WithdrawBegin(p, c, isRaidLead) ==
  /\ alive
  /\ ~Started
  /\ Start(p, AfterGate(isRaidLead, "withdraw"), c, NONE, TRUE)

\* The request goes on to its next stage without writing.
Advance(p, next) ==
  /\ call' = [call EXCEPT ![p] = next]
  /\ queued' = {}
  /\ UNCHANGED <<now, alive, event, answer, assigned, request, mode, seats, said, overtaken>>

\* checkDeadline reads the clock a second time.  Past the deadline the handler files
\* what was asked for instead, a withdrawal as DECLINED.
MeetDeadline(p) ==
  LET r == call[p]
  IN /\ r.at = "deadline"
     /\ Advance(p,
          IF SignupsClosed(r.read, r.status)
          THEN [r EXCEPT !.at = "file", !.status = IF @ = NONE THEN "DECLINED" ELSE @]
          ELSE [r EXCEPT !.at = IF r.status = NONE THEN "withdraw" ELSE "write",
                         !.read = WithoutTimes(@)])

\* File rereads the event, by a plain SELECT in its transaction, and the clock a third
\* time: a raid that has begun takes no more requests.
FileReads(p) ==
  /\ call[p].at = "file"
  /\ alive
  /\ ~Started
  /\ Advance(p, [call[p] EXCEPT !.at = "filing", !.read = WithoutTimes(event),
                                !.putOff = event.startsAt > call[p].read.startsAt])

\* MUTANT: the stored state is not looked at.
Undecided_Unchecked(c) == request[c] # NoRequest

\* The guard Approve and Reject share: anything not PENDING is ErrRequestDecided.
Undecided(c) == request[c].state = "PENDING"

\* Approve reads the request and the event inside its transaction, but with
\* plain SELECTs, so both may be stale when its writes run.
ApproveBegin(p, c) ==
  /\ alive
  /\ Undecided(c)
  /\ ~Started
  /\ Start(p, "approve", c, request[c].status, FALSE)

\* Reject has no transaction: a read, then an UPDATE by id.
RejectBegin(p, c) ==
  /\ alive
  /\ Undecided(c)
  /\ Start(p, "reject", c, NONE, FALSE)

-----------------------------------------------------------------------------
(* Committing it.                                                          *)

Finish(p) == call' = [call EXCEPT ![p] = Idle]

\* History only: a raider's own words, whether written at once or filed.
Speaks(c, status) == said' = [said EXCEPT ![c] = @ \union {status}]

\* What a signup write queues, in the transaction that makes it.
SignupNotes(seen, c, status) ==
  Redraw("SIGNUP_CHANGED", seen) \union CompSlotsDropped(seen, c, status, DroppedFrom(c, status))

WriteCommit(p) ==
  LET c == call[p].char  status == call[p].status
  IN /\ call[p].at = "write"
     /\ alive
     /\ UpsertSignup(c, status)
     /\ queued' = SignupNotes(call[p].read.seen, c, status)
     /\ IF call[p].own /\ status # "NO_SHOW" THEN Speaks(c, status) ELSE UNCHANGED said
     /\ Finish(p)
     /\ UNCHANGED <<now, alive, event, request, mode, overtaken>>

WithdrawCommit(p) ==
  LET c == call[p].char
  IN /\ call[p].at = "withdraw"
     /\ alive
     /\ DeleteSignup(c)
     /\ queued' = SignupNotes(call[p].read.seen, c, NONE)
     /\ Finish(p)
     /\ UNCHANGED <<now, alive, event, request, mode, said, overtaken>>

\* UpsertLateRequest: a re-filing reopens the row under its old id.
PendingRequest(status) == [status |-> status, state |-> "PENDING"]

FileCommit(p) ==
  LET c == call[p].char  status == call[p].status
  IN /\ call[p].at = "filing"
     /\ alive
     /\ request' = [request EXCEPT ![c] = PendingRequest(status)]
     /\ queued' = LateRequestFiled(call[p].read.seen, c, status)
     /\ Speaks(c, status)
     /\ overtaken' = IF call[p].putOff THEN overtaken \union {c} ELSE overtaken \ {c}
     /\ Finish(p)
     /\ UNCHANGED <<now, alive, event, answer, assigned, mode, seats>>

\* DecideLateRequest: by id, whatever the row says by now.
Decide(c, verdict) == request' = [request EXCEPT ![c].state = verdict]

ApproveCommit(p) ==
  LET c == call[p].char  status == call[p].status
  IN /\ call[p].at = "approve"
     /\ alive
     /\ UpsertSignup(c, status)
     /\ Decide(c, "APPROVED")
     /\ queued' = SignupNotes(call[p].read.seen, c, status)
     /\ Finish(p)
     /\ UNCHANGED <<now, alive, event, mode, said, overtaken>>

RejectCommit(p) ==
  /\ call[p].at = "reject"
  /\ alive
  /\ Decide(call[p].char, "REJECTED")
  /\ queued' = {}
  /\ Finish(p)
  /\ UNCHANGED <<now, alive, event, answer, assigned, mode, seats, said, overtaken>>

\* The request dies before its commit: a lost connection, a cancelled context,
\* a crash, an event deleted meanwhile, or the start refusing a filing.  The
\* transaction rolls back and leaves nothing.
CallAborts(p) ==
  /\ call[p] # Idle
  /\ Finish(p)
  /\ queued' = {}
  /\ UNCHANGED <<now, alive, event, answer, assigned, request, mode, seats, said, overtaken>>

SignupNext ==
  \E p \in Callers :
    \/ \E c \in Characters, status \in Offered, owned, isRaidLead \in BOOLEAN :
         PutBegin(p, c, status, owned, isRaidLead)
    \/ \E c \in Characters, isRaidLead \in BOOLEAN : WithdrawBegin(p, c, isRaidLead)
    \/ \E c \in Characters : ApproveBegin(p, c) \/ RejectBegin(p, c)
    \/ MeetDeadline(p)
    \/ WriteCommit(p)
    \/ WithdrawCommit(p)
    \/ FileReads(p)
    \/ FileCommit(p)
    \/ ApproveCommit(p)
    \/ RejectCommit(p)
    \/ CallAborts(p)
=============================================================================
