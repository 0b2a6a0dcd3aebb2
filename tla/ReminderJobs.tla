---------------------------- MODULE ReminderJobs ----------------------------
(***************************************************************************)
(* scheduled_jobs for one event: the schedule an event's times give it     *)
(* (schedule.go), created and recomputed with the event (store.go          *)
(* CreateEvent, UpdateEvent), the workers that drain it into notifications *)
(* (reminder.go), and what a client is told of it (event.go ReminderState).*)
(*                                                                         *)
(* A worker's tick is one transaction: it claims rows FOR UPDATE SKIP      *)
(* LOCKED, builds each job's notifications from what it reads on the way,  *)
(* and commits everything together.  An edit's UPDATE of a claimed row     *)
(* waits for that commit, so an edit that reschedules is one step that     *)
(* finds no row of the event claimed.                                      *)
(***************************************************************************)
EXTENDS Integers, FiniteSets

CONSTANTS
  Workers,      \* worker processes, each with its own poll loop
  Times,        \* instants an event may start or close at (bound)
  Leads,        \* reminder_lead_minutes a raid lead may choose
  Edits,        \* the UpdateEventInputs clients send (bound)
  GuildLead,    \* guild_settings.reminder_lead_minutes
  DefaultLead,  \* DefaultReminderLeadMinutes
  Day,          \* twenty-four hours on this clock
  BatchLimit,   \* RunDue's limit
  Horizon,      \* last instant (bound)
  MaxEdits,     \* reschedules (bound)
  MaxCrashes,   \* ticks lost to a crash or a failed statement (bound)
  NULL,         \* SQL NULL
  KEEP          \* a nil field of UpdateEventInput

SkipReasons == {"no_channel", "no_recipients", "kind_retired"}

ASSUME JobAssumption ==
  /\ Times \subseteq Nat /\ Leads \subseteq Nat
  /\ Edits \subseteq [startsAt : Times \union {KEEP}, deadline : Times \union {KEEP},
                      lead : Leads \union {KEEP},
                      shown : BOOLEAN, channel : BOOLEAN, message : BOOLEAN]
  /\ GuildLead \in Nat /\ DefaultLead \in Nat \ {0} /\ Day \in Nat \ {0}
  /\ BatchLimit \in Nat \ {0} /\ Horizon \in Nat /\ MaxEdits \in Nat /\ MaxCrashes \in Nat
  /\ NULL \notin Nat \union SkipReasons /\ KEEP \notin Nat

VARIABLES
  now,
  stage,     \* the event's life: "unborn", "live", "gone"
  event,     \* startsAt, deadline, lead, and whether channel_id, message_id are known
  jobs,      \* scheduled_jobs
  tick,      \* each worker's open transaction
  queued,    \* notifications the latest transaction inserted
  edits,     \* reschedules so far: what tells one schedule's jobs from the next's
  crashes    \* ticks lost so far

vars == <<now, stage, event, jobs, tick, queued, edits, crashes>>

JobEnum == {"SIGNUP_DEADLINE", "REMINDER_24H", "REMINDER_PRE_EVENT", "COMP_NAG"}
maxJobAttempts == 3

Job == [kind : JobEnum, gen : Nat, runAt : Int,
        status : {"PENDING", "SENT", "FAILED", "CANCELED"}, attempts : 0..maxJobAttempts,
        reason : SkipReasons \union {NULL}]
Note == [kind : JobEnum, gen : Nat, target : {"USER", "ROLE", "CHANNEL"}, startsAt : Nat]
          \union [kind : {"EVENT_CREATED", "EVENT_CHANGED"}]
Event == [startsAt : Nat, deadline : Nat, lead : Nat \union {NULL},
          channel : BOOLEAN, message : BOOLEAN]
NoTick == [todo |-> {}, done |-> {}, notes |-> {}]

TypeOK ==
  /\ now \in 0..Horizon
  /\ stage \in {"unborn", "live", "gone"}
  /\ event \in Event
  /\ jobs \subseteq Job
  /\ tick \in [Workers -> [todo : SUBSET Job, done : SUBSET Job, notes : SUBSET Note]]
  /\ queued \subseteq Note
  /\ edits \in 0..MaxEdits
  /\ crashes \in 0..MaxCrashes

-----------------------------------------------------------------------------
(* The schedule.                                                           *)

Candidates(startsAt, deadline, lead) ==
  {[kind |-> "SIGNUP_DEADLINE", runAt |-> deadline],
   [kind |-> "REMINDER_24H", runAt |-> startsAt - Day]}
  \union (IF lead > 0 THEN {[kind |-> "REMINDER_PRE_EVENT", runAt |-> startsAt - lead]} ELSE {})

\* MUTANT: what is already past is scheduled too, and runs at once.
jobsFor_Retroactive(startsAt, deadline, lead, at) == Candidates(startsAt, deadline, lead)

\* Only what still lies ahead.
jobsFor(startsAt, deadline, lead, at) ==
  {c \in Candidates(startsAt, deadline, lead) : c.runAt > at}

NewJob(c, gen) == [kind |-> c.kind, gen |-> gen, runAt |-> c.runAt, status |-> "PENDING",
                   attempts |-> 0, reason |-> NULL]

\* scheduleJobs: one INSERT per job jobsFor gives.
scheduleJobs(startsAt, deadline, lead, gen) ==
  {NewJob(c, gen) : c \in jobsFor(startsAt, deadline, lead, now)}

SameRow(i, j) == i.kind = j.kind /\ i.gen = j.gen

\* MUTANT: an edit adds the new schedule beside the old one.
CancelJobs_Forgotten(rows) == rows

CancelJobs(rows) ==
  {IF j.status = "PENDING" THEN [j EXCEPT !.status = "CANCELED"] ELSE j : j \in rows}

\* A row some worker's open transaction holds FOR UPDATE.
Claimed(j) == \E w \in Workers : \E i \in tick[w].todo \union tick[w].done : SameRow(i, j)

\* MUTANT: the edit does not wait for a worker's transaction.
RowsFree_NoWait == TRUE

RowsFree == \A j \in jobs : ~Claimed(j)

-----------------------------------------------------------------------------
(* The event.                                                              *)

\* An event older than the lead column: no stored lead, a reminder an hour before,
\* and a COMP_NAG nothing sends any more.
Legacy(startsAt, deadline) ==
  /\ stage = "live"
  /\ event = [startsAt |-> startsAt, deadline |-> deadline, lead |-> NULL,
              channel |-> TRUE, message |-> TRUE]
  /\ jobs = {NewJob([kind |-> "REMINDER_PRE_EVENT", runAt |-> startsAt - 1], 0),
             NewJob([kind |-> "COMP_NAG", runAt |-> deadline], 0)}

Init ==
  /\ now = 0
  /\ \/ \E s, d \in Times : Legacy(s, d)
     \/ /\ stage = "unborn"
        /\ event = [startsAt |-> 0, deadline |-> 0, lead |-> NULL,
                    channel |-> FALSE, message |-> FALSE]
        /\ jobs = {}
  /\ tick = [w \in Workers |-> NoTick]
  /\ queued = {}
  /\ edits = 0
  /\ crashes = 0

\* The lead is resolved and stored now, so a later change of the guild's default
\* cannot re-time a raid that is already posted.
CreateEvent(startsAt, deadline, lead, announce) ==
  LET resolved == IF lead = NULL THEN GuildLead ELSE lead
  IN /\ stage = "unborn"
     /\ stage' = "live"
     /\ event' = [startsAt |-> startsAt, deadline |-> deadline, lead |-> resolved,
                  channel |-> FALSE, message |-> FALSE]
     /\ jobs' = scheduleJobs(startsAt, deadline, resolved, 0)
     /\ queued' = IF announce THEN {[kind |-> "EVENT_CREATED"]} ELSE {}
     /\ UNCHANGED <<now, tick, edits, crashes>>

Given(new, old) == IF new = KEEP THEN old ELSE new

\* A partial edit.  in.shown: it names a field raiders see besides the times.
UpdateEvent(in) ==
  LET row == [startsAt |-> Given(in.startsAt, event.startsAt),
              deadline |-> Given(in.deadline, event.deadline),
              lead |-> Given(in.lead, event.lead),
              channel |-> event.channel \/ in.channel,
              message |-> event.message \/ in.message]
      reschedules == <<in.startsAt, in.deadline, in.lead>> # <<KEEP, KEEP, KEEP>>
      lead == IF row.lead = NULL THEN DefaultLead ELSE row.lead
  IN /\ stage = "live"
     /\ event' = row
     /\ IF reschedules
        THEN /\ RowsFree
             /\ edits < MaxEdits
             /\ edits' = edits + 1
             /\ jobs' = CancelJobs(jobs)
                          \union scheduleJobs(row.startsAt, row.deadline, lead, edits + 1)
        ELSE UNCHANGED <<jobs, edits>>
     /\ queued' = IF (reschedules \/ in.shown) /\ row.channel /\ row.message
                  THEN {[kind |-> "EVENT_CHANGED"]} ELSE {}
     /\ UNCHANGED <<now, stage, tick, crashes>>

\* The cascade deletes the event's jobs, and so waits for a worker that holds one.
DeleteEvent ==
  /\ stage = "live"
  /\ RowsFree
  /\ stage' = "gone"
  /\ jobs' = {}
  /\ queued' = {}
  /\ UNCHANGED <<now, event, tick, edits, crashes>>

Clock ==
  /\ now < Horizon
  /\ now' = now + 1
  /\ queued' = {}
  /\ UNCHANGED <<stage, event, jobs, tick, edits, crashes>>

-----------------------------------------------------------------------------
(* The worker.                                                             *)

\* MUTANT: the claim forgets SKIP LOCKED and reads the rows another worker holds.
Due_NotLocked == {j \in jobs : j.status = "PENDING" /\ j.runAt <= now}

Due == {j \in jobs : j.status = "PENDING" /\ j.runAt <= now /\ ~Claimed(j)}

\* RunDue opens its transaction with the oldest BatchLimit due rows.
ClaimDueJobs(w) ==
  /\ tick[w] = NoTick
  /\ \E batch \in (SUBSET Due) \ {{}} :
       /\ Cardinality(batch) <= BatchLimit
       /\ Cardinality(batch) = BatchLimit \/ batch = Due
       /\ \A j \in batch, i \in Due \ batch : j.runAt <= i.runAt
       /\ tick' = [tick EXCEPT ![w].todo = batch]
  /\ queued' = {}
  /\ UNCHANGED <<now, stage, event, jobs, edits, crashes>>

\* buildNotifications: whom the job addresses, by its kind, given whether anybody is
\* undecided or attending and how the guild wants reminders delivered.  Nobody is a
\* skip, for the reason Skip gives.
Targets(kind, anyone, delivery) ==
  CASE kind = "SIGNUP_DEADLINE" -> IF event.channel THEN {"ROLE"} ELSE {}
    [] kind = "REMINDER_24H" -> IF anyone THEN {"USER"} ELSE {}
    [] kind = "REMINDER_PRE_EVENT" ->
         IF ~anyone THEN {}
         ELSE {t \in {"CHANNEL", "USER"} :
                 \/ t = "CHANNEL" /\ delivery # "DM" /\ event.channel
                 \/ t = "USER" /\ delivery # "PING"}
    [] kind = "COMP_NAG" -> {}

Skip(kind, anyone) ==
  CASE kind = "COMP_NAG" -> "kind_retired"
    [] kind = "REMINDER_24H" \/ (kind = "REMINDER_PRE_EVENT" /\ ~anyone) -> "no_recipients"
    [] OTHER -> "no_channel"

NotesOf(j, targets) ==
  {[kind |-> j.kind, gen |-> j.gen, target |-> t, startsAt |-> event.startsAt] : t \in targets}

Resolved(w, j, row, notes) ==
  /\ tick' = [tick EXCEPT ![w] = [todo |-> @.todo \ {j}, done |-> @.done \union {row},
                                  notes |-> @.notes \union notes]]
  /\ queued' = {}
  /\ UNCHANGED <<now, stage, event, jobs, edits, crashes>>

\* ORDER BY run_at.
OldestLeft(w, j) == j \in tick[w].todo /\ \A i \in tick[w].todo : j.runAt <= i.runAt

\* MUTANT: the skip writes its reason and leaves the job pending.
MarkJobSkipped_Pending(j, reason) == [j EXCEPT !.reason = reason]

MarkJobSkipped(j, reason) == [j EXCEPT !.status = "SENT", !.reason = reason]

MarkJobSent(j) == [j EXCEPT !.status = "SENT"]

\* The notifications and MarkJobSent, or nobody to tell and MarkJobSkipped.
Resolve(w, j, anyone, delivery) ==
  LET targets == Targets(j.kind, anyone, delivery)
  IN /\ OldestLeft(w, j)
     /\ Resolved(w, j,
                 IF targets = {} THEN MarkJobSkipped(j, Skip(j.kind, anyone)) ELSE MarkJobSent(j),
                 NotesOf(j, targets))

GiveUp(j) == j.attempts + 1 >= maxJobAttempts

\* A resolution error is recorded on the row and the tick goes on.
ResolveFails(w, j) ==
  /\ OldestLeft(w, j)
  /\ Resolved(w, j,
              [j EXCEPT !.status = IF GiveUp(j) THEN "FAILED" ELSE "PENDING",
                        !.attempts = @ + 1],
              {})

TickCommit(w) ==
  /\ tick[w].todo = {}
  /\ tick[w].done # {}
  /\ jobs' = {j \in jobs : ~\E i \in tick[w].done : SameRow(i, j)} \union tick[w].done
  /\ queued' = tick[w].notes
  /\ tick' = [tick EXCEPT ![w] = NoTick]
  /\ UNCHANGED <<now, stage, event, edits, crashes>>

\* A crash, or a statement that fails: Postgres refuses every later one of the
\* transaction, MarkJobFailed included, so the whole tick is rolled back.
TickAborts(w) ==
  /\ tick[w] # NoTick
  /\ crashes < MaxCrashes
  /\ crashes' = crashes + 1
  /\ tick' = [tick EXCEPT ![w] = NoTick]
  /\ queued' = {}
  /\ UNCHANGED <<now, stage, event, jobs, edits>>

-----------------------------------------------------------------------------
(* What a client is told.                                                  *)

PreEventJobs == {j \in jobs : j.kind = "REMINDER_PRE_EVENT"}

\* MUTANT: the newest row is reported, canceled or not.
Before_ByTimeOnly(i, j) == i.runAt > j.runAt

\* GetPreEventReminderJob's ORDER BY: CANCELED last, then the latest run_at.
Before(i, j) ==
  \/ i.status # "CANCELED" /\ j.status = "CANCELED"
  \/ (i.status = "CANCELED" <=> j.status = "CANCELED") /\ i.runAt > j.runAt

ReportedJob == CHOOSE j \in PreEventJobs : \A i \in PreEventJobs : ~Before(i, j)

ReportedLead == IF event.lead = NULL THEN GuildLead ELSE event.lead

ReminderState ==
  IF PreEventJobs = {} THEN IF ReportedLead = 0 THEN "OFF" ELSE "SKIPPED"
  ELSE LET j == ReportedJob
       IN CASE j.status = "PENDING" -> "SCHEDULED"
            [] j.status = "SENT" -> IF j.reason = NULL THEN "SENT" ELSE "SKIPPED"
            [] j.status = "FAILED" -> "FAILED"
            [] j.status = "CANCELED" -> "SKIPPED"

-----------------------------------------------------------------------------
WorkerStep(w) ==
  \/ ClaimDueJobs(w)
  \/ \E j \in tick[w].todo :
       \/ \E anyone \in BOOLEAN, delivery \in {"PING", "DM", "BOTH"} : Resolve(w, j, anyone, delivery)
       \/ ResolveFails(w, j)
  \/ TickCommit(w)

Next ==
  \/ Clock
  \/ \E s, d \in Times, lead \in Leads \union {NULL}, announce \in BOOLEAN :
       CreateEvent(s, d, lead, announce)
  \/ \E in \in Edits : UpdateEvent(in)
  \/ DeleteEvent
  \/ \E w \in Workers : WorkerStep(w) \/ TickAborts(w)

Spec == Init /\ [][Next]_vars

\* Each worker keeps polling and finishes the ticks it starts; nothing obliges a
\* raid lead to edit, or the clock to go on.
FairSpec == Spec /\ \A w \in Workers : WF_vars(WorkerStep(w))

-----------------------------------------------------------------------------
(* Properties.                                                             *)

\* What is pending is the event's current schedule: at most one job of a kind, due
\* when the event as stored says.  A legacy event has a stored lead only from its
\* next edit of the lead on.
PendingMatchesEvent ==
  \A j \in jobs : j.status = "PENDING" /\ j.kind # "COMP_NAG" =>
    /\ \A i \in jobs : i.status = "PENDING" /\ i.kind = j.kind => i = j
    /\ \/ j.kind = "REMINDER_PRE_EVENT" /\ event.lead = NULL
       \/ [kind |-> j.kind, runAt |-> j.runAt]
            \in Candidates(event.startsAt, event.deadline,
                           IF event.lead = NULL THEN DefaultLead ELSE event.lead)

\* A reminder that goes out names the start the event has at that moment, and is not
\* early for it, whatever edit raced the worker (design.md section 6).
NoStaleReminder ==
  [][\A n \in queued' : n.kind \in JobEnum =>
       /\ n.startsAt = event.startsAt
       /\ \E j \in jobs : SameRow(j, n) /\ j.runAt <= now]_vars

\* No job is told twice and none is told unmarked: its notifications are inserted by
\* the transaction that turns it from PENDING to SENT, with two workers polling and
\* either of them crashing ("multiple instances don't double-send").
TellsOnce ==
  [][/\ \A n \in queued' : n.kind \in JobEnum =>
          /\ \E j \in jobs : SameRow(j, n) /\ j.status = "PENDING"
          /\ \E j \in jobs' : SameRow(j, n) /\ j.status = "SENT" /\ j.reason = NULL
     /\ \A j \in jobs' \ jobs : j.status = "SENT" /\ j.reason = NULL =>
          \E n \in queued' : n.kind \in JobEnum /\ SameRow(j, n)]_vars

\* No moment of the schedule is told twice, however often it is edited away and back:
\* a past run_at is never scheduled again (jobsFor).
OncePerMoment ==
  \A i, j \in jobs :
    i.kind = j.kind /\ i.runAt = j.runAt /\ i.status = "SENT" /\ j.status \in {"SENT", "PENDING"}
      => i = j

\* A client is told SCHEDULED exactly when a reminder is coming, and of that one, not of
\* one an edit canceled or an earlier schedule sent (GetPreEventReminderJob's ORDER BY).
ReportsThePending ==
  /\ \A j \in PreEventJobs : j.status = "PENDING" => ReportedJob = j
  /\ ReminderState = "SCHEDULED" <=> \E j \in PreEventJobs : j.status = "PENDING"

\* A due job is sent, skipped, failed or canceled in the end.
DueGetsResolved ==
  \A kind \in JobEnum :
    LET Waiting == \E j \in jobs : j.kind = kind /\ j.status = "PENDING" /\ j.runAt <= now
    IN Waiting ~> ~Waiting
=============================================================================
