-------------------------- MODULE ReminderJobsProofs --------------------------
(***************************************************************************)
(* Proofs, for any number of workers, any schedule, any edits and any      *)
(* number of lost ticks, that what is pending is the event's schedule,     *)
(* that a reminder is told once and not of a start the event no longer     *)
(* has, and that a client is told of the one that is coming.               *)
(***************************************************************************)
EXTENDS ReminderJobs, WellFoundedInduction, TLAPS

Told(j) == j.status \in {"SENT", "FAILED"}
Tick == [todo : SUBSET Job, done : SUBSET Job, notes : SUBSET Note]
JobNote == [kind : JobEnum, gen : Nat, target : {"USER", "ROLE", "CHANNEL"}, startsAt : Nat]

\* The lead the schedule was made with.
LeadUsed == IF event.lead = NULL THEN DefaultLead ELSE event.lead

\* A pending job's place in the schedule.
Matches(j) ==
  \/ j.kind \in {"COMP_NAG"}
  \/ j.kind = "REMINDER_PRE_EVENT" /\ event.lead = NULL
  \/ [kind |-> j.kind, runAt |-> j.runAt] \in Candidates(event.startsAt, event.deadline, LeadUsed)

-----------------------------------------------------------------------------
(* The schedule.                                                           *)

\* A schedule has one job of a kind, ahead of the clock and in its place.
LEMMA ScheduleIs ==
  ASSUME NEW startsAt \in Nat, NEW deadline \in Nat, NEW lead \in Nat, NEW gen \in Nat, now \in Nat,
         NEW j \in scheduleJobs(startsAt, deadline, lead, gen)
  PROVE  /\ j \in Job /\ j.gen = gen /\ j.status = "PENDING" /\ j.runAt > now
         /\ j.attempts = 0 /\ j.reason = NULL
         /\ [kind |-> j.kind, runAt |-> j.runAt] \in Candidates(startsAt, deadline, lead)
         /\ \A i \in scheduleJobs(startsAt, deadline, lead, gen) : i.kind = j.kind => i = j
<1>1. \A c \in Candidates(startsAt, deadline, lead) :
        c \in [kind : JobEnum, runAt : Int]
  BY JobAssumption DEF Candidates, JobEnum
<1>2. \A c, d \in Candidates(startsAt, deadline, lead) : c.kind = d.kind => c = d
  BY DEF Candidates
<1>3. PICK c \in Candidates(startsAt, deadline, lead) : c.runAt > now /\ j = NewJob(c, gen)
  BY DEF scheduleJobs, jobsFor
<1>4. c.kind \in JobEnum /\ c.runAt \in Int /\ c = [kind |-> c.kind, runAt |-> c.runAt]
  BY <1>1
<1>5. /\ j = [kind |-> c.kind, gen |-> gen, runAt |-> c.runAt, status |-> "PENDING",
              attempts |-> 0, reason |-> NULL]
      /\ j.kind = c.kind /\ j.runAt = c.runAt
  BY <1>3 DEF NewJob
<1>6. j \in Job
  BY <1>4, <1>5 DEF Job, maxJobAttempts
<1>7. \A i \in scheduleJobs(startsAt, deadline, lead, gen) : i.kind = j.kind => i = j
  <2> TAKE i \in scheduleJobs(startsAt, deadline, lead, gen)
  <2> HAVE i.kind = j.kind
  <2>1. PICK d \in Candidates(startsAt, deadline, lead) : i = NewJob(d, gen)
    BY DEF scheduleJobs, jobsFor
  <2>2. i.kind = d.kind
    BY <2>1 DEF NewJob
  <2> QED BY <1>2, <1>3, <1>5, <2>1, <2>2
<1>8. j.gen = gen /\ j.status = "PENDING" /\ j.runAt > now /\ j.attempts = 0 /\ j.reason = NULL
  BY <1>3, <1>5
<1>9. [kind |-> j.kind, runAt |-> j.runAt] \in Candidates(startsAt, deadline, lead)
  BY <1>4, <1>5
<1> QED BY <1>6, <1>7, <1>8, <1>9

\* Canceling leaves rows as they were but for what was pending.
LEMMA CanceledIs ==
  ASSUME NEW rows \in SUBSET Job, NEW j \in CancelJobs(rows)
  PROVE  /\ j \in Job /\ j.status # "PENDING"
         /\ \E i \in rows : /\ SameRow(i, j) /\ i.runAt = j.runAt
                            /\ Told(j) => i = j
                            /\ j.status = "CANCELED" \/ i = j
<1>1. PICK i \in rows : j = IF i.status = "PENDING" THEN [i EXCEPT !.status = "CANCELED"] ELSE i
  BY DEF CancelJobs
<1>2. i \in Job
  OBVIOUS
<1>3. CASE i.status = "PENDING"
  BY <1>1, <1>2, <1>3 DEF Job, SameRow, Told
<1>4. CASE i.status # "PENDING"
  BY <1>1, <1>2, <1>4 DEF Job, SameRow, Told
<1> QED BY <1>3, <1>4

\* One row each, before and after.
LEMMA CanceledApart ==
  ASSUME NEW rows \in SUBSET Job, \A i, j \in rows : SameRow(i, j) => i = j
  PROVE  \A i, j \in CancelJobs(rows) : SameRow(i, j) => i = j
<1> TAKE i, j \in CancelJobs(rows)
<1> HAVE SameRow(i, j)
<1>1. PICK k \in rows : i = IF k.status = "PENDING" THEN [k EXCEPT !.status = "CANCELED"] ELSE k
  BY DEF CancelJobs
<1>2. PICK l \in rows : j = IF l.status = "PENDING" THEN [l EXCEPT !.status = "CANCELED"] ELSE l
  BY DEF CancelJobs
<1>3. SameRow(k, i) /\ SameRow(l, j)
  BY <1>1, <1>2 DEF SameRow, Job
<1>4. k = l
  BY <1>3 DEF SameRow
<1> QED BY <1>1, <1>2, <1>4

-----------------------------------------------------------------------------
(* The invariant.                                                          *)

\* The rows: one for a kind and a schedule, one pending of a kind and in its place; what
\* was told lies in the past, behind what is pending of its kind, and at a moment of its
\* own.
RowsApart == \A i, j \in jobs : SameRow(i, j) => i = j
GensPast == \A j \in jobs : j.gen <= edits
OnePending == \A i, j \in jobs : i.status = "PENDING" /\ j.status = "PENDING" /\ i.kind = j.kind => i = j
PendingTimed ==
  \A j \in jobs : j.status = "PENDING" =>
    Matches(j) /\ j.attempts < maxJobAttempts /\ j.reason = NULL
ToldIsPast == \A j \in jobs : Told(j) => j.runAt <= now
ToldBefore ==
  \A i, j \in jobs : i.kind = j.kind /\ Told(i) /\ j.status = "PENDING" => i.runAt < j.runAt
ToldApart == \A i, j \in jobs : i.kind = j.kind /\ Told(i) /\ Told(j) /\ i.runAt = j.runAt => i = j

JobsInv ==
  /\ stage = "unborn" => jobs = {}
  /\ RowsApart /\ GensPast /\ OnePending /\ PendingTimed
  /\ ToldIsPast /\ ToldBefore /\ ToldApart

\* What a tick may make of a job.
Outcome(d, j) ==
  /\ SameRow(d, j) /\ d.runAt = j.runAt
  /\ d.status \in {"SENT", "FAILED", "PENDING"}
  /\ d.status = "PENDING" => d.attempts < maxJobAttempts /\ d.reason = NULL

Due1(j) == j \in jobs /\ j.status = "PENDING" /\ j.runAt <= now

\* A tick's rows are of pending jobs that are due, each once, and its notifications are
\* of those it resolved, of the start the event has.
TodoIsDue(w) == \A j \in tick[w].todo : Due1(j)
DoneIsDue(w) == \A d \in tick[w].done : \E j \in jobs : Due1(j) /\ Outcome(d, j)
OnceEach(w) ==
  /\ \A i, j \in tick[w].done : SameRow(i, j) => i = j
  /\ \A i \in tick[w].todo, d \in tick[w].done : ~SameRow(i, d)
NotesTold(w) ==
  \A n \in tick[w].notes :
    /\ n \in JobNote /\ n.startsAt = event.startsAt
    /\ \E d \in tick[w].done : SameRow(d, n) /\ d.status = "SENT" /\ d.reason = NULL
ToldNoted(w) ==
  \A d \in tick[w].done : d.status = "SENT" /\ d.reason = NULL =>
    \E n \in tick[w].notes : SameRow(d, n)

TickInv(w) == TodoIsDue(w) /\ DoneIsDue(w) /\ OnceEach(w) /\ NotesTold(w) /\ ToldNoted(w)

\* No two ticks hold one row.
TicksApart ==
  \A w, v \in Workers : w # v =>
    \A i \in tick[w].todo \union tick[w].done, j \in tick[v].todo \union tick[v].done : ~SameRow(i, j)

TicksInv == (\A w \in Workers : TickInv(w)) /\ TicksApart

ScheduleInv == TypeOK /\ JobsInv /\ TicksInv

LEMMA TickTyped == TypeOK => tick \in [Workers -> Tick]
  BY DEF TypeOK, Tick

\* A free event has no tick at work on it.
LEMMA FreeIsIdle ==
  ASSUME TicksInv, RowsFree, NEW w \in Workers
  PROVE  tick[w].todo = {} /\ tick[w].done = {} /\ tick[w].notes = {}
<1>1. \A j \in jobs, i \in tick[w].todo \union tick[w].done : ~SameRow(i, j)
  BY DEF RowsFree, Claimed
<1>2. tick[w].todo = {}
  BY <1>1 DEF TicksInv, TickInv, TodoIsDue, Due1, SameRow
<1>3. tick[w].done = {}
  BY <1>1 DEF TicksInv, TickInv, DoneIsDue, Outcome
<1>4. tick[w].notes = {}
  BY <1>3 DEF TicksInv, TickInv, NotesTold
<1> QED BY <1>2, <1>3, <1>4

\* Where there is nothing to hold, no tick holds anything.
LEMMA NoRowsIsFree == jobs = {} => RowsFree
  BY DEF RowsFree

\* Idle ticks stay right whatever happens to the event and its jobs.
LEMMA IdleTicks ==
  ASSUME \A w \in Workers : tick[w].todo = {} /\ tick[w].done = {} /\ tick[w].notes = {}, tick' = tick
  PROVE  TicksInv'
  BY DEF TicksInv, TickInv, TicksApart, TodoIsDue, DoneIsDue, OnceEach, NotesTold, ToldNoted

\* Steps that leave the jobs and the ticks, and the event's times.
LEMMA TicksStand ==
  ASSUME TicksInv, JobsInv, TypeOK, now' \in Nat, now <= now', event'.startsAt = event.startsAt,
         UNCHANGED <<jobs, tick>>
  PROVE  TicksInv'
<1>1. \A j \in jobs : j.runAt \in Int /\ now \in Int
  BY DEF TypeOK, Job
<1>2. \A j : Due1(j) => Due1(j)'
  BY <1>1 DEF Due1
<1>3. TicksApart'
  BY DEF TicksInv, TicksApart
<1>4. ASSUME NEW w \in Workers PROVE TickInv(w)'
  <2>1. TodoIsDue(w)' /\ DoneIsDue(w)'
    BY <1>2 DEF TicksInv, TickInv, TodoIsDue, DoneIsDue, Outcome
  <2>2. OnceEach(w)' /\ NotesTold(w)' /\ ToldNoted(w)'
    BY DEF TicksInv, TickInv, OnceEach, NotesTold, ToldNoted
  <2> QED BY <2>1, <2>2 DEF TickInv
<1> QED BY <1>3, <1>4 DEF TicksInv

LEMMA JobsStand ==
  ASSUME JobsInv, TypeOK, now' \in Nat, now <= now', stage' = stage \/ stage' # "unborn",
         event'.startsAt = event.startsAt, event'.deadline = event.deadline, event'.lead = event.lead,
         UNCHANGED <<jobs, edits>>
  PROVE  JobsInv'
<1>1. \A j \in jobs : j.runAt \in Int /\ now \in Int
  BY DEF TypeOK, Job
<1>2. \A j \in jobs : Matches(j) => Matches(j)'
  BY DEF Matches, LeadUsed, Candidates
<1>3. ToldIsPast'
  BY <1>1 DEF JobsInv, ToldIsPast, Told
<1>4. PendingTimed'
  BY <1>2 DEF JobsInv, PendingTimed
<1> QED BY <1>3, <1>4 DEF JobsInv, RowsApart, GensPast, OnePending, ToldBefore, ToldApart

-----------------------------------------------------------------------------
(* A new schedule.                                                         *)

\* Beside rows none of which is pending, of earlier schedules, a new schedule keeps all
\* that is said of the rows.
LEMMA Rescheduled ==
  ASSUME now \in Nat, NEW old \in SUBSET Job, NEW startsAt \in Nat, NEW deadline \in Nat,
         NEW lead \in Nat, NEW gen \in Nat,
         \A i \in old : i.status # "PENDING" /\ i.gen < gen /\ (Told(i) => i.runAt <= now),
         \A i, j \in old : SameRow(i, j) => i = j,
         \A i, j \in old : i.kind = j.kind /\ Told(i) /\ Told(j) /\ i.runAt = j.runAt => i = j,
         jobs' = old \union scheduleJobs(startsAt, deadline, lead, gen),
         edits' \in Nat, gen <= edits', stage' = "live", now' = now,
         event'.startsAt = startsAt, event'.deadline = deadline, LeadUsed' = lead
  PROVE  JobsInv' /\ jobs' \subseteq Job
<1> DEFINE new == scheduleJobs(startsAt, deadline, lead, gen)
<1>1. \A j \in new : /\ j \in Job /\ j.gen = gen /\ j.status = "PENDING" /\ j.runAt > now
                     /\ j.attempts = 0 /\ j.reason = NULL
                     /\ [kind |-> j.kind, runAt |-> j.runAt] \in Candidates(startsAt, deadline, lead)
                     /\ \A i \in new : i.kind = j.kind => i = j
  <2> TAKE j \in new
  <2> QED BY ScheduleIs
<1> HIDE DEF new
<1>2. \A j \in old \union new : j \in Job /\ j.runAt \in Int /\ j.gen \in Nat
  BY <1>1 DEF Job
<1>3. jobs' = old \union new
  BY DEF new
<1>4. \A j \in jobs' : j.status = "PENDING" <=> j \in new
  BY <1>1, <1>3
<1>5. \A j \in jobs' : Told(j) => j \in old
  BY <1>1, <1>3 DEF Told
<1>6. RowsApart'
  <2> SUFFICES ASSUME NEW i \in old \union new, NEW j \in old \union new, i.kind = j.kind, i.gen = j.gen
               PROVE  i = j
    BY <1>3 DEF RowsApart, SameRow
  <2>1. CASE i \in old /\ j \in old
    BY <2>1 DEF SameRow
  <2>2. CASE i \in new /\ j \in new
    BY <1>1, <2>2
  <2>3. \A k \in old, l \in new : k.gen # l.gen
    <3> TAKE k \in old, l \in new
    <3>1. k.gen < gen /\ l.gen = gen
      BY <1>1
    <3> QED BY <3>1
  <2> QED BY <2>1, <2>2, <2>3
<1>7. GensPast'
  <2> SUFFICES ASSUME NEW j \in old \union new PROVE j.gen <= edits'
    BY <1>3 DEF GensPast
  <2>1. j.gen \in Nat
    BY <1>2
  <2>2. j.gen < gen \/ j.gen = gen
    BY <1>1
  <2> QED BY <2>1, <2>2
<1>8. OnePending'
  BY <1>1, <1>4 DEF OnePending
<1>9. PendingTimed'
  BY <1>1, <1>4 DEF PendingTimed, Matches, maxJobAttempts
<1>10. ToldIsPast' /\ ToldApart'
  BY <1>5 DEF ToldIsPast, ToldApart, Told
<1>11. ToldBefore'
  <2> SUFFICES ASSUME NEW i \in old, NEW j \in new, Told(i) PROVE i.runAt < j.runAt
    BY <1>4, <1>5 DEF ToldBefore, Told
  <2>1. i.runAt \in Int /\ j.runAt \in Int
    BY <1>2
  <2>2. i.runAt <= now
    OBVIOUS
  <2>3. j.runAt > now
    BY <1>1
  <2> QED BY <2>1, <2>2, <2>3
<1> QED BY <1>2, <1>3, <1>6, <1>7, <1>8, <1>9, <1>10, <1>11 DEF JobsInv

LEMMA CreateHolds ==
  ASSUME ScheduleInv, NEW startsAt \in Times, NEW deadline \in Times, NEW lead \in Leads \union {NULL},
         NEW announce \in BOOLEAN, CreateEvent(startsAt, deadline, lead, announce)
  PROVE  JobsInv' /\ TicksInv' /\ jobs' \subseteq Job /\ event' \in Event
<1> DEFINE resolved == IF lead = NULL THEN GuildLead ELSE lead
<1>1. resolved \in Nat /\ startsAt \in Nat /\ deadline \in Nat /\ resolved # NULL /\ now \in Nat
  BY JobAssumption DEF ScheduleInv, TypeOK
<1>2. /\ event' = [startsAt |-> startsAt, deadline |-> deadline, lead |-> resolved,
                   channel |-> FALSE, message |-> FALSE]
      /\ jobs' = {} \union scheduleJobs(startsAt, deadline, resolved, 0)
      /\ stage' = "live" /\ jobs = {} /\ now' = now /\ edits' = edits /\ tick' = tick
  BY DEF CreateEvent, ScheduleInv, JobsInv
<1>3. event'.startsAt = startsAt /\ event'.deadline = deadline /\ LeadUsed' = resolved
  BY <1>1, <1>2 DEF LeadUsed
<1>4. JobsInv' /\ jobs' \subseteq Job
  <2> HIDE DEF resolved
  <2>1. edits' \in Nat /\ 0 <= edits'
    BY <1>2, JobAssumption DEF ScheduleInv, TypeOK
  <2>2. {} \in SUBSET Job /\ 0 \in Nat
    OBVIOUS
  <2> QED BY <1>1, <1>2, <1>3, <2>1, <2>2, Rescheduled
<1>5. TicksInv'
  BY <1>2, NoRowsIsFree, FreeIsIdle, IdleTicks DEF ScheduleInv
<1>6. event' \in Event
  BY <1>1, <1>2 DEF Event
<1> QED BY <1>4, <1>5, <1>6

LEMMA UpdateHolds ==
  ASSUME ScheduleInv, NEW in \in Edits, UpdateEvent(in)
  PROVE  /\ JobsInv' /\ TicksInv' /\ jobs' \subseteq Job /\ event' \in Event
         /\ edits' \in 0..MaxEdits
<1> DEFINE r == event'
           reschedules == <<in.startsAt, in.deadline, in.lead>> # <<KEEP, KEEP, KEEP>>
<1>0. /\ event \in Event /\ now \in Nat /\ edits \in 0..MaxEdits /\ edits \in Nat
      /\ in.startsAt \in Nat \union {KEEP} /\ in.deadline \in Nat \union {KEEP}
      /\ in.lead \in Nat \union {KEEP} /\ in.channel \in BOOLEAN /\ in.message \in BOOLEAN
  <2>1. event \in Event /\ now \in Nat /\ edits \in 0..MaxEdits /\ edits \in Nat
    BY JobAssumption DEF ScheduleInv, TypeOK
  <2>2. in \in [startsAt : Times \union {KEEP}, deadline : Times \union {KEEP},
               lead : Leads \union {KEEP}, shown : BOOLEAN, channel : BOOLEAN, message : BOOLEAN]
    BY JobAssumption
  <2>3. Times \subseteq Nat /\ Leads \subseteq Nat
    BY JobAssumption
  <2> QED BY <2>1, <2>2, <2>3
<1>1. /\ r = [startsAt |-> Given(in.startsAt, event.startsAt), deadline |-> Given(in.deadline, event.deadline),
              lead |-> Given(in.lead, event.lead), channel |-> event.channel \/ in.channel,
              message |-> event.message \/ in.message]
      /\ stage = "live" /\ stage' = stage /\ now' = now /\ tick' = tick
  BY DEF UpdateEvent
<1>2. /\ r.startsAt = Given(in.startsAt, event.startsAt) /\ r.deadline = Given(in.deadline, event.deadline)
      /\ r.lead = Given(in.lead, event.lead)
      /\ r.startsAt \in Nat /\ r.deadline \in Nat /\ r.lead \in Nat \union {NULL}
  BY <1>0, <1>1 DEF Given, Event
<1>3. event' \in Event
  <2>1. (event.channel \/ in.channel) \in BOOLEAN /\ (event.message \/ in.message) \in BOOLEAN
    BY <1>0 DEF Event
  <2> QED BY <1>1, <1>2, <2>1 DEF Event
<1>4. CASE reschedules
  <2> DEFINE lead == IF r.lead = NULL THEN DefaultLead ELSE r.lead
  <2>1. /\ RowsFree /\ edits < MaxEdits /\ edits' = edits + 1
        /\ jobs' = CancelJobs(jobs) \union scheduleJobs(r.startsAt, r.deadline, lead, edits + 1)
    BY <1>1, <1>4 DEF UpdateEvent
  <2>2. TicksInv'
    BY <1>1, <2>1, FreeIsIdle, IdleTicks DEF ScheduleInv
  <2>3. lead \in Nat /\ LeadUsed' = lead /\ edits + 1 \in Nat /\ edits' \in 0..MaxEdits
    BY <1>0, <1>2, <2>1, JobAssumption DEF LeadUsed
  <2>4. jobs \in SUBSET Job /\ CancelJobs(jobs) \in SUBSET Job
    BY CanceledIs DEF ScheduleInv, TypeOK
  <2>5. \A i \in CancelJobs(jobs) :
          i.status # "PENDING" /\ i.gen < edits + 1 /\ (Told(i) => i.runAt <= now)
    <3> TAKE i \in CancelJobs(jobs)
    <3>1. PICK j \in jobs : SameRow(j, i) /\ (Told(i) => j = i)
      BY <2>4, CanceledIs
    <3>2. j.gen <= edits /\ j.gen \in Nat /\ (Told(j) => j.runAt <= now)
      BY <2>4 DEF ScheduleInv, JobsInv, GensPast, ToldIsPast, Job
    <3> QED BY <1>0, <2>4, <3>1, <3>2, CanceledIs DEF SameRow
  <2>6. \A i, j \in CancelJobs(jobs) : SameRow(i, j) => i = j
    BY <2>4, CanceledApart DEF ScheduleInv, JobsInv, RowsApart
  <2>7. \A i \in CancelJobs(jobs) : Told(i) => i \in jobs
    BY <2>4, CanceledIs
  <2>8. \A i, j \in CancelJobs(jobs) :
          i.kind = j.kind /\ Told(i) /\ Told(j) /\ i.runAt = j.runAt => i = j
    BY <2>7 DEF ScheduleInv, JobsInv, ToldApart
  <2>9. JobsInv' /\ jobs' \subseteq Job
    <3> DEFINE old == CancelJobs(jobs)
    <3>1. edits' \in Nat /\ edits + 1 <= edits' /\ stage' = "live"
      BY <1>0, <1>1, <2>1
    <3>2. old \in SUBSET Job /\ jobs' = old \union scheduleJobs(r.startsAt, r.deadline, lead, edits + 1)
      BY <2>1, <2>4
    <3>3. /\ \A i \in old : i.status # "PENDING" /\ i.gen < edits + 1 /\ (Told(i) => i.runAt <= now)
          /\ \A i, j \in old : SameRow(i, j) => i = j
          /\ \A i, j \in old : i.kind = j.kind /\ Told(i) /\ Told(j) /\ i.runAt = j.runAt => i = j
      BY <2>5, <2>6, <2>8
    <3> HIDE DEF lead, old
    <3> QED BY <1>0, <1>1, <1>2, <2>3, <3>1, <3>2, <3>3, Rescheduled
  <2> QED BY <1>3, <2>2, <2>3, <2>9
<1>5. CASE ~reschedules
  <2>1. jobs' = jobs /\ edits' = edits
    BY <1>5 DEF UpdateEvent
  <2>2. r.startsAt = event.startsAt /\ r.deadline = event.deadline /\ r.lead = event.lead
    BY <1>2, <1>5 DEF Given
  <2> QED BY <1>0, <1>1, <1>3, <2>1, <2>2, TicksStand, JobsStand DEF ScheduleInv, TypeOK
<1> QED BY <1>4, <1>5

-----------------------------------------------------------------------------
(* The worker.                                                             *)

\* One worker's tick changes, and what it holds nobody else does.
LEMMA OneTick ==
  ASSUME TypeOK, TicksInv, NEW w \in Workers, NEW t \in Tick, tick' = [tick EXCEPT ![w] = t],
         UNCHANGED <<jobs, event, now>>, TickInv(w)',
         \A v \in Workers \ {w} : \A i \in t.todo \union t.done, j \in tick[v].todo \union tick[v].done :
           ~SameRow(i, j)
  PROVE  TicksInv' /\ tick' \in [Workers -> Tick]
<1>1. tick \in [Workers -> Tick]
  BY TickTyped
<1>2. tick'[w] = t /\ \A v \in Workers \ {w} : tick'[v] = tick[v]
  BY <1>1
<1>3. \A v \in Workers : TickInv(v)'
  <2> SUFFICES ASSUME NEW v \in Workers \ {w} PROVE TickInv(v)'
    OBVIOUS
  <2>1. TickInv(v)
    BY DEF TicksInv
  <2> QED BY <1>2, <2>1 DEF TickInv, TodoIsDue, DoneIsDue, OnceEach, NotesTold, ToldNoted, Due1
<1>4. TicksApart'
  <2> SUFFICES ASSUME NEW u \in Workers, NEW v \in Workers, u # v,
                      NEW i \in tick'[u].todo \union tick'[u].done,
                      NEW j \in tick'[v].todo \union tick'[v].done
               PROVE  ~SameRow(i, j)
    BY DEF TicksApart
  <2>1. CASE u = w
    BY <1>2, <2>1
  <2>2. CASE v = w
    <3>1. ~SameRow(j, i)
      BY <1>2, <2>2
    <3> QED BY <3>1 DEF SameRow
  <2>3. CASE u # w /\ v # w
    BY <1>2, <2>3 DEF TicksInv, TicksApart
  <2> QED BY <2>1, <2>2, <2>3
<1> QED BY <1>1, <1>2, <1>3, <1>4 DEF TicksInv

LEMMA ClaimHolds ==
  ASSUME ScheduleInv, NEW w \in Workers, ClaimDueJobs(w)
  PROVE  TicksInv' /\ tick' \in [Workers -> Tick]
<1>1. tick \in [Workers -> Tick] /\ tick[w] = NoTick
  BY TickTyped DEF ScheduleInv, ClaimDueJobs
<1>2. PICK batch \in (SUBSET Due) \ {{}} : tick' = [tick EXCEPT ![w].todo = batch]
  BY DEF ClaimDueJobs
<1> DEFINE t == [todo |-> batch, done |-> {}, notes |-> {}]
<1>3. tick' = [tick EXCEPT ![w] = t]
  <2>1. tick' = [tick EXCEPT ![w] = [tick[w] EXCEPT !.todo = batch]]
    BY <1>2
  <2>2. [tick[w] EXCEPT !.todo = batch] = t
    BY <1>1 DEF NoTick
  <2> QED BY <2>1, <2>2
<1>4. \A j \in batch : Due1(j) /\ j \in Job /\ ~Claimed(j)
  BY <1>2 DEF Due, Due1, ScheduleInv, TypeOK
<1>5. t \in Tick
  BY <1>4 DEF Tick
<1>6. tick'[w] = t /\ UNCHANGED <<jobs, event, now>>
  BY <1>1, <1>3 DEF ClaimDueJobs
<1>7. TickInv(w)'
  BY <1>4, <1>6 DEF TickInv, TodoIsDue, DoneIsDue, OnceEach, NotesTold, ToldNoted, Due1
<1>8. \A v \in Workers \ {w} : \A i \in t.todo \union t.done, j \in tick[v].todo \union tick[v].done :
        ~SameRow(i, j)
  <2>1. \A i \in batch, v \in Workers : \A j \in tick[v].todo \union tick[v].done : ~SameRow(j, i)
    BY <1>4 DEF Claimed
  <2> QED BY <2>1 DEF SameRow
<1> HIDE DEF t
<1> QED BY <1>3, <1>5, <1>6, <1>7, <1>8, OneTick DEF ScheduleInv

\* A resolved job moves from what is left to what is done, with its notifications or
\* without any.
LEMMA ResolvedHolds ==
  ASSUME ScheduleInv, NEW w \in Workers, NEW j \in tick[w].todo, NEW row \in Job,
         NEW notes \in SUBSET JobNote, Resolved(w, j, row, notes), Outcome(row, j),
         \A n \in notes : n.startsAt = event.startsAt /\ SameRow(row, n),
         (notes # {}) <=> (row.status = "SENT" /\ row.reason = NULL)
  PROVE  TicksInv' /\ tick' \in [Workers -> Tick]
<1>1. tick \in [Workers -> Tick] /\ tick[w] \in Tick
  BY TickTyped DEF ScheduleInv
<1> DEFINE t == [todo |-> tick[w].todo \ {j}, done |-> tick[w].done \union {row},
                 notes |-> tick[w].notes \union notes]
<1>2. tick' = [tick EXCEPT ![w] = t] /\ UNCHANGED <<jobs, event, now>>
  BY DEF Resolved
<1>3. t \in Tick
  <2>1. JobNote \subseteq Note
    BY DEF JobNote, Note
  <2>2. tick[w].todo \subseteq Job /\ tick[w].done \subseteq Job /\ tick[w].notes \subseteq Note
    BY <1>1 DEF Tick
  <2> QED BY <2>1, <2>2 DEF Tick
<1>4. tick'[w] = t
  BY <1>1, <1>2
<1>5. TickInv(w)
  BY DEF ScheduleInv, TicksInv
<1>6. Due1(j) /\ SameRow(row, j)
  BY <1>5 DEF TickInv, TodoIsDue, Outcome
<1>7. \A i \in tick[w].todo : SameRow(i, j) => i = j
  BY <1>5, <1>6 DEF TickInv, TodoIsDue, Due1, ScheduleInv, JobsInv, RowsApart
<1>8. TodoIsDue(w)' /\ DoneIsDue(w)'
  BY <1>2, <1>4, <1>5, <1>6 DEF TickInv, TodoIsDue, DoneIsDue, Due1, Outcome, SameRow
<1>9. OnceEach(w)'
  <2>1. \A d \in tick[w].done : ~SameRow(row, d) /\ ~SameRow(d, row)
    BY <1>5, <1>6 DEF TickInv, OnceEach, SameRow
  <2>2. \A i \in tick[w].todo \ {j} : ~SameRow(i, row)
    BY <1>6, <1>7 DEF SameRow
  <2> QED BY <1>4, <1>5, <2>1, <2>2 DEF TickInv, OnceEach
<1>10. NotesTold(w)'
  <2> SUFFICES ASSUME NEW n \in tick[w].notes \union notes
               PROVE  /\ n \in JobNote /\ n.startsAt = event.startsAt
                      /\ \E d \in t.done : SameRow(d, n) /\ d.status = "SENT" /\ d.reason = NULL
    BY <1>2, <1>4 DEF NotesTold
  <2>1. CASE n \in tick[w].notes
    BY <1>5, <2>1 DEF TickInv, NotesTold
  <2>2. CASE n \in notes
    BY <2>2
  <2> QED BY <2>1, <2>2
<1>11. ToldNoted(w)'
  <2> SUFFICES ASSUME NEW d \in t.done, d.status = "SENT", d.reason = NULL
               PROVE  \E n \in t.notes : SameRow(d, n)
    BY <1>4 DEF ToldNoted
  <2>1. CASE d \in tick[w].done
    BY <1>5, <2>1 DEF TickInv, ToldNoted
  <2>2. CASE d = row
    BY <2>2
  <2> QED BY <2>1, <2>2
<1>12. \A v \in Workers \ {w} : \A i \in t.todo \union t.done, k \in tick[v].todo \union tick[v].done :
         ~SameRow(i, k)
  <2> SUFFICES ASSUME NEW v \in Workers \ {w}, NEW i \in t.todo \union t.done,
                      NEW k \in tick[v].todo \union tick[v].done
               PROVE  ~SameRow(i, k)
    OBVIOUS
  <2>1. \A l \in tick[w].todo \union tick[w].done : ~SameRow(l, k)
    BY DEF ScheduleInv, TicksInv, TicksApart
  <2>2. i \in tick[w].todo \union tick[w].done \/ i = row
    OBVIOUS
  <2> QED BY <1>6, <2>1, <2>2 DEF SameRow
<1>13. TickInv(w)'
  BY <1>8, <1>9, <1>10, <1>11 DEF TickInv
<1> HIDE DEF t
<1> QED BY <1>2, <1>3, <1>12, <1>13, OneTick DEF ScheduleInv

LEMMA ResolveHolds ==
  ASSUME ScheduleInv, NEW w \in Workers, NEW j \in tick[w].todo, NEW anyone \in BOOLEAN,
         NEW delivery \in {"PING", "DM", "BOTH"}, Resolve(w, j, anyone, delivery)
  PROVE  TicksInv' /\ tick' \in [Workers -> Tick]
<1> DEFINE targets == Targets(j.kind, anyone, delivery)
           row == IF targets = {} THEN MarkJobSkipped(j, Skip(j.kind, anyone)) ELSE MarkJobSent(j)
           notes == NotesOf(j, targets)
<1>1. Due1(j) /\ j \in Job /\ event.startsAt \in Nat
  BY DEF ScheduleInv, TicksInv, TickInv, TodoIsDue, Due1, TypeOK, Event
<1>2. j.kind \in JobEnum /\ j.gen \in Nat /\ j.status = "PENDING"
  BY <1>1 DEF Job, Due1
<1>3. j.reason = NULL
  BY <1>1 DEF ScheduleInv, JobsInv, PendingTimed, Due1
<1>4. targets \subseteq {"USER", "ROLE", "CHANNEL"}
  BY <1>2 DEF Targets, JobEnum
<1>5. Skip(j.kind, anyone) \in SkipReasons /\ Skip(j.kind, anyone) # NULL
  BY <1>2, JobAssumption DEF Skip, SkipReasons, JobEnum
<1> HIDE DEF targets
<1>6. row \in Job /\ Outcome(row, j)
  BY <1>1, <1>2, <1>5 DEF MarkJobSkipped, MarkJobSent, Job, Outcome, SameRow
<1>7. \A n \in notes : n \in JobNote /\ n.startsAt = event.startsAt /\ n.kind = j.kind /\ n.gen = j.gen
  BY <1>1, <1>2, <1>4 DEF NotesOf, JobNote
<1>8. \A n \in notes : SameRow(row, n)
  BY <1>6, <1>7 DEF Outcome, SameRow
<1>9. (notes # {}) <=> (targets # {})
  BY DEF NotesOf
<1>10. row.status = "SENT" /\ (row.reason = NULL <=> targets # {})
  BY <1>1, <1>3, <1>5 DEF MarkJobSkipped, MarkJobSent, Job
<1>11. Resolved(w, j, row, notes)
  BY DEF Resolve, targets
<1>12. notes \in SUBSET JobNote
  BY <1>7
<1> HIDE DEF row, notes
<1> QED BY <1>6, <1>7, <1>8, <1>9, <1>10, <1>11, <1>12, ResolvedHolds

LEMMA ResolveFailsHolds ==
  ASSUME ScheduleInv, NEW w \in Workers, NEW j \in tick[w].todo, ResolveFails(w, j)
  PROVE  TicksInv' /\ tick' \in [Workers -> Tick]
<1> DEFINE row == [j EXCEPT !.status = IF GiveUp(j) THEN "FAILED" ELSE "PENDING",
                            !.attempts = @ + 1]
<1>1. Due1(j) /\ j \in Job
  BY DEF ScheduleInv, TicksInv, TickInv, TodoIsDue, Due1, TypeOK
<1>2. j.attempts \in 0..3 /\ j.attempts < 3 /\ j.reason = NULL
  BY <1>1 DEF ScheduleInv, JobsInv, PendingTimed, Due1, Job, maxJobAttempts
<1>3. /\ row.kind = j.kind /\ row.gen = j.gen /\ row.runAt = j.runAt /\ row.reason = j.reason
      /\ row.attempts = j.attempts + 1
      /\ row.status = IF GiveUp(j) THEN "FAILED" ELSE "PENDING"
  BY <1>1 DEF Job
<1>4. row \in Job
  <2>1. \A s \in {"PENDING", "FAILED"}, n \in 0..maxJobAttempts :
          [j EXCEPT !.status = s, !.attempts = n] \in Job
    BY <1>1 DEF Job
  <2>2. j.attempts + 1 \in 0..maxJobAttempts
    BY <1>2 DEF maxJobAttempts
  <2>3. CASE GiveUp(j)
    BY <2>1, <2>2, <2>3
  <2>4. CASE ~GiveUp(j)
    BY <2>1, <2>2, <2>4
  <2> QED BY <2>3, <2>4
<1>5. Outcome(row, j)
  BY <1>2, <1>3 DEF Outcome, SameRow, GiveUp, maxJobAttempts
<1>6. Resolved(w, j, row, {}) /\ row.status # "SENT"
  BY <1>3 DEF ResolveFails
<1> HIDE DEF row
<1> QED BY <1>4, <1>5, <1>6, ResolvedHolds

LEMMA AbortHolds ==
  ASSUME ScheduleInv, NEW w \in Workers, tick' = [tick EXCEPT ![w] = NoTick],
         UNCHANGED <<jobs, event, now>>
  PROVE  TicksInv' /\ tick' \in [Workers -> Tick]
<1>1. tick \in [Workers -> Tick]
  BY TickTyped DEF ScheduleInv
<1>2. tick'[w] = NoTick /\ NoTick \in Tick /\ NoTick.todo \union NoTick.done = {}
  BY <1>1 DEF NoTick, Tick
<1>3. TickInv(w)'
  BY <1>2 DEF NoTick, TickInv, TodoIsDue, DoneIsDue, OnceEach, NotesTold, ToldNoted
<1> QED BY <1>2, <1>3, OneTick DEF ScheduleInv

-----------------------------------------------------------------------------
(* The commit.                                                             *)

\* Where a row of the committed table comes from: it stood there, or a due job became it.
LEMMA Origin ==
  ASSUME ScheduleInv, NEW w \in Workers, TickCommit(w), NEW r \in jobs'
  PROVE  \E j \in jobs : /\ SameRow(r, j) /\ r.runAt = j.runAt
                        /\ \/ r = j /\ \A d \in tick[w].done : ~SameRow(r, d)
                           \/ r \in tick[w].done /\ Due1(j) /\ Outcome(r, j)
<1>1. CASE r \in tick[w].done
  <2>1. PICK j \in jobs : Due1(j) /\ Outcome(r, j)
    BY <1>1 DEF ScheduleInv, TicksInv, TickInv, DoneIsDue
  <2> QED BY <1>1, <2>1 DEF Outcome
<1>2. CASE r \notin tick[w].done
  BY <1>2 DEF TickCommit, SameRow
<1> QED BY <1>1, <1>2

LEMMA CommitKeepsJobs ==
  ASSUME ScheduleInv, NEW w \in Workers, TickCommit(w)
  PROVE  JobsInv' /\ jobs' \subseteq Job
<1>1. now' = now /\ edits' = edits /\ stage' = stage /\ event' = event /\ jobs \subseteq Job
  BY DEF TickCommit, ScheduleInv, TypeOK
<1>2. jobs' \subseteq Job
  <2>1. tick[w].done \subseteq Job
    BY TickTyped DEF ScheduleInv, Tick
  <2> QED BY <1>1, <2>1 DEF TickCommit
<1>3. RowsApart'
  <2> SUFFICES ASSUME NEW i \in jobs', NEW j \in jobs', SameRow(i, j) PROVE i = j
    BY DEF RowsApart
  <2>1. CASE i \in tick[w].done /\ j \in tick[w].done
    BY <2>1 DEF ScheduleInv, TicksInv, TickInv, OnceEach
  <2>2. CASE i \in jobs /\ j \in jobs /\ i \notin tick[w].done /\ j \notin tick[w].done
    BY <2>2 DEF ScheduleInv, JobsInv, RowsApart
  <2>3. CASE i \in tick[w].done /\ j \notin tick[w].done
    BY <2>3 DEF TickCommit, SameRow
  <2>4. CASE i \notin tick[w].done /\ j \in tick[w].done
    BY <2>4 DEF TickCommit, SameRow
  <2> QED BY <2>1, <2>2, <2>3, <2>4 DEF TickCommit
<1>4. GensPast'
  BY <1>1, Origin DEF GensPast, ScheduleInv, JobsInv, SameRow
<1>5. OnePending'
  <2> SUFFICES ASSUME NEW i \in jobs', NEW j \in jobs', i.status = "PENDING", j.status = "PENDING",
                      i.kind = j.kind
               PROVE  i = j
    BY DEF OnePending
  <2>1. PICK k \in jobs : SameRow(i, k) /\ k.status = "PENDING"
    BY Origin DEF Due1
  <2>2. PICK l \in jobs : SameRow(j, l) /\ l.status = "PENDING"
    BY Origin DEF Due1
  <2>3. k = l
    BY <2>1, <2>2 DEF ScheduleInv, JobsInv, OnePending, SameRow
  <2>4. SameRow(i, j)
    BY <2>1, <2>2, <2>3 DEF SameRow
  <2> QED BY <1>3, <2>4 DEF RowsApart
<1>6. PendingTimed'
  <2> SUFFICES ASSUME NEW j \in jobs', j.status = "PENDING"
               PROVE  Matches(j) /\ j.attempts < maxJobAttempts /\ j.reason = NULL
    BY <1>1 DEF PendingTimed, Matches, LeadUsed
  <2>1. PICK k \in jobs : /\ SameRow(j, k) /\ j.runAt = k.runAt /\ k.status = "PENDING"
                          /\ j = k \/ Outcome(j, k)
    BY Origin DEF Due1
  <2>2. Matches(k) /\ k.attempts < maxJobAttempts /\ k.reason = NULL
    BY <2>1 DEF ScheduleInv, JobsInv, PendingTimed
  <2> QED BY <2>1, <2>2 DEF Matches, SameRow, Outcome
<1>7. ToldIsPast'
  <2> SUFFICES ASSUME NEW j \in jobs', Told(j) PROVE j.runAt <= now
    BY <1>1 DEF ToldIsPast
  <2>1. PICK k \in jobs : j.runAt = k.runAt /\ (j = k \/ Due1(k))
    BY Origin
  <2> QED BY <2>1 DEF ScheduleInv, JobsInv, ToldIsPast, Due1
<1>8. ToldBefore'
  <2> SUFFICES ASSUME NEW i \in jobs', NEW j \in jobs', i.kind = j.kind, Told(i), j.status = "PENDING"
               PROVE  i.runAt < j.runAt
    BY DEF ToldBefore, Told
  <2>1. PICK k \in jobs : SameRow(i, k) /\ i.runAt = k.runAt /\ (i = k \/ k.status = "PENDING")
    BY Origin DEF Due1
  <2>2. PICK l \in jobs : SameRow(j, l) /\ j.runAt = l.runAt /\ l.status = "PENDING"
    BY Origin DEF Due1
  <2>3. k.kind = l.kind
    BY <2>1, <2>2 DEF SameRow
  <2>4. CASE Told(k)
    BY <2>1, <2>2, <2>3, <2>4 DEF ScheduleInv, JobsInv, ToldBefore
  <2>5. CASE k.status = "PENDING"
    <3>1. k = l
      BY <2>2, <2>3, <2>5 DEF ScheduleInv, JobsInv, OnePending
    <3>2. i = j
      BY <1>3, <2>1, <2>2, <3>1 DEF RowsApart, SameRow
    <3> QED BY <3>2 DEF Told
  <2> QED BY <2>1, <2>4, <2>5
<1>9. ToldApart'
  <2> SUFFICES ASSUME NEW i \in jobs', NEW j \in jobs', i.kind = j.kind, Told(i), Told(j),
                      i.runAt = j.runAt
               PROVE  i = j
    BY DEF ToldApart, Told
  <2>1. PICK k \in jobs : SameRow(i, k) /\ i.runAt = k.runAt /\ (Told(k) \/ k.status = "PENDING")
    BY Origin DEF Due1
  <2>2. PICK l \in jobs : SameRow(j, l) /\ j.runAt = l.runAt /\ (Told(l) \/ l.status = "PENDING")
    BY Origin DEF Due1
  <2>3. k.kind = l.kind /\ k.runAt = l.runAt /\ k.runAt \in Int
    BY <1>1, <2>1, <2>2 DEF SameRow, Job
  <2>4. ~(Told(k) /\ l.status = "PENDING") /\ ~(Told(l) /\ k.status = "PENDING")
    BY <2>3 DEF ScheduleInv, JobsInv, ToldBefore
  <2>5. k = l
    BY <2>1, <2>2, <2>3, <2>4 DEF ScheduleInv, JobsInv, ToldApart, OnePending
  <2> QED BY <1>3, <2>1, <2>2, <2>5 DEF RowsApart, SameRow
<1>10. stage' = "unborn" => jobs' = {}
  <2> SUFFICES ASSUME stage = "unborn", NEW r \in jobs' PROVE FALSE
    BY <1>1
  <2>1. jobs = {}
    BY DEF ScheduleInv, JobsInv
  <2> QED BY <2>1, Origin
<1> QED BY <1>2, <1>3, <1>4, <1>5, <1>6, <1>7, <1>8, <1>9, <1>10 DEF JobsInv

\* The rows another tick holds are none of those committed.
LEMMA CommitKeepsTicks ==
  ASSUME ScheduleInv, NEW w \in Workers, TickCommit(w)
  PROVE  TicksInv' /\ tick' \in [Workers -> Tick]
<1>1. tick \in [Workers -> Tick] /\ tick' = [tick EXCEPT ![w] = NoTick]
  BY TickTyped DEF ScheduleInv, TickCommit
<1>2. NoTick \in Tick /\ tick'[w] = NoTick /\ \A v \in Workers \ {w} : tick'[v] = tick[v]
  BY <1>1 DEF NoTick, Tick
<1>3. now' = now /\ event' = event
  BY DEF TickCommit
<1>4. TickInv(w)'
  BY <1>2 DEF NoTick, TickInv, TodoIsDue, DoneIsDue, OnceEach, NotesTold, ToldNoted
<1>5. ASSUME NEW v \in Workers \ {w}
      PROVE  TickInv(v)'
  <2>1. TickInv(v) /\ tick'[v] = tick[v]
    BY <1>2 DEF ScheduleInv, TicksInv
  <2>2. \A i \in tick[v].todo \union tick[v].done, d \in tick[w].done : ~SameRow(i, d)
    BY DEF ScheduleInv, TicksInv, TicksApart
  <2>3. ASSUME NEW j, Due1(j), \A d \in tick[w].done : ~SameRow(j, d)
        PROVE  Due1(j)'
    <3>1. j \in jobs /\ \A d \in tick[w].done : ~SameRow(d, j)
      BY <2>3 DEF Due1, SameRow
    <3>2. j \in jobs'
      BY <3>1 DEF TickCommit
    <3> QED BY <1>3, <2>3, <3>2 DEF Due1
  <2>4. TodoIsDue(v)'
    BY <2>1, <2>2, <2>3 DEF TickInv, TodoIsDue
  <2>5. DoneIsDue(v)'
    <3> SUFFICES ASSUME NEW d \in tick[v].done
                 PROVE  \E j \in jobs' : Due1(j)' /\ Outcome(d, j)
      BY <2>1 DEF DoneIsDue, Outcome
    <3>1. PICK j \in jobs : Due1(j) /\ Outcome(d, j)
      BY <2>1 DEF TickInv, DoneIsDue
    <3>2. \A i \in tick[w].done : ~SameRow(j, i)
      BY <2>2, <3>1 DEF Outcome, SameRow
    <3>3. Due1(j)' /\ j \in jobs'
      BY <2>3, <3>1, <3>2 DEF Due1
    <3> QED BY <3>1, <3>3
  <2>6. OnceEach(v)' /\ NotesTold(v)' /\ ToldNoted(v)'
    BY <1>3, <2>1 DEF TickInv, OnceEach, NotesTold, ToldNoted
  <2> QED BY <2>4, <2>5, <2>6 DEF TickInv
<1>6. TicksApart'
  <2> SUFFICES ASSUME NEW u \in Workers, NEW v \in Workers, u # v,
                      NEW i \in tick'[u].todo \union tick'[u].done,
                      NEW j \in tick'[v].todo \union tick'[v].done
               PROVE  ~SameRow(i, j)
    BY DEF TicksApart
  <2>1. u # w /\ v # w
    BY <1>2 DEF NoTick
  <2> QED BY <1>2, <2>1 DEF ScheduleInv, TicksInv, TicksApart
<1> QED BY <1>1, <1>2, <1>4, <1>5, <1>6 DEF TicksInv

-----------------------------------------------------------------------------
(* The invariant holds.                                                    *)

LEMMA InitHolds == Init => ScheduleInv
<1> SUFFICES ASSUME Init PROVE ScheduleInv
  OBVIOUS
<1>1. \A w \in Workers : tick[w] = NoTick
  BY DEF Init
<1>2. TicksInv
  BY <1>1 DEF NoTick, TicksInv, TickInv, TicksApart, TodoIsDue, DoneIsDue, OnceEach, NotesTold, ToldNoted
<1>3. tick \in [Workers -> Tick] /\ now = 0 /\ queued = {} /\ edits = 0 /\ crashes = 0
  BY DEF Init, NoTick, Tick
<1>4. CASE \E s, d \in Times : Legacy(s, d)
  <2>1. PICK s \in Times, d \in Times : Legacy(s, d)
    BY <1>4
  <2>2. s \in Nat /\ d \in Nat
    BY JobAssumption
  <2>3. event \in Event /\ event.lead = NULL /\ stage = "live"
    BY <2>1, <2>2 DEF Legacy, Event
  <2>4. \A j \in jobs : /\ j \in Job /\ j.status = "PENDING" /\ j.gen = 0 /\ j.attempts = 0
                        /\ j.reason = NULL /\ j.kind \in {"REMINDER_PRE_EVENT", "COMP_NAG"}
    BY <2>1, <2>2 DEF Legacy, NewJob, Job, JobEnum, maxJobAttempts
  <2>5. \A i, j \in jobs : i.kind = j.kind => i = j
    BY <2>1 DEF Legacy, NewJob
  <2>6. RowsApart /\ OnePending /\ ToldIsPast /\ ToldBefore /\ ToldApart
    BY <2>4, <2>5 DEF RowsApart, OnePending, ToldIsPast, ToldBefore, ToldApart, Told, SameRow
  <2>7. GensPast /\ PendingTimed
    BY <1>3, <2>3, <2>4 DEF GensPast, PendingTimed, Matches, maxJobAttempts
  <2> QED BY <1>2, <1>3, <2>3, <2>4, <2>6, <2>7, JobAssumption DEF ScheduleInv, JobsInv, TypeOK, Tick
<1>5. CASE stage = "unborn" /\ jobs = {} /\ event = [startsAt |-> 0, deadline |-> 0, lead |-> NULL,
                                                    channel |-> FALSE, message |-> FALSE]
  <2>1. event \in Event
    BY <1>5 DEF Event
  <2>2. JobsInv
    BY <1>5 DEF JobsInv, RowsApart, GensPast, OnePending, PendingTimed, ToldIsPast, ToldBefore, ToldApart
  <2> QED BY <1>2, <1>3, <1>5, <2>1, <2>2, JobAssumption DEF ScheduleInv, TypeOK, Tick
<1> QED BY <1>4, <1>5 DEF Init

\* The parts of the type the jobs and the ticks do not settle.
LEMMA NextIsTyped ==
  ASSUME ScheduleInv, Next, jobs' \subseteq Job, event' \in Event, tick' \in [Workers -> Tick],
         edits' \in 0..MaxEdits
  PROVE  TypeOK'
<1>1. now' \in 0..Horizon /\ stage' \in {"unborn", "live", "gone"} /\ crashes' \in 0..MaxCrashes
  <2>1. /\ now \in 0..Horizon /\ crashes \in 0..MaxCrashes /\ Horizon \in Nat /\ MaxCrashes \in Nat
        /\ stage \in {"unborn", "live", "gone"}
    BY JobAssumption DEF ScheduleInv, TypeOK
  <2>2. \/ now' = now
        \/ now < Horizon /\ now' = now + 1
    BY DEF Next, Clock, CreateEvent, UpdateEvent, DeleteEvent, WorkerStep,
       ClaimDueJobs, Resolve, ResolveFails, Resolved, TickCommit, TickAborts
  <2>3. \/ crashes' = crashes
        \/ crashes < MaxCrashes /\ crashes' = crashes + 1
    BY DEF Next, Clock, CreateEvent, UpdateEvent, DeleteEvent, WorkerStep,
       ClaimDueJobs, Resolve, ResolveFails, Resolved, TickCommit, TickAborts
  <2>4. stage' \in {stage, "live", "gone"}
    BY DEF Next, Clock, CreateEvent, UpdateEvent, DeleteEvent, WorkerStep,
       ClaimDueJobs, Resolve, ResolveFails, Resolved, TickCommit, TickAborts
  <2> QED BY <2>1, <2>2, <2>3, <2>4
<1>2. {[kind |-> "EVENT_CREATED"], [kind |-> "EVENT_CHANGED"]} \subseteq Note
  BY DEF Note
<1>3. \A w \in Workers : tick[w].notes \subseteq Note
  BY TickTyped DEF ScheduleInv, Tick
<1>4. queued' \subseteq Note
  BY <1>2, <1>3 DEF Next, Clock, CreateEvent, UpdateEvent, DeleteEvent, WorkerStep,
     ClaimDueJobs, Resolve, ResolveFails, Resolved, TickCommit, TickAborts
<1> QED BY <1>1, <1>4 DEF TypeOK, Tick

LEMMA NextHolds == ScheduleInv /\ [Next]_vars => ScheduleInv'
<1> SUFFICES ASSUME ScheduleInv, [Next]_vars PROVE ScheduleInv'
  OBVIOUS
<1>0. /\ tick \in [Workers -> Tick] /\ jobs \subseteq Job /\ event \in Event /\ edits \in 0..MaxEdits
      /\ now \in Nat
  BY TickTyped, JobAssumption DEF ScheduleInv, TypeOK
<1> DEFINE Kept == /\ JobsInv' /\ TicksInv' /\ jobs' \subseteq Job /\ event' \in Event
                   /\ tick' \in [Workers -> Tick] /\ edits' \in 0..MaxEdits
<1>1. CASE Clock
  <2>1. now' \in Nat /\ now <= now' /\ UNCHANGED <<stage, event, jobs, tick, edits, crashes>>
    BY <1>0, <1>1 DEF Clock
  <2>2. Kept
    BY <1>0, <2>1, TicksStand, JobsStand DEF ScheduleInv
  <2> QED BY <1>1, <2>2, NextIsTyped DEF Next, ScheduleInv
<1>2. ASSUME NEW s \in Times, NEW d \in Times, NEW lead \in Leads \union {NULL}, NEW announce \in BOOLEAN,
             CreateEvent(s, d, lead, announce)
      PROVE  ScheduleInv'
  <2>1. Kept
    BY <1>0, <1>2, CreateHolds DEF CreateEvent
  <2>2. Next
    BY <1>2 DEF Next
  <2> QED BY <2>1, <2>2, NextIsTyped DEF ScheduleInv
<1>3. ASSUME NEW in \in Edits, UpdateEvent(in) PROVE ScheduleInv'
  <2>1. Kept
    BY <1>0, <1>3, UpdateHolds DEF UpdateEvent
  <2>2. Next
    BY <1>3 DEF Next
  <2> QED BY <2>1, <2>2, NextIsTyped DEF ScheduleInv
<1>4. CASE DeleteEvent
  <2>1. TicksInv'
    BY <1>4, FreeIsIdle, IdleTicks DEF DeleteEvent, ScheduleInv
  <2>2. JobsInv'
    BY <1>4 DEF DeleteEvent, JobsInv, RowsApart, GensPast, OnePending, PendingTimed, ToldIsPast, ToldBefore,
       ToldApart
  <2>3. Kept
    BY <1>0, <1>4, <2>1, <2>2 DEF DeleteEvent
  <2> QED BY <1>4, <2>3, NextIsTyped DEF Next, ScheduleInv
<1>5. ASSUME NEW w \in Workers, WorkerStep(w) \/ TickAborts(w) PROVE ScheduleInv'
  <2>1. Next
    BY <1>5 DEF Next
  <2>2. CASE TickCommit(w)
    <3>1. Kept
      BY <1>0, <2>2, CommitKeepsJobs, CommitKeepsTicks DEF TickCommit
    <3> QED BY <2>1, <3>1, NextIsTyped DEF ScheduleInv
  <2>3. ASSUME TicksInv', tick' \in [Workers -> Tick], UNCHANGED <<now, stage, event, jobs, edits>>
        PROVE  ScheduleInv'
    <3>1. Kept
      BY <1>0, <2>3, JobsStand DEF ScheduleInv
    <3> QED BY <2>1, <3>1, NextIsTyped DEF ScheduleInv
  <2>4. CASE ClaimDueJobs(w)
    BY <2>3, <2>4, ClaimHolds DEF ClaimDueJobs
  <2>5. ASSUME NEW j \in tick[w].todo, NEW anyone \in BOOLEAN, NEW delivery \in {"PING", "DM", "BOTH"},
               Resolve(w, j, anyone, delivery)
        PROVE  ScheduleInv'
    BY <2>3, <2>5, ResolveHolds DEF Resolve, Resolved
  <2>6. ASSUME NEW j \in tick[w].todo, ResolveFails(w, j) PROVE ScheduleInv'
    BY <2>3, <2>6, ResolveFailsHolds DEF ResolveFails, Resolved
  <2>7. CASE TickAborts(w)
    BY <2>3, <2>7, AbortHolds DEF TickAborts
  <2> QED BY <1>5, <2>2, <2>4, <2>5, <2>6, <2>7 DEF WorkerStep
<1>6. CASE UNCHANGED vars
  <2>1. TicksInv' /\ JobsInv'
    BY <1>0, <1>6, TicksStand, JobsStand DEF ScheduleInv, vars
  <2>2. TypeOK'
    BY <1>6 DEF ScheduleInv, TypeOK, vars
  <2> QED BY <2>1, <2>2 DEF ScheduleInv
<1> QED BY <1>1, <1>2, <1>3, <1>4, <1>5, <1>6 DEF Next

LEMMA ScheduleHolds == Spec => []ScheduleInv
  BY InitHolds, NextHolds, PTL DEF Spec

-----------------------------------------------------------------------------
(* The theorems.                                                           *)

\* The state is what its declaration says.
THEOREM JobsTyped == Spec => []TypeOK
  BY ScheduleHolds, PTL DEF ScheduleInv

\* What is pending is the schedule of the event as stored (UpdateEvent's cancel and
\* reschedule), one job of a kind, whatever edits raced which workers.
THEOREM PendingIsTheSchedule == Spec => []PendingMatchesEvent
<1>1. ScheduleInv => PendingMatchesEvent
  <2> SUFFICES ASSUME ScheduleInv, NEW j \in jobs, j.status = "PENDING", j.kind # "COMP_NAG"
               PROVE  /\ \A i \in jobs : i.status = "PENDING" /\ i.kind = j.kind => i = j
                      /\ \/ j.kind = "REMINDER_PRE_EVENT" /\ event.lead = NULL
                         \/ [kind |-> j.kind, runAt |-> j.runAt]
                              \in Candidates(event.startsAt, event.deadline, LeadUsed)
    BY DEF PendingMatchesEvent, LeadUsed
  <2>1. Matches(j)
    BY DEF ScheduleInv, JobsInv, PendingTimed
  <2>2. \A i \in jobs : i.status = "PENDING" /\ i.kind = j.kind => i = j
    BY DEF ScheduleInv, JobsInv, OnePending
  <2> QED BY <2>1, <2>2 DEF Matches
<1> QED BY <1>1, ScheduleHolds, PTL

\* No moment of a schedule is told twice (jobsFor's run_at > now), however often it is
\* edited away and back.
THEOREM MomentsAreToldOnce == Spec => []OncePerMoment
<1>1. ScheduleInv => OncePerMoment
  <2> SUFFICES ASSUME ScheduleInv, NEW i \in jobs, NEW j \in jobs, i.kind = j.kind, i.runAt = j.runAt,
                      i.status = "SENT", j.status \in {"SENT", "PENDING"}
               PROVE  i = j
    BY DEF OncePerMoment
  <2>1. i.runAt \in Int
    BY DEF ScheduleInv, TypeOK, Job
  <2>2. j.status = "SENT"
    BY <2>1 DEF ScheduleInv, JobsInv, ToldBefore, Told
  <2> QED BY <2>2 DEF ScheduleInv, JobsInv, ToldApart, Told
<1> QED BY <1>1, ScheduleHolds, PTL

\* What a step queues of a job, its own tick held.
LEMMA QueuedByTick ==
  ASSUME Next, ScheduleInv, NEW n \in queued', n.kind \in JobEnum
  PROVE  \E w \in Workers : TickCommit(w) /\ n \in tick[w].notes
<1>1. \A s, d \in Times, lead \in Leads \union {NULL}, announce \in BOOLEAN :
        ~CreateEvent(s, d, lead, announce)
  BY DEF CreateEvent, JobEnum
<1>2. \A in \in Edits : ~UpdateEvent(in)
  BY DEF UpdateEvent, JobEnum
<1> QED BY <1>1, <1>2 DEF Next, Clock, DeleteEvent, WorkerStep, ClaimDueJobs, Resolve, ResolveFails, Resolved,
       TickCommit, TickAborts

\* A reminder names the start the event has when it goes out, and is not early for it
\* (an edit waits for the tick that holds its rows).
THEOREM RemindersAreCurrent == Spec => NoStaleReminder
<1>1. ScheduleInv /\ [Next]_vars =>
        [\A n \in queued' : n.kind \in JobEnum =>
           /\ n.startsAt = event.startsAt
           /\ \E j \in jobs : SameRow(j, n) /\ j.runAt <= now]_vars
  <2> SUFFICES ASSUME ScheduleInv, Next, NEW n \in queued', n.kind \in JobEnum
               PROVE  /\ n.startsAt = event.startsAt
                      /\ \E j \in jobs : SameRow(j, n) /\ j.runAt <= now
    OBVIOUS
  <2>1. PICK w \in Workers : n \in tick[w].notes
    BY QueuedByTick
  <2>2. NotesTold(w) /\ DoneIsDue(w)
    BY DEF ScheduleInv, TicksInv, TickInv
  <2>3. PICK d \in tick[w].done : SameRow(d, n)
    BY <2>1, <2>2 DEF NotesTold
  <2>4. PICK j \in jobs : Due1(j) /\ SameRow(d, j)
    BY <2>2 DEF DoneIsDue, Outcome
  <2> QED BY <2>1, <2>2, <2>3, <2>4 DEF NotesTold, Due1, SameRow
<1> QED BY <1>1, ScheduleHolds, PTL DEF Spec, NoStaleReminder

\* A job's notifications are inserted by the one transaction that turns it from PENDING
\* to SENT, and a job turned so has some (RunDue's one transaction a tick).
THEOREM JobsAreToldOnce == Spec => TellsOnce
<1> DEFINE Once ==
      /\ \A n \in queued' : n.kind \in JobEnum =>
           /\ \E j \in jobs : SameRow(j, n) /\ j.status = "PENDING"
           /\ \E j \in jobs' : SameRow(j, n) /\ j.status = "SENT" /\ j.reason = NULL
      /\ \A j \in jobs' \ jobs : j.status = "SENT" /\ j.reason = NULL =>
           \E n \in queued' : n.kind \in JobEnum /\ SameRow(j, n)
<1>1. ASSUME ScheduleInv, Next PROVE Once
  <2>1. ASSUME NEW n \in queued', n.kind \in JobEnum
        PROVE  /\ \E j \in jobs : SameRow(j, n) /\ j.status = "PENDING"
               /\ \E j \in jobs' : SameRow(j, n) /\ j.status = "SENT" /\ j.reason = NULL
    <3>1. PICK w \in Workers : TickCommit(w) /\ n \in tick[w].notes
      BY <1>1, <2>1, QueuedByTick
    <3>2. NotesTold(w) /\ DoneIsDue(w)
      BY <1>1 DEF ScheduleInv, TicksInv, TickInv
    <3>3. PICK d \in tick[w].done : SameRow(d, n) /\ d.status = "SENT" /\ d.reason = NULL
      BY <3>1, <3>2 DEF NotesTold
    <3>4. PICK j \in jobs : Due1(j) /\ SameRow(d, j)
      BY <3>2 DEF DoneIsDue, Outcome
    <3>5. d \in jobs'
      BY <3>1 DEF TickCommit
    <3> QED BY <3>3, <3>4, <3>5 DEF Due1, SameRow
  <2>2. ASSUME NEW j \in jobs', j \notin jobs, j.status = "SENT", j.reason = NULL
        PROVE  \E n \in queued' : n.kind \in JobEnum /\ SameRow(j, n)
    <3>1. \A s, d \in Times, lead \in Leads \union {NULL}, announce \in BOOLEAN :
            ~CreateEvent(s, d, lead, announce)
      BY <2>2 DEF CreateEvent, scheduleJobs, NewJob
    <3>2. \A in \in Edits : ~UpdateEvent(in)
      <4> SUFFICES ASSUME NEW in \in Edits, UpdateEvent(in) PROVE FALSE
        OBVIOUS
      <4>1. j \in CancelJobs(jobs)
        BY <2>2 DEF UpdateEvent, scheduleJobs, NewJob
      <4> QED BY <1>1, <2>2, <4>1, CanceledIs DEF Told, ScheduleInv, TypeOK
    <3>3. PICK w \in Workers : TickCommit(w)
      BY <1>1, <2>2, <3>1, <3>2 DEF Next, Clock, DeleteEvent, WorkerStep, ClaimDueJobs, Resolve,
         ResolveFails, Resolved, TickAborts
    <3>4. j \in tick[w].done /\ queued' = tick[w].notes
      BY <2>2, <3>3 DEF TickCommit
    <3>5. ToldNoted(w) /\ NotesTold(w)
      BY <1>1 DEF ScheduleInv, TicksInv, TickInv
    <3>6. PICK n \in tick[w].notes : SameRow(j, n)
      BY <2>2, <3>4, <3>5 DEF ToldNoted
    <3>7. n.kind \in JobEnum
      BY <3>5 DEF NotesTold, JobNote
    <3> QED BY <3>4, <3>6, <3>7
  <2> QED BY <2>1, <2>2
<1>2. ScheduleInv /\ [Next]_vars => [Once]_vars
  BY <1>1
<1> QED BY <1>2, ScheduleHolds, PTL DEF Spec, TellsOnce

-----------------------------------------------------------------------------
(* What a client is told.                                                  *)

\* The schedule ends somewhere, so it has a latest job.
Bounded == \E b \in Nat : \A j \in jobs : j.runAt <= b

LEMMA BoundedHolds == Spec => []Bounded
<1>1. Init => Bounded
  <2> SUFFICES ASSUME Init PROVE Bounded
    OBVIOUS
  <2>1. CASE jobs = {}
    BY <2>1 DEF Bounded
  <2>2. CASE \E s, d \in Times : Legacy(s, d)
    <3>1. PICK s \in Times, d \in Times : Legacy(s, d)
      BY <2>2
    <3>2. s + d \in Nat /\ s - 1 <= s + d /\ d <= s + d
      BY JobAssumption
    <3>3. \A j \in jobs : j.runAt \in {s - 1, d}
      BY <3>1 DEF Legacy, NewJob
    <3> QED BY <3>2, <3>3 DEF Bounded
  <2> QED BY <2>1, <2>2 DEF Init
<1>2. ScheduleInv /\ Bounded /\ [Next]_vars => Bounded'
  <2> SUFFICES ASSUME ScheduleInv, Bounded, [Next]_vars PROVE Bounded'
    OBVIOUS
  <2>1. PICK b \in Nat : \A j \in jobs : j.runAt <= b
    BY DEF Bounded
  <2>2. \A j \in jobs : j.runAt \in Int
    BY DEF ScheduleInv, TypeOK, Job
  <2>3. ASSUME NEW s \in Nat, NEW d \in Nat, NEW lead \in Nat, NEW gen \in Nat, NEW old \in SUBSET Job,
               \A i \in old : i.runAt <= b, jobs' = old \union scheduleJobs(s, d, lead, gen)
        PROVE  Bounded'
    <3>1. b + s + d \in Nat /\ d <= b + s + d /\ s - Day <= b + s + d /\ s - lead <= b + s + d
      BY JobAssumption
    <3>2. \A j \in scheduleJobs(s, d, lead, gen) : j.runAt \in {d, s - Day, s - lead}
      BY DEF scheduleJobs, jobsFor, Candidates, NewJob
    <3>3. \A i \in old : i.runAt <= b + s + d
      BY <2>3 DEF Job
    <3>4. \A j \in jobs' : j.runAt <= b + s + d
      BY <2>3, <3>1, <3>2, <3>3
    <3> QED BY <3>1, <3>4 DEF Bounded
  <2>4. ASSUME NEW s \in Times, NEW d \in Times, NEW lead \in Leads \union {NULL},
               NEW announce \in BOOLEAN, CreateEvent(s, d, lead, announce)
        PROVE  Bounded'
    <3> DEFINE resolved == IF lead = NULL THEN GuildLead ELSE lead
    <3>1. resolved \in Nat /\ s \in Nat /\ d \in Nat /\ {} \in SUBSET Job
      BY JobAssumption
    <3>2. jobs' = {} \union scheduleJobs(s, d, resolved, 0)
      BY <2>4 DEF CreateEvent
    <3> HIDE DEF resolved
    <3> QED BY <2>3, <3>1, <3>2
  <2>5. ASSUME NEW in \in Edits, UpdateEvent(in) PROVE Bounded'
    <3>1. CASE jobs' = jobs
      BY <2>1, <3>1 DEF Bounded
    <3>2. CASE jobs' # jobs
      <4> DEFINE lead == IF event'.lead = NULL THEN DefaultLead ELSE event'.lead
      <4>1. event' \in Event /\ edits + 1 \in Nat
        BY <2>5, UpdateHolds, JobAssumption DEF ScheduleInv, TypeOK
      <4>2. event'.startsAt \in Nat /\ event'.deadline \in Nat /\ lead \in Nat
        BY <4>1, JobAssumption DEF Event
      <4>3. jobs' = CancelJobs(jobs) \union scheduleJobs(event'.startsAt, event'.deadline, lead, edits + 1)
        BY <2>5, <3>2 DEF UpdateEvent
      <4>4. CancelJobs(jobs) \in SUBSET Job /\ \A i \in CancelJobs(jobs) : i.runAt <= b
        BY <2>1, CanceledIs DEF ScheduleInv, TypeOK
      <4> HIDE DEF lead
      <4> QED BY <2>3, <4>1, <4>2, <4>3, <4>4
    <3> QED BY <3>1, <3>2
  <2>6. ASSUME NEW w \in Workers, TickCommit(w) PROVE Bounded'
    <3>1. \A r \in jobs' : r.runAt <= b
      BY <2>1, <2>6, Origin
    <3> QED BY <3>1 DEF Bounded
  <2>7. CASE jobs' = jobs
    BY <2>1, <2>7 DEF Bounded
  <2>8. CASE jobs' = {}
    BY <2>8 DEF Bounded
  <2> QED BY <2>4, <2>5, <2>6, <2>7, <2>8 DEF Next, vars, Clock, DeleteEvent, WorkerStep, ClaimDueJobs,
       Resolve, ResolveFails, Resolved, TickAborts
<1> QED BY <1>1, <1>2, ScheduleHolds, PTL DEF Spec

\* Of jobs that end somewhere, one is latest.
LEMMA LatestJob ==
  ASSUME Bounded, NEW S \in SUBSET jobs, S # {}, \A j \in jobs : j.runAt \in Int
  PROVE  \E j \in S : \A i \in S : ~(i.runAt > j.runAt)
<1>1. PICK b \in Nat : \A j \in jobs : j.runAt <= b
  BY DEF Bounded
<1> DEFINE T == {b - j.runAt : j \in S}
           Less == {ss \in Nat \X Nat : ss[1] < ss[2]}
<1>2. T \subseteq Nat /\ T # {}
  BY <1>1
<1>3. IsWellFoundedOn(Less, Nat)
  BY NatLessThanWellFounded DEF OpToRel
<1>4. PICK x \in T : \A y \in T : ~(<<y, x>> \in Less)
  <2> HIDE DEF T, Less
  <2> QED BY <1>2, <1>3, WFMin
<1>5. PICK j \in S : x = b - j.runAt
  OBVIOUS
<1>6. ASSUME NEW i \in S, i.runAt > j.runAt PROVE FALSE
  <2>1. i.runAt \in Int /\ j.runAt \in Int
    OBVIOUS
  <2>2. b - i.runAt \in T /\ b - i.runAt \in Nat /\ x \in Nat
    BY <1>2
  <2>3. b - i.runAt < x
    BY <1>5, <1>6, <2>1
  <2> QED BY <1>4, <2>2, <2>3
<1> QED BY <1>6

\* GetPreEventReminderJob's order: some row comes first, and a pending one is it.
LEMMA SomeRowIsFirst ==
  ASSUME ScheduleInv, Bounded, PreEventJobs # {}
  PROVE  \E j \in PreEventJobs : \A i \in PreEventJobs : ~Before(i, j)
<1>1. \A j \in jobs : j.runAt \in Int
  BY DEF ScheduleInv, TypeOK, Job
<1> DEFINE Standing == {j \in PreEventJobs : j.status # "CANCELED"}
<1>2. Standing \in SUBSET jobs /\ PreEventJobs \in SUBSET jobs
  BY DEF PreEventJobs
<1>3. CASE Standing # {}
  <2> HIDE DEF Standing
  <2>1. PICK j \in Standing : \A i \in Standing : ~(i.runAt > j.runAt)
    BY <1>1, <1>2, <1>3, LatestJob
  <2> QED BY <2>1 DEF Standing, Before
<1>4. CASE Standing = {}
  <2>1. PICK j \in PreEventJobs : \A i \in PreEventJobs : ~(i.runAt > j.runAt)
    BY <1>1, <1>2, LatestJob
  <2> QED BY <1>4, <2>1 DEF Before
<1> QED BY <1>3, <1>4

LEMMA PendingIsFirst ==
  ASSUME ScheduleInv, NEW j \in PreEventJobs, j.status = "PENDING"
  PROVE  /\ \A i \in PreEventJobs : ~Before(i, j)
         /\ \A k \in PreEventJobs : (\A i \in PreEventJobs : ~Before(i, k)) => k = j
<1>1. \A i \in PreEventJobs : /\ i \in jobs /\ i.kind = j.kind /\ i.runAt \in Int
                             /\ i.status \in {"PENDING", "SENT", "FAILED", "CANCELED"}
  BY DEF PreEventJobs, ScheduleInv, TypeOK, Job
<1>2. \A i \in PreEventJobs : i = j \/ i.status = "CANCELED" \/ (Told(i) /\ i.runAt < j.runAt)
  BY <1>1 DEF ScheduleInv, JobsInv, OnePending, ToldBefore, Told
<1>3. \A i \in PreEventJobs : ~Before(i, j)
  BY <1>1, <1>2 DEF Before
<1>4. \A k \in PreEventJobs : k # j => Before(j, k)
  BY <1>1, <1>2 DEF Before, Told
<1> QED BY <1>3, <1>4

\* A client is told SCHEDULED exactly when a reminder is coming, and of that one
\* (GetPreEventReminderJob's ORDER BY).
THEOREM ClientsHearOfThePending == Spec => []ReportsThePending
<1>1. ASSUME ScheduleInv, Bounded PROVE ReportsThePending
  <2>1. ASSUME NEW j \in PreEventJobs, j.status = "PENDING" PROVE ReportedJob = j
    BY <1>1, <2>1, PendingIsFirst DEF ReportedJob
  <2>2. ASSUME NEW j \in PreEventJobs, j.status = "PENDING" PROVE ReminderState = "SCHEDULED"
    BY <2>1, <2>2 DEF ReminderState
  <2>3. ASSUME ReminderState = "SCHEDULED" PROVE \E j \in PreEventJobs : j.status = "PENDING"
    <3>1. PreEventJobs # {}
      BY <2>3 DEF ReminderState
    <3>2. ReportedJob \in PreEventJobs
      BY <1>1, <3>1, SomeRowIsFirst DEF ReportedJob
    <3>3. ReportedJob.status \in {"PENDING", "SENT", "FAILED", "CANCELED"}
      BY <1>1, <3>2 DEF PreEventJobs, ScheduleInv, TypeOK, Job
    <3> QED BY <2>3, <3>1, <3>2, <3>3 DEF ReminderState
  <2> QED BY <2>1, <2>2, <2>3 DEF ReportsThePending
<1> QED BY <1>1, ScheduleHolds, BoundedHolds, PTL
=============================================================================
