# raider-mate-service: specifications

TLA+ modules for the Go service in this repository (a raid-signup backend on Postgres,
driven by a Discord bot and a web client over HTTP, with a separate worker process), the
TLC configurations that check them, and TLAPS proofs, for every value of their constants, of
every safety property the configurations check.

Paths below are relative to the repository; `signup/late.go` means
`internal/signup/late.go`, and so on.

## 1. The system

| Component | State it keeps | Operations | Hard part |
|---|---|---|---|
| Signups, late requests (`signup/signup.go`, `late.go`, `store.go`, `api/signups.go`, `api/laterequests.go`) | `signups` (status, assigned role), `late_signup_requests` (one row per character and event) | write, withdraw, file, approve, reject | two deadlines and two kinds of caller; a decision reads the filing by a plain SELECT and acts on it later; a signup that leaves the pool empties comp seats in the same transaction |
| Comps (`comp/lock.go`, `manual.go`, `store.go`, `api/comps.go`) | `comps.mode`, `comp_slots` | lock (assigner), save (by hand), convert, rename | mode and pool are read before the transaction that replaces the board |
| Assigner (`comp/comp.go`, `assign.go`) | none: a pure function | resolve the needs, fill, repair, bench | greedy passes, two DPS sides with caps, swaps that must not open a hole |
| Events and their schedule (`signup/event.go`, `schedule.go`, `store.go`) | `events`, `scheduled_jobs` | create, edit, delete; cancel and reschedule on an edit; tell a client the reminder's state | jobs recomputed while workers are sending them |
| Reminder runner (`signup/reminder.go`, `cmd/worker`) | one transaction per tick | claim due jobs `FOR UPDATE SKIP LOCKED`, build notifications, mark sent, skipped or failed | several workers, crashes, three attempts |
| Outbox (`signup/outbox.go`, `queries/notification.sql`, `api/notifications.go`) | `notifications` with a claim stamp | insert, claim for a lease, ack, report a failure | at-least-once delivery by bots that die and acks that come late |
| Roster sync (`roster/sync.go`, `store.go`) | `characters`, snapshots; a coalescing partial unique index on pending redraws | list a batch, fetch a profile, write the difference, queue one redraw | the redraw a sync leans on can be gone before the sync commits; a character that keeps failing must not hold the queue |
| Raid log (`raidlog/ingest.go`, `store.go`) | `event_reports` (status, revision, `next_attempt_at`), fights and raiders; the worker's memory of the point budget | attach, detach, refresh, claim, fetch, store, fail, park, hold off | a fetch takes seconds with no transaction open, and writes by event id |
| Roster registration (`roster/character.go`, `store.go`, `api/characters.go`) | `characters`, `character_roles` | register, set main, replace roles, delete, archive | one main per player, kept by two statements and an index under concurrent requests |
| Notification hub and stream (`signup/notifyhub.go`, `api/notifications.go`) | the Listener's connection, each subscriber's channel of one | listen, broadcast, stream, redial, reconnect | a wakeup lost or coalesced between a busy handler and a busy bot |
| Report contents (`warcraftlogs/warcraftlogs.go`, `raidlog/match.go`, `store.go`, `read.go`, `api/eventreport.go`) | `event_report_fights`, `_raiders`, `_fight_raiders`; the client's cached token | fetch in two documents, match actors with the roster, replace the night, read the page | the log is reprocessed between the documents; one names servers and the other does not; a page is five statements without a transaction |
| Billing tier, analysis (`billing/tier.go`, `audit/analysis.go`, `api/analysis.go`) | `subscriptions`, read-only panels over the tables of the others | offer links, gate a panel, read its one or two statements | a tier that runs out by the clock; rows that joins multiply; tables that move between two statements |
| Guild settings, catalog, raid lead roles | small per-guild tables | whole-list replacement | little |
| HTTP plumbing, secretbox, Raider.IO client, generated code | none of their own | - | - |

**How they meet.** All state is in one Postgres database under READ COMMITTED. Handlers
and the worker share nothing else; a component calls another by writing rows in its own
transaction (a signup write deletes comp slots and inserts a notification; an event edit
cancels jobs and repoints the report row). The bot polls the outbox, or is woken by the
hub. So the behaviours that are hard are of three kinds: *what was read before a
transaction and used inside it*; *what happens between a claim and its settlement*; and
*several actors each doing something legal, in an order nobody wrote a test for*. The
hazards of `PROJECT.json` list them with their lines.

**What makes each part correct.** Signups: an answer is the raider's own; the late queue holds what
an approval may write; a raider who leaves holds no seat, and the hole is announced. Comps: only a
conversion changes a board's owner; a lock spares a raid lead's board. Assigner: limits hold,
repairs only help, nobody sits out for a lower rank or beside an open seat. Schedule: what is
pending is the event's current schedule; each reminder goes out once, and for the start that holds.
Outbox: a live claim is exclusive, every row is settled. Hub: no wakeup that was heard is lost.
Sync: the card shows what is stored, and every character gets its turn. Registration: a player has
at most one main and loses it only to another; a role menu is one submission. Raid log: READY
numbers are the linked report's; reading stops only on a report whose link and revision stand still;
a pasted link is looked up. Report contents: per-pull numbers are of stored pulls and of the raiders
the night credits, and of what WarcraftLogs sent only a long night's tail goes without; nobody on
the no-show list is seen playing. Analysis: the parts of a panel add up, a week counts people and
one reading of each; a link that is offered is honoured.

## 2. Modules

| Module | Models |
|---|---|
| `Sheet` | the rows signups and comps share, the SQL that changes them, and event edits |
| `SignupHandlers` | the signup and late-request handlers over `Sheet` |
| `CompHandlers` | lock, save, convert, rename over `Sheet` |
| `RaidNight` | `Sheet` with both sets of handlers, and their properties |
| `LateQueue` | the abstract queue the comments of `late.go` describe; `RaidNight!KeepsTheQueue` says the handlers implement it |
| `ReminderJobs` | the schedule, the runner, and what a client is told |
| `Outbox` | the notifications table, its pollers, and failure reports |
| `Delivery` | the abstract delivery the comments of `outbox.go` and `ClaimNotifications` describe; `Outbox!DeliversOnLease` says the rows, stamps and batches implement it |
| `NotifyHub` | the way from an insert to a bot that claims: trigger, Listener, hub, streams |
| `RosterRedraw` | the sync queue and its workers, the coalesced redraw, and the bot that draws |
| `Roster` | one player's characters: registration, the main flag, role menus, deletion, statement by statement |
| `ReportQueue` | one event's report row, the worker and WarcraftLogs' answers |
| `Assign` | the needs of a night and the assigner's passes, a seat or a swap per step |
| `RaidLog` | what one event's report holds: the two-document fetch, matching, the stored night, the report page |
| `Analysis` | the tier decision, the links, the gate and the panels, statement by statement |
| `MCRaidNight`, `MCReminderJobs`, `MCRosterRedraw`, `MCRoster`, `MCAssign`, `MCRaidLog`, `MCAnalysis` | sets for the configurations that need more than a literal |
| `RaidNightProofs`, `ReminderJobsProofs`, `OutboxProofs`, `RosterProofs`, `ReportQueueProofs`, `RaidLogProofs` | TLAPS proofs about the module each is named after |
| `HubAndPanelsProofs`, `CardAndBoardProofs` | TLAPS proofs about `NotifyHub` and `Analysis`, and about `RosterRedraw` and `Assign`; those of the two that are extended second have names of their own for `Init`, `Next`, `Spec` and the types |

**Grain.** A transaction is one step, taken at its commit. A read made before it, or a plain SELECT
inside it, is a step of its own, because READ COMMITTED lets the row change before the writes. Where
two transactions lock each other's rows (`FOR UPDATE`), the waiting one is simply not enabled
(`RowsFree`). In `RosterRedraw` even a transaction's writes and commit are two steps, since what its
INSERT met in the index is the question, and in `Roster` every statement is two, what its snapshot
saw and what it found when the locks it waited for were gone. `RaidLog` and `Analysis` take a report
page and a panel one SELECT at a time. A statement that fails is an action (`CallAborts`,
`BuildAborts`, `TickAborts`, `ApplySyncFails`, `Abort`, `WorkerLoses`). A request refused by a guard
changes nothing and is no step.

**How the state reads.** `Sheet`: `answer[c]` is `signups.status`, `assigned[c]`
`signups.assigned_role`, `request[c]` the late request, `mode[k]` and `seats` the comps, `queued`
the notifications of the latest transaction, `event.seen` which message ids are known.
`SignupHandlers`: `call[p]` is one HTTP request between its reads and its transaction, with the
event row `read` as it holds it: `Write` looks at that row by two readings of the clock, `File` at
another by a third. `said[c]` and `overtaken` there, and `holder`, `asked`, `crossed`, `adrift`,
`passed`, `raised`, `promised`, `torn`, `missed` elsewhere are history variables, like the field
`putOff` of a call and the `quiet` and `news` fields in `Analysis`: no action's guard reads them.
`CompHandlers`: `build[b]` is a lock or a save between its reads and its transaction.
`ReminderJobs`: `gen` counts reschedules and stands for the job row's id; `tick[w]` is a worker's
open transaction. `Outbox`, `ReportQueue`: times are relative, an age or a countdown that stops
where nothing more depends on it, so the state space stays finite without a last instant.
`ReportQueue`: `row.next` is `next_attempt_at`, `Settled` its NULL; `spent[w]` is the worker's
`budgets`. `RosterRedraw`: `turn[c]` is the character's place by `sync_attempted_at`, the lowest
first; `fresh` are those younger than SYNC_STALE_AFTER. `Roster`: `tx[t]` is one client's open
transaction, `menu[c]` the role rows with the submission each came from. `RaidLog`: `night[a]` and
`cuts[p][a]` are the character a stored row of actor `a` refers to (`Stranger` for a NULL, `Absent`
for no row), `log` (who is in each pull it lists) and `revision` WarcraftLogs' side, `token` the
client's cache, `spent` the budget the worker remembers. A page under way when something is stored
is `Overtaken` and only closed: either night's rows may be on it. `Analysis`: the tables of a guild
are functions, a request holds what its first statement returned. `Assign`: raiders are numbered in
the order that breaks ties of priority, which is all that mains, scores, times and ids do.

**What is abstracted.** Texts, notes, `late_until`, ids, JSON, logging. A guild is implicit (each
module is one event, or one table of rows that do not interact). In `CompHandlers` the assigner is
any placement of the pool that was read; `Assign` is what it really does. In `RaidLog` a raider's
numbers are one row, and in `ReportQueue` all that is matched to the roster is one value of
`Matchings`, any of which a look may come to; names are compared as `roster.RealmSlug` and lower
case leave them. In `Analysis` each event has one comp, and what other components write is one row
at a time. In `ReportQueue` the three terminal statuses are the elements of `Refusals`, and
liveRefresh, backoff and the wait for a credential are one `Wait`, because they differ only in
length.

## 3. Runs

| Run | Question | Result |
|---|---|---|
| `answers` | Two requests in flight, a deadline before the start or on it, event edits: does only the raider's word reach the sheet and the queue, and what lets in a LATE or ABSENT? | holds, proved |
| `serial` | One request and one raid lead at a time, over two comps: does leaving give up every seat; does only a conversion convert; is every hole announced; do the handlers implement `LateQueue`; is a manual board spared? | holds; proved, the first three for any number of them |
| `reminders` | Two workers, a crash, failures, an edited schedule: is what is pending the event's schedule, told once and of the right start? | holds, with liveness; the safety proved |
| `outbox` | Two pollers, batches, slow acks, a lost call: is a row anybody's twice within a lease; do claims, acks and reports implement `Delivery`; is every row settled? | holds, with liveness; the safety proved |
| `hub` | Two bots, three rows, two lost connections or failed claims: does a signal that was heard reach whoever needs it? | holds, with liveness and without a single poll; the safety proved |
| `redraw` | Two syncers with batches of two, a drawing bot, a draw lost: does the card catch up; does everybody due get a turn? | holds, the card unless a claim crosses an open sync or a draw is refused, the turns unless a mark fails; proved, the card for one bot |
| `roster` | Two clients over one player's three characters, statement by statement: does a failed promotion cost the main; can two registrations collide; is a menu one submission? | holds, but for the two crossings below; proved |
| `reports` | Two workers, two links, refusals, lost fetches, rejected credentials | holds, with liveness, unless the worker remembers a spent budget, and for rows no stale fetch has written to; the safety proved |
| `raid_log` | A growing, reprocessed log with namesakes, answers in part, a roster that moves, a revoked token, a spent budget, a lost call, a page read meanwhile: do the per-pull rows agree with the night, and the no-show list with the pulls; what goes uncut? | holds, with liveness (the token is replaced, while there are points); the safety proved |
| `panels` | Every panel over tables that move between its statements, and a subscription that lapses: do the parts add up; are links honoured? | holds, unless something came between the statements; proved |
| `assignment` | Every combination of eight menus for four raiders, three modes, five templates: are the limits kept, do swaps only help, is anybody benched for a worse raider or beside a seat? | holds, proved |
| `spent_budget` | Does the worker come back when the hour turns? | violated, see below |

A configuration checks no type invariant, to ask less of each run: the type invariant of every
module that has a configuration is a theorem of section 5.

**Bounds.** One character is enough for `answers`: handlers touch one character's rows, and what
races is two requests over the same ones; `serial` adds the second comp because an eviction runs
over all of them. Two instants are enough around two deadlines, three where both orders of deadline
and start are compared. Two callers, two builders, two workers or two bots are the first number at
which they race; the code has no operation that involves a third. `reminders` has times at which the
deadline, day-before and pre-event moments fall apart, one reschedule (so two generations of jobs),
and failures enough to use up three attempts. `outbox` has three rows with batches of two, so a
batch can be partial, and a report of a failure fits beside its row. `hub` has three rows in inserts
of one or two and batches of two, so that a batch is full, partial or split over two inserts, and
two bots, so that one's claim takes what the other was promised. `redraw` has two characters, enough
for one to be passed over for the other, and two profile changes, enough for an older one to be
written last. `roster` has a third character so that a promotion meets a main other than its own and
the one being registered, two roles and two submissions, enough for a menu that neither asked for.
`reports` allows three API calls, enough to attach, replace and refresh, or attach, detach and
attach; a lease and a wait of one tick, since only lapsed or not lapsed matters; and two ways to
match a revision, so that a later look may differ. `raid_log` has three pulls of which two fit in
the second document, so the tail is one pull; a second revision that drops a pull and adds a raider;
two characters of one name, of whom the log knows one realm and another realm besides: the smallest
night on which matching by name and by name and realm can differ; and one loss, which is a part of
an answer, a request, a token, a worker or the budget. A pull nobody is in is among them. `panels`
has two events and two characters, a week of two instants, a window that starts inside one, levels
of which one may be NULL, and two writes, one for each side of a panel's two statements.
`assignment` needs four raiders for a swap with its backfill while two groups are short and a side
is capped; the same properties also held for five raiders with ten menus (13.6 million states),
which takes too long to keep as a run. `MaxEdits`, `MaxLosses`, `MaxCrashes`, `MaxSyncs`, `MaxRows`,
`MaxPuts`, `MaxWrites`, `MaxRevision`, `Horizon` are bounds of the model; the theorems hold for
every value of them.

**Deadlock** is checked in `raid_log` and `panels`, where a page or a panel may always be asked for.
Elsewhere the models stop when their bounded clock, edits and losses are used up, as the service
itself is idle when nobody calls it.

**Fairness.** `ReminderJobs`: each worker's steps are weakly fair, since `cmd/worker/main.go`
runs the tick on a ticker for ever and a tick ends in a commit or an abort; aborts are bounded,
as no code promises anything of a worker that always dies. Nothing is assumed of the raid
lead, and time need not pass: the property speaks of jobs already due. `NotifyHub`: goroutines run
and a bot acts on what it is told; polls, reconnections and redials are not assumed. `Outbox`:
bots poll and
settle what they hold, the server finishes a request it began, and time passes, so leases
lapse. `ReportQueue`: the worker's ticker, time, and WarcraftLogs' hour, which turns by the
clock. `RaidLog`: the worker's next step alone; neither people nor WarcraftLogs owe anything. No
action is strongly fair.

## 4. Where the code departs from its comments

One is a run whose one property, quoting a comment, TLC refutes:

- `spent_budget` (`raidlog/ingest.go:146`). The guard compares the budget the *last fetch* saw,
  and a credential past the guard gets no fetch, so nothing ever replaces that number: each tick
  puts every report off again by the same ResetIn, for as long as the worker lives.
  `warcraftlogs.go:33-34` says to back off until the budget resets.

Noticed in the same reading, not kept as runs. The first two have their property in the module
(`RaidNight!DecidedOnce`, `RosterRedraw!NoneIsLost`), which TLC refutes under `answers.cfg` and
`redraw.cfg`:

- `signup/late.go:192`. The comment at 189-191 says one transaction keeps two raid leads from both
  reading PENDING. Under READ COMMITTED it does not: both read it, and the later decision
  overwrites the earlier one, so a rejection ends as an approval with the signup written.
  `KeepsTheQueue` holds of the same handlers served one at a time: it is the missing row lock, not
  the logic.
- `roster/store.go:112`. A sync leans on a redraw row that is claimed and drawn before the sync
  commits; its own was suppressed, and the card stays behind. `notification.sql:16-17` says none is
  lost. `StaleIsOwed` shows that this crossing and the next item are the only ways.
- `signup/outbox.go:98`: a redraw Discord refuses is acked like one it took. The raid leads are told,
  the card stays as it was, and nobody owes it until another difference or signup queues one.
- `roster/sync.go:97`: "Without this the character keeps its old queue position": the mark may fail
  too, which is only logged, and then it does keep it. `NoneIsPassedOver` counts the tries recorded.
- `signup/signup.go:166`: `Write` reads the clock twice. A LATE or ABSENT that meets the start between
  the two is refused as closed, not as started, and is filed; should the start be put off before `File`
  reads the event (`late.go:112-118`), it stands in a queue `signup.go:244-247` keeps for other answers.
  `QueueHoldsIntentions` shows there is no other way.
- `raidlog/read.go:89`: "a reader never sees last night's fights beside tonight's raiders"
  (`raidlog/store.go:148-149`) is true of one statement, and the page is five: a store between two
  of them tears it (`Overtaken`; `MissingDidNotPlay` speaks of the pages nothing was stored under).
- `raidlog/store.go:199-238`: the fetch that finds a report unchanged and settles it stores it again,
  matched with the roster of the moment; and if its second document fails, the per-pull rows stored
  before are replaced by none. `SettlesWhenStill` says the link and the revision stand still, no more.
- `warcraftlogs.go:257-263` says what is lost is the tail of a very long night. A table that is missing
  or does not decode is skipped (314-320), and a 200 with a null report or a GraphQL error passes for
  an answer (391-398, 453-459), so any pull may go uncut, and the night be short of raiders or empty, in
  a READY report. `OnlyTheTailIsUncut` holds of the pulls something was sent of (`missed`),
  `MissingDidNotPlay` of nights whose tables came whole (`torn`).
- `raidlog/match.go:60`: the second document has no servers, so a name two raiders share is credited
  to nobody per pull while the night credits one of them; and a realm without a Latin letter or
  digit has the empty slug, which a serverless actor then matches exactly (`Placed` excepts such
  realms). The fallback by name alone can credit a foreign player to the guild's only raider of
  that name.
- `queries/raidlog.sql:137-138`: "Rematched on every fetch" ends with the last one; a raider
  registered after the report settled stays a stranger.
- `cmd/worker/main.go:65`: the worker fetches with the instance's credentials only.
- `warcraftlogs/warcraftlogs.go:439`: a token revoked early is reported as invalid credentials, and
  the credential is put off as if it were, though the next fetch would get a new token.
- `audit/analysis.go:158`: the no-show rate divides by the CONFIRMED answers, but NO_SHOW takes the
  place of CONFIRMED in the one row a raider has. The bench rate, described as of slots, counts
  people, and `ratio` clamps both. The comment on the clamp blames an event moved out of the period;
  it takes one moved in between the two statements.
- `raidlog/ingest.go:237`: a fetch in flight writes by event id whatever the row has become. A link
  replaced meanwhile is given the old link's answer, and may be settled without ever being
  fetched, though `raidlog.sql:6-7` makes it due "because a raid lead who just pasted a link is
  waiting for it". `PastedIsAnswered`, `ReadyIsOfTheLink` and `SettlesWhenStill` hold for rows not
  written to that way (`crossed`); without that proviso each fails.
- `signup/notifyhub.go:113`: after a redial nothing is broadcast for what was inserted in between.
  Such a row waits for the next insert or the bot's five-minute poll; lines 69-70 say "a restart
  is not felt".
- `signup/late.go:199`: a request filed again between an approval's read and its writes is
  marked approved with the earlier status on the sheet.
- `signup/late.go:217`: a pending request survives the raider's next answer; approving it later
  puts the older word over the newer.
- `comp/lock.go:48`: a comp converted to MANUAL between Lock's mode check and its write is
  recomputed all the same (`serial` shows `LockSparesManual` for one raid lead at a time).
- `comp/lock.go:57`: a raider who declines between Lock's pool read and its write is seated after
  having been evicted.
- `queries/signup.sql:58`: repeating a status outside the pool (a note edit) keeps the assigned
  role of a seat it evicts.
- `signup/event.go:251`: an event whose lead is edited to 0 reads SKIPPED, not OFF.
- `signup/store.go:264`: an event without a stored lead is rescheduled by the built-in default and
  reported with the guild's.
- `signup/outbox.go:98`: a refused retry of a send that had arrived is reported as not delivered.
- `raidlog/ingest.go:243-247`: a parked report "keeps whatever status it had", and is set to
  UNAVAILABLE.
- `signup/reminder.go:98-100`: a resolution error "never bubbles up to abort the tick"; one that
  came from SQL has already aborted the tick's transaction.
- `roster/store.go:276`: a character deleted between a promotion's two statements: the clearing of
  the old main commits, the answer is 404, and the player is left with no main.
- `roster/store.go:327`: two submissions of one role menu end as the union of both.
- `roster/store.go:173`: a registration that asks for the main flag while a promotion is in flight
  fails on `characters_one_main_per_user`, as a 500.
- `queries/raidlog.sql:5-6`: a changed link's old fights and raiders do not go "by the cascade";
  the row is updated, not deleted, and they stay until the next successful fetch.

## 5. Proofs

All theorems hold for any characters, comps, roles, schedules, links, logs, batch sizes and leases,
and for any number of clients, workers and bots, unless one is named below.

| Module | Theorem | Property |
|---|---|---|
| `RaidNightProofs` | `TypeCorrect`, `AnswersBelongToRaiders`, `QueueIsOfIntentions` | `TypeOK`, `AnswersAreTheRaiders`, `QueueHoldsIntentions` |
| | `LeaversHoldNoSeat`, `HolesAreReported`, `OwnersChangeByConversion` | `LeavingGivesUpSeats`, `DropIsReported`, `ModeIsDeliberate` |
| | `HandlersKeepTheQueue`, for one request at a time | `KeepsTheQueue`: the refinement of `LateQueue` |
| | `ManualBoardsAreSpared`, for one comp request at a time | `LockSparesManual` |
| `ReminderJobsProofs` | `JobsTyped`, `PendingIsTheSchedule`, `MomentsAreToldOnce` | `TypeOK`, `PendingMatchesEvent`, `OncePerMoment` |
| | `RemindersAreCurrent`, `JobsAreToldOnce`, `ClientsHearOfThePending` | `NoStaleReminder`, `TellsOnce`, `ReportsThePending` |
| `OutboxProofs` | `OutboxTyped`, `LeasesAreExclusive`, `FailuresAreReportedSettled` | `TypeOK`, `LeaseIsExclusive`, `ReportFollowsAck` |
| | `RowsAreDeliveredOnLease` | `DeliversOnLease`: the refinement of `Delivery` |
| `HubAndPanelsProofs` | `HubTypeCorrect`, `SignalsAccounted`, `NoWakeupIsLost` | `TypeOK`, `Accounted`, `NoRowSleeps` |
| | `AnalysisTyped`, `StatementsAgree` | `AnalysisTypeOK`, `PanelsAddUp` |
| | `PeopleNotRows`, `OneReadingEach`, `LinksAreTheGate` | `WeeksCountPeople`, `OneReadingPerMain`, `LinksAreHonoured` |
| `CardAndBoardProofs` | `RedrawTyped`, `NobodyIsPassedOver` | `TypeOK`, `NoneIsPassedOver` |
| | `StaleCardsAreOwed`, `QuietCardsAreCurrent`, for one bot | `StaleIsOwed`, `NoneIsLost` where no claim crossed a sync and no draw was refused |
| | `AssignTyped`, `SeatsStayWithinLimits`, `SwapsHelp` | `AssignTypeOK`, `WithinLimits`, `RepairOnlyHelps` |
| | `BenchIsEarned`, `NobodyBenchedForNothing`, `RepairsRunOut` | `BenchedForABetter`, `NoSeatIdle`, `NoRepairLeft` |
| `RosterProofs` | `RosterTyped`, `RegistrationsDoNotMeet`, `MainsAreKept`, `MenusAreWhole` | `TypeOK`, `RegistrationsNeverCollide`, `KeepsAMain`, `MenuIsOneSubmission` |
| `ReportQueueProofs` | `QueueTyped`, `ReadyReportsAreTheLinks`, `OnlyTheStillSettle` | `TypeOK`, `ReadyIsOfTheLink`, `SettlesWhenStill` |
| `RaidLogProofs` | `LogTyped`, `PullsAreStored`, `PullsAgreeWithTheNight` | `TypeOK`, `NoPhantomPulls`, `PullsNeverContradict` |
| | `TheRestIsCut`, `TheMissingDidNotPlay` | `OnlyTheTailIsUncut`, `MissingDidNotPlay` |

*Assumptions*: the named ASSUME of each module, which TLC evaluates in its run: bounds, leases and
times are naturals, the values that stand for "none" are not characters, comps or roles, pulls are a
finite set of numbers, so are raiders, and what is counted or summed over (workers, characters,
events, roles) is finite. The hypotheses of the theorems for one request, one comp request and
one bot are written in them; two of them are what section 4 says goes wrong otherwise (a
decision taken twice, a board converted under a lock), and with two bots an older draw may be
posted after a newer.

*Arguments.* Few of the properties are inductive. What each needed:

- `AnswersAreTheRaiders`: an approval writes what it read a step earlier, a write what it was handed
  a step earlier. `IInv == TypeOK /\ Provenance /\ AnswersAreTheRaiders` adds where those came from.
  `ClosedMeansPulled` is the arithmetic in the middle: a LATE or ABSENT that meets a closed signup
  has the start, as its request holds it, behind it, so a `File` that finds a start to come finds it
  put off. `WordsRemain` and `FoundedRemains` carry the facts of the other requests, using that
  `said` only grows.
- The boards: `LeavingGivesUpSeats`, `DropIsReported` and `ModeIsDeliberate` are of single steps and
  need the types alone: `UpsertEvicts` and `DeleteEvicts` say it of the two statements that change
  an answer, `ReplaceKeepsModes` of the one that replaces a board.
- `KeepsTheQueue`: `DecisionsAreCurrent`, a decision under way still has in the queue what it read;
  then each handler's transaction is a step of `LateQueue`, and every read a stutter.
- `LockSparesManual`: `LocksAreOurs` (a lock under way is of no manual board) and `SeatsHaveComps`.
- Reminders: `ScheduleInv` is of two halves. `JobsInv`: rows are apart, one pending of a kind, timed
  by the present event, behind whatever was told. `TicksInv`: a tick holds due jobs, no two ticks
  the same row, its notes are of what it resolved and of the present start; an edit cannot come
  between because `RowsFree` makes it wait. `ClientsHearOfThePending` needs the latest row of a
  kind to exist: the jobs' moments are bounded, and a least distance from the bound is well founded.
- Outbox: `Leased` adds `StampIsTheHolders`: the younger of two claims is the row's stamp. `Reports`
  orders a report behind what it is of, so a report of a report cannot be built. (`ReportFollowsAck`
  is no property of the run: `DeliversOnLease`, which is, allows no report but of a settled row.)
- `DeliversOnLease`: a row is lent while its stamp is younger than the lease (`PhaseOf`), to whoever
  holds it at such an age (`BearersOf`). A claim is a `Take`: by the stamps no earlier holder is prompt
  any more. A tick is a `Lapse` of the rows whose stamp runs out, and `PromptUntilLapse` keeps the
  bearers of the others. A late ack is a `Settle` whoever holds the row by then, a second one a stutter,
  and so is a forgotten row unless its holder was prompt, when there is no other (`OneBearer`).
- Hub: `NoRowSleeps` says there is some signal, and the next broadcast might use up the last one.
  `IInv` says which rows a signal speaks for, so a broadcast turns "not broadcast yet" into "in the
  stream", a write turns that into "told", and only the bot's own claim ends it.
- Redraw: `RedrawInv` adds that a row an open sync leans on still waits, and that a bot whose read
  has gone stale is owed another, unless a crossed sync or a refused draw has set it adrift, which
  its next read ends.
- Turns: `passed[c]` alone says nothing of the next try. `Owed(c)` is the set of tries of others that
  can still come before one of `c`: by a worker, of a character longer untried or ahead of `c` in that
  worker's batch. While `c` is due nothing joins it and every try of another leaves it, so
  `passed[c] + Cardinality(Owed(c))` stays under the fair share, which at first is all of it. A try whose
  mark fails leaves that set too, and adds nothing to `passed`.
- Panels: the sums of the model are folds. `SumUnfolds` takes one summand off, for a fold is a
  recursive function over finite sets, and `PartsAddUp` counts a table by its rows and by its
  columns (an induction over the size, by well-foundedness, since the library's induction theorem
  cannot be instantiated). The percentiles are the order statistics `Nth`: there is one for each
  place (`NthIsLeast`), they grow (`NthGrows`), so the interpolated quartiles are in order. The
  invariant keeps an answer true after the tables have moved on, and a first statement that is still
  `quiet` true of the tables.
- Assigner: `RankIsLexical` says that ranks are by best priority, then by number, hence that a first
  exists (`FirstRanksFirst`). `GoodBoard` states `Limits`, `Exhausted` and `Outranked` of a board and the
  groups still to be filled. A fill keeps it as sides only get fuller. A swap is three boards (`Swap`):
  with the mover out, with the mover in, with the backfill in. The side the mover left might now admit
  somebody from the bench; but the group they left is as full as it was, and if that was short, nobody
  benched fitted it, so the backfill can only have taken that very side and it is full again. Nor can
  anybody benched have been able to play the mover's new role, as it would have been theirs when its
  group was filled. `SwapsSeat`, every swap seats one more, is why repairs are never cut off.
- Roster: `RosterInv` says of each open transaction what it has done and what the rows must look
  like for it (`FlagFine`, `MenuFine`), and that transactions are `Apart`: one registration at a
  time behind the user's row, one lifted flag at a time in the index, ids never reused.
- Report queue: `QueueInv` adds, unless a stale claim has written, that numbers follow the row's
  revision even in states that show none, and what the last claimant `Knows`.
- Raid log: `NightInv` ties what is fetched to what is stored (`FetchSound`, `StoredSound`), and
  what a page has read to what is stored while it is read (`PageSound`): rows only fade, when a
  character is removed, until a store overtakes the page. `missed` and `torn` follow a fetch into what
  it stores, so that what WarcraftLogs left out is known of the stored night.

*Model-checked only*: every liveness property (`DueGetsResolved`, `EveryRowIsSettled`,
`PromisesAreKept`, `PastedIsAnswered`, `RevokedIsReplaced`), since fairness and ENABLED are beyond the
prover; and `spent_budget`, which is a counterexample. Every safety invariant and action property of
the runs is a theorem, `StaleIsOwed`, `KeepsTheQueue` and `LockSparesManual` under the hypotheses named
above, which their runs meet. No module declares a RECURSIVE operator.

## 6. What could come next

In the order of what matters most:

1. Abstract specifications, with step-by-step refinement proofs, of more of the components: one
   pending schedule for `ReminderJobs`, a matching of raiders to seats for `Assign`.
2. Several events sharing a credential in `ReportQueue`, so that one spent budget stops another
   report, and several of a guild's reports in `RaidLog`.
3. A drawing bot beside `RaidNight`, for a card posted from an older read
   (`signup/signup.go:267`).
4. Archiving a character, the guild settings, and the URL parser of the report link.

## 7. Not modelled

Guild settings, catalog and raid lead roles: whole-list replacements of a guild's own rows with
nothing to interleave; the one setting another component depends on, the reminder lead, is a
constant of `ReminderJobs`. Archiving a character, and the canonical form of its name. HTTP routing,
authentication and JSON: what handlers take from them, who owns a character and who is a raid lead,
are inputs. The Raider.IO client, and of the WarcraftLogs client the URL parser, the host table and
the pause between requests: their kinds of answer are what the modules choose from. A raider's
numbers and turnout, as arithmetic. Row-level deadlocks inside Postgres: one side is aborted, and the
abort is modelled. Secretbox keeps no state, and generated code is modelled by the component that
runs its statement.
