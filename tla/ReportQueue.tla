----------------------------- MODULE ReportQueue -----------------------------
(***************************************************************************)
(* The report queue of one event (internal/raidlog, queries/raidlog.sql):  *)
(* a raid lead attaches a WarcraftLogs link, the worker claims the row for *)
(* ten minutes, asks WarcraftLogs with no transaction open, and writes     *)
(* what it heard by event id.                                              *)
(*                                                                         *)
(* Rows of other events meet this one only in the worker's memory of the   *)
(* point budget, `spent`.  WarcraftLogs is outside the repository: it may  *)
(* give any of the answers the client tells apart.  The wait is a          *)
(* countdown to next_attempt_at: 0 is due, Settled is NULL.                *)
(***************************************************************************)
EXTENDS Integers

CONSTANTS
  Codes,       \* the reports a raid lead may link
  Workers,     \* worker processes
  Revisions,   \* WarcraftLogs' reprocessing counter
  Matchings,   \* what roster and per-pull document make of one revision, which may differ at every look
  Refusals,    \* statuses that end the asking: NOT_FOUND, PRIVATE, ARCHIVED
  Lease,       \* how long a claim holds the row
  Wait,        \* liveRefresh, backoff and the wait for a blocked credential
  MaxEdits,    \* requests to the API (bound)
  MaxLosses    \* worker deaths, and answers about the credential (bound)

ASSUME ReportQueueAssumption ==
  /\ Revisions \subseteq Nat \ {0}
  /\ Refusals \cap {"PENDING", "READY", "UNAVAILABLE"} = {}
  /\ "nobody" \notin Workers
  /\ Lease \in Nat \ {0} /\ Wait \in Nat \ {0}
  /\ MaxEdits \in Nat /\ MaxLosses \in Nat

VARIABLES
  row,      \* event_reports
  numbers,  \* the report the stored fights and raiders were read from, and what was matched then
  fetch,    \* what each worker holds of its claim
  spent,    \* Ingestor.budgets: the last budget each worker saw was past the guard
  drained,  \* WarcraftLogs' side of it: this hour's points really are gone
  keyed,    \* CredentialsFor finds a client
  edits, losses,
  holder,   \* history: who claimed the row last, as it now stands
  asked,    \* history: the link the row holds has been looked up
  crossed   \* history: somebody wrote under a claim that was no longer theirs

vars == <<row, numbers, fetch, spent, drained, keyed, edits, losses, holder, asked, crossed>>

table == <<row, numbers>>
history == <<holder, asked, crossed>>

NoRow == [row |-> "none"]
Nothing == [report |-> "none"]
Nobody == "nobody"
Idle == [step |-> "idle"]
NoRevision == 0

Settled == (IF Lease > Wait THEN Lease ELSE Wait) + 1

Statuses == {"PENDING", "READY", "UNAVAILABLE"} \union Refusals

Row == [code : Codes, status : Statuses, revision : Revisions \union {NoRevision}, next : 0..Settled]

\* What fetchOne has to write: a report, a failure of it, or nothing about it.
Answer == [kind : {"report"}, revision : Revisions, next : {Wait, Settled}]
            \union [kind : {"failure"}, status : Refusals \union {"UNAVAILABLE"}, next : {Wait, Settled}]
            \union [kind : {"credential"}]

Fetch == {Idle}
           \union [step : {"claimed"}, code : Codes, revision : Revisions \union {NoRevision}]
           \union [step : {"answered"}, code : Codes, answer : Answer]

TypeOK ==
  /\ row \in Row \union {NoRow}
  /\ numbers \in [code : Codes, revision : Revisions, match : Matchings] \union {Nothing}
  /\ fetch \in [Workers -> Fetch]
  /\ spent \in [Workers -> BOOLEAN]
  /\ drained \in BOOLEAN /\ keyed \in BOOLEAN
  /\ edits \in 0..MaxEdits /\ losses \in 0..MaxLosses
  /\ holder \in Workers \union {Nobody}
  /\ asked \in BOOLEAN /\ crossed \in BOOLEAN

Init ==
  /\ row = NoRow
  /\ numbers = Nothing
  /\ fetch = [w \in Workers |-> Idle]
  /\ spent = [w \in Workers |-> FALSE]
  /\ drained = FALSE
  /\ keyed \in BOOLEAN
  /\ edits = 0 /\ losses = 0
  /\ holder = Nobody
  /\ asked = FALSE /\ crossed = FALSE

-----------------------------------------------------------------------------
(* The API.                                                                *)

Edit == edits < MaxEdits /\ edits' = edits + 1

NewRow(code) == [code |-> code, status |-> "PENDING", revision |-> NoRevision, next |-> 0]

\* MUTANT: the upsert moves the link and the clock, and leaves status and revision.
Upserted_KeepsStatus(code) ==
  IF row = NoRow THEN NewRow(code) ELSE [row EXCEPT !.code = code, !.next = 0]

\* UpsertEventReport: the same link again is a refresh; another one starts over, but
\* the fights and raiders of the old one stay where they are.
Upserted(code) ==
  IF row # NoRow /\ row.code = code THEN [row EXCEPT !.next = 0] ELSE NewRow(code)

\* UpdateEvent with a URL.
AttachReport(code) ==
  /\ Edit
  /\ row' = Upserted(code)
  /\ IF row # NoRow /\ row.code = code
     THEN UNCHANGED history
     ELSE /\ holder' = Nobody
          /\ asked' = FALSE
          /\ UNCHANGED crossed
  /\ UNCHANGED <<numbers, fetch, spent, drained, keyed, losses>>

\* UpdateEvent that clears the URL, or DeleteEvent: the cascade takes the numbers.
DetachReport ==
  /\ Edit
  /\ row # NoRow
  /\ row' = NoRow
  /\ numbers' = Nothing
  /\ holder' = Nobody
  /\ asked' = FALSE
  /\ UNCHANGED <<fetch, spent, drained, keyed, losses, crossed>>

\* RequestRefresh.
RequestRefresh ==
  /\ Edit
  /\ row # NoRow
  /\ row' = [row EXCEPT !.next = 0]
  /\ UNCHANGED <<numbers, fetch, spent, drained, keyed, losses, history>>

\* SetGuildCredentials and ClearGuildCredentials: no report is looked at.
ChangeCredentials ==
  /\ Edit
  /\ keyed' = ~keyed
  /\ UNCHANGED <<table, fetch, spent, drained, losses, history>>

-----------------------------------------------------------------------------
(* The worker.                                                             *)

\* MUTANT: a claim takes the row off the queue instead of leasing it.
Leased_Forever == [row EXCEPT !.next = Settled]

Leased == [row EXCEPT !.next = Lease]

\* ClaimDueReports.
ClaimDue(w) ==
  /\ fetch[w] = Idle
  /\ row # NoRow
  /\ row.next = 0
  /\ row' = Leased
  /\ fetch' = [fetch EXCEPT ![w] = [step |-> "claimed", code |-> row.code, revision |-> row.revision]]
  /\ holder' = w
  /\ UNCHANGED <<numbers, spent, drained, keyed, edits, losses, asked, crossed>>

Wrote(w) ==
  /\ fetch' = [fetch EXCEPT ![w] = Idle]
  /\ crossed' = (crossed \/ (row # NoRow /\ holder # w))

\* MarkReportFailed: the numbers stay.  Without a row it writes nothing.
MarkedFailed(status, next) ==
  row' = IF row = NoRow THEN row ELSE [row EXCEPT !.status = status, !.next = next]

\* RescheduleReport.
Rescheduled(next) ==
  row' = IF row = NoRow THEN row ELSE [row EXCEPT !.next = next]

\* parkUnconfigured.
Park(w) ==
  /\ fetch[w].step = "claimed"
  /\ ~keyed
  /\ MarkedFailed("UNAVAILABLE", Settled)
  /\ Wrote(w)
  /\ UNCHANGED <<numbers, spent, drained, keyed, edits, losses, holder, asked>>

\* The budget the worker saw last was nearly spent: it does not ask, and so does not
\* see another.
HoldOff(w) ==
  /\ fetch[w].step = "claimed"
  /\ keyed
  /\ spent[w]
  /\ Rescheduled(Wait)
  /\ Wrote(w)
  /\ UNCHANGED <<numbers, spent, drained, keyed, edits, losses, holder, asked>>

Answered(w, answer) ==
  fetch' = [fetch EXCEPT ![w] = [step |-> "answered", code |-> @.code, answer |-> answer]]

\* MUTANT: the first look at a report is taken for its last.
Moved_OnceRead(held, revision) == held # NoRevision /\ held # revision

\* The report is not at the revision the claim held.
Moved(held, revision) == held # revision

\* WarcraftLogs sent the report: look again unless it is as the claim held it, and over.
FetchReport(w) ==
  \E revision \in Revisions, live \in BOOLEAN :
    Answered(w, [kind |-> "report", revision |-> revision,
                 next |-> IF Moved(fetch[w].revision, revision) \/ live THEN Wait ELSE Settled])

\* statusFor: a refusal is final, anything else is tried again.
FetchFailure(w) ==
  \E status \in Refusals \union {"UNAVAILABLE"} :
    Answered(w, [kind |-> "failure", status |-> status,
                 next |-> IF status \in Refusals THEN Settled ELSE Wait])

Observed(w, budgets) == \E seen \in budgets : spent' = [spent EXCEPT ![w] = seen]

\* fetchOne as far as WarcraftLogs' answer.  A report carries what is left of the budget,
\* a failure may.
FetchAnswers(w) ==
  /\ fetch[w].step = "claimed"
  /\ keyed
  /\ ~spent[w]
  /\ \/ FetchReport(w) /\ Observed(w, {drained})
     \/ FetchFailure(w) /\ Observed(w, {spent[w], drained})
  /\ UNCHANGED <<table, drained, keyed, edits, losses, history>>

\* ErrRateLimited or ErrInvalidCredentials.
FetchRejected(w) ==
  /\ fetch[w].step = "claimed"
  /\ keyed
  /\ ~spent[w]
  /\ losses < MaxLosses
  /\ losses' = losses + 1
  /\ Answered(w, [kind |-> "credential"])
  /\ Observed(w, {spent[w], drained})
  /\ UNCHANGED <<table, drained, keyed, edits, history>>

\* The report's raiders are matched to the roster of the moment, with per-pull rows or,
\* where that document failed, without; and Store puts them in the place of all stored
\* before, whatever the revision, in one transaction.  Without a row the first fight has
\* nothing to hang on.
StoreReport(w, answer) ==
  /\ answer.kind = "report"
  /\ IF row = NoRow
     THEN UNCHANGED table
     ELSE /\ row' = [row EXCEPT !.status = "READY", !.revision = answer.revision, !.next = answer.next]
          /\ \E match \in Matchings :
               numbers' = [code |-> fetch[w].code, revision |-> answer.revision, match |-> match]

StoreFailure(w, answer) ==
  /\ answer.kind = "failure"
  /\ MarkedFailed(answer.status, answer.next)
  /\ UNCHANGED numbers

\* The worker writes what it heard, by event id.
Settle(w) ==
  /\ fetch[w].step = "answered"
  /\ StoreReport(w, fetch[w].answer) \/ StoreFailure(w, fetch[w].answer)
  /\ Wrote(w)
  /\ asked' = (asked \/ (row # NoRow /\ row.code = fetch[w].code))
  /\ UNCHANGED <<spent, drained, keyed, edits, losses, holder>>

\* The batch puts the row back: nothing was learned of the report.
Reschedule(w) ==
  /\ fetch[w].step = "answered"
  /\ fetch[w].answer.kind = "credential"
  /\ Rescheduled(Wait)
  /\ Wrote(w)
  /\ UNCHANGED <<numbers, spent, drained, keyed, edits, losses, holder, asked>>

\* A read or a write of the worker's fails and it goes on without this report; or it
\* dies, and one that starts again knows of no budget.
WorkerLoses(w) ==
  /\ losses < MaxLosses
  /\ losses' = losses + 1
  /\ fetch' = [fetch EXCEPT ![w] = Idle]
  /\ Observed(w, {spent[w], FALSE})
  /\ UNCHANGED <<table, drained, keyed, edits, history>>

-----------------------------------------------------------------------------
(* Time, and WarcraftLogs' hour.                                           *)

Clock ==
  /\ row # NoRow
  /\ row.next \in 1..(Settled - 1)
  /\ row' = [row EXCEPT !.next = @ - 1]
  /\ UNCHANGED <<numbers, fetch, spent, drained, keyed, edits, losses, history>>

\* The hour's points go, once: other reports cost some too.
Drain ==
  /\ losses < MaxLosses
  /\ losses' = losses + 1
  /\ ~drained
  /\ drained' = TRUE
  /\ UNCHANGED <<table, fetch, spent, keyed, edits, history>>

HourTurns ==
  /\ drained
  /\ drained' = FALSE
  /\ UNCHANGED <<table, fetch, spent, keyed, edits, losses, history>>

Work(w) ==
  ClaimDue(w) \/ Park(w) \/ HoldOff(w) \/ FetchAnswers(w) \/ FetchRejected(w) \/ Settle(w) \/ Reschedule(w)

Next ==
  \/ \E code \in Codes : AttachReport(code)
  \/ DetachReport \/ RequestRefresh \/ ChangeCredentials
  \/ \E w \in Workers : Work(w) \/ WorkerLoses(w)
  \/ Clock \/ Drain \/ HourTurns

Spec == Init /\ [][Next]_vars

\* The worker's loop never stops ticking, time passes, and the points come back hourly.
FairSpec ==
  /\ Spec
  /\ \A w \in Workers : WF_vars(Work(w))
  /\ WF_vars(Clock)
  /\ WF_vars(HourTurns)

-----------------------------------------------------------------------------
(* Properties.                                                             *)

\* The stored numbers were read from this link at this revision, however matched.
ReadFrom(code, revision) ==
  numbers \in [code : {code}, revision : {revision}, match : Matchings]

\* A report shown as READY is the one linked: its numbers were read from the link the
\* row holds, at the revision the row holds.  The upsert leaves the old link's fights in
\* place, so only its reset of the status keeps them from passing for the new link's.
\* It speaks of rows nobody wrote to under a claim that was not theirs any more.
ReadyIsOfTheLink ==
  row # NoRow /\ row.status = "READY" /\ ~crossed
    => ReadFrom(row.code, row.revision)

\* The worker stops reading a report only when a second look found the log at the revision
\* stored from it already: the fights and the damage of a READY row that settles are what
\* they were.  What of it was matched is not looked at twice: the settling look stores
\* again (store.go:199-238), against the roster of the moment, and a per-pull document
\* that fails then (warcraftlogs.go:243-247) leaves those rows empty.
SettlesWhenStill ==
  [][ ( /\ row # NoRow /\ row.next # Settled
        /\ row' # NoRow /\ row'.next = Settled /\ row'.status = "READY"
        /\ ~crossed' )
      => \E code \in Codes, revision \in Revisions :
           ReadFrom(code, revision) /\ ReadFrom(code, revision)' ]_vars

Unanswered == row # NoRow /\ ~asked
Parked == row # NoRow /\ row.status = "UNAVAILABLE" /\ row.next = Settled
Excused == row = NoRow \/ asked \/ Parked \/ crossed

\* A link the raid lead pasted is looked up in the end, worker deaths and rejected
\* credentials notwithstanding: unless it is taken off, parked for want of credentials,
\* or the worker last saw a spent budget.
PastedIsAnswered == Unanswered ~> (Excused \/ \E w \in Workers : spent[w])

\* The same without the last excuse: the worker backs off until the budget resets
\* (warcraftlogs.go:33, ErrRateLimited), so the hour turning brings the report its look.
HeldOnlyUntilReset == Unanswered ~> Excused
=============================================================================
