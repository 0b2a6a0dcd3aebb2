------------------------------- MODULE RaidLog -------------------------------
(***************************************************************************)
(* What one event's report holds (internal/raidlog, internal/warcraftlogs, *)
(* api/eventreport.go): the worker reads it from WarcraftLogs in two       *)
(* documents, matches the log's actors with the roster and replaces the    *)
(* stored night in one transaction; the report page is put together from   *)
(* that night by one statement after another.                              *)
(*                                                                         *)
(* WarcraftLogs is outside the repository: it may reprocess the log or     *)
(* revoke a token at any time, and refuse or lose any request.  ReportQueue *)
(* has the queue, its lease and the budget; here the row stays attached    *)
(* and one worker serves it.  A row of the tables stands for its numbers.  *)
(***************************************************************************)
EXTENDS Integers, FiniteSets

CONSTANTS
  Characters,     \* everybody who is ever on the guild's roster
  Actors,         \* the players of the log
  Pulls,          \* fight ids
  Logs,           \* what a revision of the log may say: its pulls, and who is in each
  Listed,         \* the actors masterData knows the server of
  NameOf,         \* of characters and actors, folded to lower case
  RealmOf,        \* the same through roster.RealmSlug
  NoRealm,        \* the slug of an empty realm
  Stranger,       \* a row whose character_id is NULL
  Refusals,       \* PRIVATE, NOT_FOUND, ARCHIVED
  MaxFightsRead,  \* how many pulls the second document asks for
  MaxRevision,    \* bound on reprocessing
  MaxWrites,      \* bound on what people do
  MaxLosses       \* bound on what goes wrong

Absent == "absent"      \* no row
Attendances == SUBSET Actors
Log == UNION {[P -> Attendances] : P \in SUBSET Pulls}

ASSUME RaidLogAssumption ==
  /\ Pulls \subseteq Nat /\ IsFiniteSet(Pulls)
  /\ Logs \subseteq Log /\ Logs # {}
  /\ Listed \subseteq Actors
  /\ {Absent, Stranger} \cap Characters = {} /\ Stranger # Absent
  /\ Refusals \cap {"PENDING", "READY", "UNAVAILABLE"} = {}
  /\ MaxFightsRead \in Nat /\ MaxRevision \in Nat \ {0}
  /\ MaxWrites \in Nat /\ MaxLosses \in Nat

VARIABLES
  log, revision,  \* WarcraftLogs' side: who is in which pull, and its counter
  token,          \* the client's cached token: none, held, or held and revoked
  spent,          \* Ingestor.budgets: the last budget seen was past the guard
  member,         \* characters: not registered yet, registered, removed
  expected,       \* signups that are CONFIRMED or LATE
  row,            \* event_reports: status, revision, next_attempt_at not NULL
  fights,         \* event_report_fights
  night,          \* event_report_raiders: the character of each actor's row
  cuts,           \* event_report_fight_raiders, the same for each pull
  fetch,          \* the worker's fetch
  page,           \* a request for the report page
  writes, losses,
  torn,           \* history: its pulls may name whom the stored night does not
  missed          \* history: the pulls WarcraftLogs sent no entries of for the stored night

vars == <<log, revision, token, spent, member, expected, row, fights, night, cuts,
          fetch, page, writes, losses, torn, missed>>

wcl == <<log, revision>>
client == <<token, spent>>
people == <<member, expected>>
history == <<torn, missed>>
stored == <<row, fights, night, cuts, history>>

Credit == Characters \union {Stranger, Absent}
Nobody == [a \in Actors |-> Absent]
NoCuts == [p \in Pulls |-> Nobody]
NoneSeen == [p \in Pulls |-> {}]
NoRevision == 0
Idle == [at |-> "idle"]
Closed == [at |-> "closed"]
Overtaken == [at |-> "overtaken"]

Report == [revision : 1..MaxRevision, live : BOOLEAN, fights : SUBSET Pulls, raiders : Attendances]
Cut == [Pulls -> Attendances]
Row == [status : {"PENDING", "READY", "UNAVAILABLE"} \union Refusals,
        revision : 0..MaxRevision, asking : BOOLEAN]

Fetch ==
  {Idle}
    \union [at : {"night"}, held : 0..MaxRevision]
    \union [at : {"cuts"}, held : 0..MaxRevision, report : Report, torn : BOOLEAN]
    \union [at : {"match"}, held : 0..MaxRevision, report : Report, torn : BOOLEAN,
            cut : Cut, missed : SUBSET Pulls]
    \union [at : {"store"}, held : 0..MaxRevision, report : Report, torn : BOOLEAN,
            cut : Cut, missed : SUBSET Pulls, roster : SUBSET Characters]

Page ==
  {Closed, Overtaken}
    \union [at : {"fights"}]
    \union [at : {"raiders"}, fights : SUBSET Pulls]
    \union [at : {"cuts"}, fights : SUBSET Pulls, raiders : [Actors -> Credit]]
    \union [at : {"expected"}, fights : SUBSET Pulls,
            raiders : [Actors -> Credit], cuts : [Pulls -> [Actors -> Credit]]]
    \union [at : {"served"}, fights : SUBSET Pulls,
            raiders : [Actors -> Credit], cuts : [Pulls -> [Actors -> Credit]],
            missing : SUBSET Characters]

TypeOK ==
  /\ log \in Log /\ revision \in 1..MaxRevision
  /\ token \in {"none", "held", "revoked"} /\ spent \in BOOLEAN
  /\ member \in [Characters -> {"unknown", "registered", "removed"}]
  /\ expected \subseteq Characters
  /\ row \in Row
  /\ fights \subseteq Pulls
  /\ night \in [Actors -> Credit]
  /\ cuts \in [Pulls -> [Actors -> Credit]]
  /\ fetch \in Fetch
  /\ page \in Page
  /\ writes \in 0..MaxWrites /\ losses \in 0..MaxLosses
  /\ torn \in BOOLEAN /\ missed \subseteq Pulls

Roster == {c \in Characters : member[c] = "registered"}

Init ==
  /\ log \in Logs /\ revision = 1
  /\ token = "none" /\ spent = FALSE
  /\ member \in [Characters -> {"unknown", "registered"}]
  /\ expected \in SUBSET Roster
  /\ row = [status |-> "PENDING", revision |-> NoRevision, asking |-> TRUE]
  /\ fights = {} /\ night = Nobody /\ cuts = NoCuts
  /\ fetch = Idle
  /\ page = Closed
  /\ writes = 0 /\ losses = 0
  /\ torn = FALSE /\ missed = {}

-----------------------------------------------------------------------------
(* The people of the guild, and what WarcraftLogs does on its own.         *)

Write == writes < MaxWrites /\ writes' = writes + 1
Lose == losses < MaxLosses /\ losses' = losses + 1

Register(c) ==
  /\ Write
  /\ member[c] = "unknown"
  /\ member' = [member EXCEPT ![c] = "registered"]
  /\ UNCHANGED <<wcl, client, expected, stored, fetch, page, losses>>

Unlinked(credit, c) == [a \in Actors |-> IF credit[a] = c THEN Stranger ELSE credit[a]]

\* DeleteCharacter: the cascade takes the signups, and in both tables the rows stay
\* and lose their character.
Remove(c) ==
  /\ Write
  /\ member[c] = "registered"
  /\ member' = [member EXCEPT ![c] = "removed"]
  /\ expected' = expected \ {c}
  /\ night' = Unlinked(night, c)
  /\ cuts' = [p \in Pulls |-> Unlinked(cuts[p], c)]
  /\ UNCHANGED <<wcl, client, row, fights, history, fetch, page, losses>>

\* A signup becomes, or stops being, a promise to come.
Answer(c) ==
  /\ Write
  /\ c \in Roster
  /\ expected' = IF c \in expected THEN expected \ {c} ELSE expected \union {c}
  /\ UNCHANGED <<wcl, client, member, stored, fetch, page, losses>>

\* refreshEventReportHandler: the worker is to ask again.
RequestRefresh ==
  /\ Write
  /\ row' = [row EXCEPT !.asking = TRUE]
  /\ UNCHANGED <<wcl, client, people, fights, night, cuts, history, fetch, page, losses>>

Reprocess ==
  /\ revision < MaxRevision
  /\ revision' = revision + 1
  /\ log' \in Logs
  /\ UNCHANGED <<client, people, stored, fetch, page, writes, losses>>

Revoke ==
  /\ Lose
  /\ token = "held"
  /\ token' = "revoked"
  /\ UNCHANGED <<wcl, spent, people, stored, fetch, page, writes>>

\* The cached token is past its time, a minute early.
Expire ==
  /\ Lose
  /\ token # "none"
  /\ token' = "none"
  /\ UNCHANGED <<wcl, spent, people, stored, fetch, page, writes>>

-----------------------------------------------------------------------------
(* Client.Fetch.                                                           *)

\* A report that is asked for is fetched, unless the budget was seen nearly spent: then
\* it is put off and asked for still.
FetchBegins ==
  /\ fetch = Idle
  /\ row.asking
  /\ ~spent
  /\ fetch' = [at |-> "night", held |-> row.revision]
  /\ UNCHANGED <<wcl, client, people, stored, page, writes, losses>>

\* A night without pulls has no second document.
Posting == fetch.at = "night" \/ (fetch.at = "cuts" /\ fetch.report.fights # {})

\* token: none is cached, so one is asked for.
ExchangeToken ==
  /\ Posting
  /\ token = "none"
  /\ token' = "held"
  /\ UNCHANGED <<wcl, spent, people, stored, fetch, page, writes, losses>>

\* Everybody in the tables of the night, which are the roll call: not masterData.
Raiders(l) == UNION {l[p] : p \in DOMAIN l}

\* An answer comes whole, or something of it is lost.
Arrives(whole) == IF whole THEN UNCHANGED losses ELSE Lose

\* A GraphQL error inside a 200 that leaves a report is not looked at: the fights or a table
\* may be null then, and read as empty.
ReadNight ==
  /\ fetch.at = "night"
  /\ token = "held"
  /\ \E shown \in {DOMAIN log, {}}, raiders \in SUBSET Raiders(log), live \in BOOLEAN :
       /\ Arrives(shown = DOMAIN log /\ raiders = Raiders(log))
       /\ live => shown # {}
       /\ fetch' = [at |-> "cuts", held |-> fetch.held, torn |-> raiders # Raiders(log),
                    report |-> [revision |-> revision, live |-> live, fights |-> shown,
                                raiders |-> raiders]]
  /\ UNCHANGED <<wcl, client, people, stored, page, writes>>

\* A report that is null, private or archived: statusFor ends the asking, and
\* MarkFailed leaves the numbers.
Refused ==
  /\ Lose
  /\ fetch.at = "night"
  /\ token = "held"
  /\ \E status \in Refusals : row' = [row EXCEPT !.status = status, !.asking = FALSE]
  /\ fetch' = Idle
  /\ spent' \in BOOLEAN
  /\ UNCHANGED <<wcl, token, people, fights, night, cuts, history, page, writes>>

\* WarcraftLogs is not reachable, answers nonsense, or is out of points: the report
\* is tried again, marked or merely put off.
NightFails ==
  /\ Lose
  /\ fetch.at = "night"
  /\ row' \in {row, [row EXCEPT !.status = "UNAVAILABLE"]}
  /\ fetch' = Idle
  /\ spent' \in BOOLEAN
  /\ UNCHANGED <<wcl, token, people, fights, night, cuts, history, page, writes>>

\* MUTANT: a rejected token stays in the cache.
Forgotten_Kept == token

\* forget.
Forgotten == "none"

\* 401 on the first document: the fetch ends, and the next one exchanges again.
NightUnauthorized ==
  /\ fetch.at = "night"
  /\ token = "revoked"
  /\ token' = Forgotten
  /\ fetch' = Idle
  /\ UNCHANGED <<wcl, spent, people, stored, page, writes, losses>>

\* MUTANT: the pulls that fit are counted from the end of the night.
Read_LastOnes(pulls) == {p \in pulls : Cardinality({q \in pulls : q > p}) < MaxFightsRead}

\* The pulls the second document has room for: the first of the night.
Read(pulls) == {p \in pulls : Cardinality({q \in pulls : q < p}) < MaxFightsRead}

CutsRead(cut, tear, lost) ==
  fetch' = [at |-> "match", held |-> fetch.held, report |-> fetch.report,
            torn |-> fetch.torn \/ tear, cut |-> cut, missed |-> lost]

\* What the log has on a pull of the first document by now.
Entries(p) == IF p \in fetch.report.fights \cap DOMAIN log THEN log[p] ELSE {}

\* fetchPerFight asks for pulls of the first document, of the log as it is by now.  A table
\* that is missing or does not decode is skipped, a null report has none, and no error is
\* looked at: of any pull it may send fewer raiders than the log has, or none.
ReadCuts ==
  /\ fetch.at = "cuts"
  /\ token = "held" \/ ~Posting
  /\ \E sent \in Cut :
       /\ \A p \in Pulls : sent[p] \subseteq Entries(p)
       /\ Arrives(\A p \in Pulls : sent[p] = Entries(p))
       /\ CutsRead([p \in Pulls |-> IF p \in Read(fetch.report.fights) THEN sent[p] ELSE {}],
                   revision # fetch.report.revision, {p \in Pulls : sent[p] = {}})
  /\ UNCHANGED <<wcl, client, people, stored, page, writes>>

\* Without its second document the night goes on; a rejected token is forgotten here too.
CutsFail ==
  /\ fetch.at = "cuts"
  /\ Posting
  /\ \/ Lose /\ UNCHANGED token
     \/ token = "revoked" /\ token' = Forgotten /\ UNCHANGED losses
  /\ CutsRead(NoneSeen, FALSE, Pulls)
  /\ UNCHANGED <<wcl, spent, people, stored, page, writes>>

-----------------------------------------------------------------------------
(* fetchOne: match, and store.                                             *)

\* RosterFor, archived characters and all.
ReadRoster ==
  /\ fetch.at = "match"
  /\ fetch' = [at |-> "store", held |-> fetch.held, report |-> fetch.report, cut |-> fetch.cut,
               torn |-> fetch.torn, missed |-> fetch.missed, roster |-> Roster]
  /\ UNCHANGED <<wcl, client, people, stored, page, writes, losses>>

\* MUTANT: of several candidates, one is taken.
Only_First(candidates) == IF candidates = {} THEN Stranger ELSE CHOOSE c \in candidates : TRUE

Only(candidates) ==
  IF \E c \in candidates : candidates = {c} THEN CHOOSE c \in candidates : TRUE ELSE Stranger

Namesakes(a, roster) == {c \in roster : NameOf[c] = NameOf[a]}

\* Match: name and realm together, failing that the name alone.
Match(a, realm, roster) ==
  LET exact == Only({c \in Namesakes(a, roster) : RealmOf[c] = realm})
  IN IF exact # Stranger THEN exact ELSE Only(Namesakes(a, roster))

\* masterData is where a night's server comes from; the second document has none.
Server(a) == IF a \in Listed THEN RealmOf[a] ELSE NoRealm

Matched(f) == [a \in Actors |->
  IF a \in f.report.raiders THEN Match(a, Server(a), f.roster) ELSE Absent]
MatchedCuts(f) == [p \in Pulls |-> [a \in Actors |->
  IF a \in f.cut[p] THEN Match(a, NoRealm, f.roster) ELSE Absent]]

\* Every character a row would point at is still there.
Resolvable(f) == \A c \in f.roster \ Roster :
  /\ \A a \in Actors : Matched(f)[a] # c
  /\ \A p \in Pulls, a \in Actors : MatchedCuts(f)[p][a] # c

\* MUTANT: the cuts of pulls the report has dropped are not deleted.
Replaced_CutsMerged(f) == [p \in Pulls |-> IF f.cut[p] = {} THEN cuts[p] ELSE MatchedCuts(f)[p]]

\* The per-pull rows after their delete and their inserts.
Replaced(f) == MatchedCuts(f)

\* The budget a fetch ends with, which may be past the guard.
Observed == spent' \in BOOLEAN /\ Arrives(~spent')

\* Store, and what it says of the next attempt.  A page being read may serve something of
\* either night then, and is not followed further.
StoreFetched ==
  /\ fetch.at = "store"
  /\ Resolvable(fetch)
  /\ row' = [status |-> "READY", revision |-> fetch.report.revision,
             asking |-> fetch.held # fetch.report.revision \/ fetch.report.live]
  /\ fights' = fetch.report.fights
  /\ night' = Matched(fetch)
  /\ cuts' = Replaced(fetch)
  /\ torn' = fetch.torn
  /\ missed' = fetch.missed
  /\ fetch' = Idle
  /\ Observed
  /\ page' = IF page = Closed THEN page ELSE Overtaken
  /\ UNCHANGED <<wcl, token, people, writes>>

\* A character matched has been removed: the foreign key fails and nothing is stored.
StoreFails ==
  /\ fetch.at = "store"
  /\ ~Resolvable(fetch)
  /\ fetch' = Idle
  /\ Observed
  /\ UNCHANGED <<wcl, token, people, stored, page, writes>>

\* The worker dies, its token and what it knew of the budget with it.
WorkerDies ==
  /\ Lose
  /\ fetch' = Idle
  /\ token' = "none" /\ spent' = FALSE
  /\ UNCHANGED <<wcl, people, stored, page, writes>>

-----------------------------------------------------------------------------
(* getEventReportHandler and Store.Report, a statement at a time.          *)

OpenPage ==
  /\ page = Closed
  /\ page' = [at |-> "fights"]

ListFights ==
  /\ page.at = "fights"
  /\ page' = [at |-> "raiders", fights |-> fights]

ListRaiders ==
  /\ page.at = "raiders"
  /\ page' = [at |-> "cuts", fights |-> page.fights, raiders |-> night]

ListFightRaiders ==
  /\ page.at = "cuts"
  /\ page' = [at |-> "expected", fights |-> page.fights,
              raiders |-> page.raiders, cuts |-> cuts]

Attended(raiders) == {raiders[a] : a \in Actors} \ {Stranger, Absent}

\* The no-show list is worked out against the sheet as it is now.
ListExpected ==
  /\ page.at = "expected"
  /\ page' = [at |-> "served", fights |-> page.fights,
              raiders |-> page.raiders, cuts |-> page.cuts,
              missing |-> expected \ Attended(page.raiders)]

ClosePage ==
  /\ page.at \in {"served", "overtaken"}
  /\ page' = Closed

ReadPage == OpenPage \/ ListFights \/ ListRaiders \/ ListFightRaiders \/ ListExpected \/ ClosePage

-----------------------------------------------------------------------------
Worker ==
  \/ FetchBegins \/ ExchangeToken \/ ReadNight \/ NightUnauthorized \/ ReadCuts
  \/ CutsFail \/ ReadRoster \/ StoreFetched \/ StoreFails

Next ==
  \/ \E c \in Characters : Register(c) \/ Remove(c) \/ Answer(c)
  \/ RequestRefresh \/ Reprocess \/ Revoke \/ Expire
  \/ Worker \/ Refused \/ NightFails \/ WorkerDies
  \/ ReadPage /\ UNCHANGED <<wcl, client, people, stored, fetch, writes, losses>>

Spec == Init /\ [][Next]_vars

\* The worker's loop never stops ticking.
FairSpec == Spec /\ WF_vars(Worker)

-----------------------------------------------------------------------------
(* Properties.                                                             *)

\* No pull keeps per-pull numbers after WarcraftLogs has reprocessed it away: every
\* per-pull row is of a stored fight, although its table refers to none (store.go:173).
NoPhantomPulls == \A p \in Pulls : cuts[p] # Nobody => p \in fights

\* Realms without a letter or digit RealmSlug knows have the slug of no realm at all.
Placed(a) == \A c \in Characters : NameOf[c] = NameOf[a] => RealmOf[c] # NoRealm

\* The pulls never credit a player's numbers to another character than the night does,
\* though the one document names servers and the other does not, and the roster moves
\* between fetches: a pull may only know less (match.go:29-40).
PullsNeverContradict ==
  \A p \in Pulls, a \in Actors :
    Placed(a) /\ Absent \notin {cuts[p][a], night[a]} => cuts[p][a] \in {night[a], Stranger}

\* Nobody on a page's no-show list has a pull to their name on that page, as long as
\* nothing was stored while it was read, the night's tables came whole, which nothing
\* checks (warcraftlogs.go:453-459), and both documents were of one revision.
MissingDidNotPlay ==
  page.at = "served" /\ ~torn =>
    \A p \in page.fights, a \in Actors : Placed(a) => page.cuts[p][a] \notin page.missing

\* What a long night loses is the cut of its tail (warcraftlogs.go:257-263): any other
\* stored pull that WarcraftLogs sends entries of has its rows.  It sends none of a pull
\* reprocessed away or that nobody is in, where the document fails (243-247), and where a
\* table, or the report, comes back null or undecodable, which passes for a success.
OnlyTheTailIsUncut ==
  \A p \in fights \ missed : cuts[p] = Nobody => Cardinality({q \in fights : q < p}) >= MaxFightsRead

\* A token WarcraftLogs no longer takes is replaced, as long as there is something to ask
\* and points to ask with: it does not keep failing every fetch (warcraftlogs.go:436-438).
RevokedIsReplaced == token = "revoked" ~> token # "revoked" \/ ~row.asking \/ spent
=============================================================================
