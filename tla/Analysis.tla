------------------------------ MODULE Analysis ------------------------------
(***************************************************************************)
(* The panels a guild reads its own history from (internal/audit,          *)
(* api/analysis.go) and the tier that opens them (internal/billing).  A    *)
(* panel is one or two statements, each of which sees the tables as they   *)
(* are when it runs: the period is fixed by the request, the rows are not. *)
(*                                                                         *)
(* The tables are those of one guild.  What other modules say of how they  *)
(* change is here one write of one row at a time.  A rate a handler makes  *)
(* of two of a panel's numbers is left to the numbers.                     *)
(***************************************************************************)
EXTENDS Integers, Sequences, FiniteSets, FiniteSetsExt, Functions

CONSTANTS
  Characters,     \* the roster
  Mains,          \* who has the main flag
  Menus,          \* character_roles: the priority of each role, 0 without a row
  Roles, Events,
  Histories,      \* what the tables may hold to begin with (bound)
  Subscriptions,  \* rows the subscriptions table may hold
  Offered,        \* the answers a signup may be written with (bound)
  Ilvls,          \* the item levels a snapshot may have (bound)
  Window,         \* how far back a panel looks
  WeekLength,
  Horizon,        \* the last instant of the clock (bound)
  MaxWrites       \* bound

Statuses == {"CONFIRMED", "TENTATIVE", "DECLINED", "LATE", "ABSENT", "NO_SHOW"}
NONE == "NONE"                                    \* no row, or SQL NULL
Premium == {"comp-balance", "roster-health", "throughput", "ilvl"}
Panels == {"attendance"} \union Premium

Seat == [role : Roles, bench : BOOLEAN]
Empty == [role |-> NONE, bench |-> FALSE]
NoLevel == -1                                     \* character_snapshots.ilvl IS NULL
Snapshot == [char : Characters, at : 0..Horizon, ilvl : Nat \union {NoLevel}]
Answers == [Events -> [Characters -> Statuses \union {NONE}]]
Boards == [Events -> [Characters -> Seat \union {Empty}]]

ASSUME AnalysisAssumption ==
  /\ IsFiniteSet(Characters) /\ IsFiniteSet(Events) /\ IsFiniteSet(Roles) /\ NONE \notin Roles
  /\ Mains \subseteq Characters
  /\ Menus \in [Characters -> [Roles -> Nat]]
  /\ Histories \subseteq [starts : [Events -> 0..Horizon], answer : Answers, seat : Boards]
  /\ Subscriptions \subseteq [tier : {"FREE", "PREMIUM"},
                              status : {"ACTIVE", "PAST_DUE", "CANCELED", "TRIALING"},
                              end : {{}} \union {{t} : t \in 0..Horizon}]
  /\ Offered \subseteq Statuses
  /\ Ilvls \subseteq Nat \union {NoLevel}
  /\ {Window, WeekLength} \subseteq Nat \ {0} /\ {Horizon, MaxWrites} \subseteq Nat

VARIABLES
  now,
  starts,     \* events.starts_at
  answer,     \* signups
  seat,       \* comp_slots, of the one comp an event has here
  snapshots,  \* character_snapshots, in the order of their ids
  bought,     \* the guild's subscriptions row
  index,      \* the links a client was given, while they are news
  request,    \* a panel being read
  writes

tables == <<starts, answer, seat, snapshots>>
analysisVars == <<now, tables, bought, index, request, writes>>

NoRow == [tier |-> NONE]
Waiting == [at |-> "waiting"]
OldNews == [links |-> {}, news |-> FALSE]

AnalysisTypeOK ==
  /\ now \in 0..Horizon /\ writes \in 0..MaxWrites
  /\ starts \in [Events -> 0..Horizon] /\ answer \in Answers /\ seat \in Boards
  /\ snapshots \in Seq(Snapshot)
  /\ bought \in Subscriptions \union {NoRow}
  /\ index.links \subseteq Panels /\ index.news \in BOOLEAN
  /\ \/ request = Waiting
     \/ request.panel \in Panels /\ request.quiet \in BOOLEAN
          /\ request.at \in {"first", "second", "served", "refused"}

AnalysisInit ==
  /\ now = 0
  /\ \E h \in Histories : starts = h.starts /\ answer = h.answer /\ seat = h.seat
  /\ snapshots = <<>>
  /\ bought \in Subscriptions \union {NoRow}
  /\ index = OldNews
  /\ request = Waiting
  /\ writes = 0

-----------------------------------------------------------------------------
(* What changes the tables.  A request that is being read has then seen    *)
(* some of them before, and some after.                                    *)

Write ==
  /\ writes < MaxWrites
  /\ writes' = writes + 1
  /\ request' = IF request = Waiting THEN request ELSE [request EXCEPT !.quiet = FALSE]

MoveEvent(e) ==
  /\ Write
  /\ \E t \in 0..Horizon : starts' = [starts EXCEPT ![e] = t]
  /\ UNCHANGED <<now, answer, seat, snapshots, bought, index>>

\* UpsertSignup, with the eviction of whoever is not coming.
SignUp(e, c) ==
  /\ Write
  /\ \E status \in Offered :
       /\ answer' = [answer EXCEPT ![e][c] = status]
       /\ seat' = IF status \in {"CONFIRMED", "LATE"} THEN seat ELSE [seat EXCEPT ![e][c] = Empty]
  /\ UNCHANGED <<now, starts, snapshots, bought, index>>

Place(e, c) ==
  /\ Write
  /\ \E s \in Seat \union {Empty} : seat' = [seat EXCEPT ![e][c] = s]
  /\ UNCHANGED <<now, starts, answer, snapshots, bought, index>>

\* InsertCharacterSnapshot, by a sync that found something new.  A sync has a number for the
\* level; the column may be without.
Capture(c) ==
  /\ Write
  /\ \E i \in Ilvls : snapshots' = Append(snapshots, [char |-> c, at |-> now, ilvl |-> i])
  /\ UNCHANGED <<now, starts, answer, seat, bought, index>>

\* UpsertSubscription, by hand for now.
Subscribe ==
  /\ Write
  /\ bought' \in Subscriptions
  /\ index' = OldNews
  /\ UNCHANGED <<now, tables>>

Tick ==
  /\ now < Horizon
  /\ now' = now + 1
  /\ index' = OldNews
  /\ UNCHANGED <<tables, bought, request, writes>>

-----------------------------------------------------------------------------
(* The tier.                                                               *)

\* Bought, honoured, and not run out.
Effective(s) ==
  IF /\ s.tier = "PREMIUM"
     /\ s.status \in {"ACTIVE", "TRIALING"}
     /\ \A t \in s.end : now < t
  THEN "PREMIUM" ELSE "FREE"

\* Tiers.For: without a row a guild is free.
For == IF bought = NoRow THEN "FREE" ELSE Effective(bought)

\* MUTANT: the item level panel is offered to every guild.
AnalysisLinks_IlvlToAll(tier) == IF tier = "PREMIUM" THEN Panels ELSE {"attendance", "ilvl"}

AnalysisLinks(tier) == IF tier = "PREMIUM" THEN Panels ELSE {"attendance"}

\* getAnalysisIndexHandler.
GetIndex ==
  /\ ~index.news
  /\ index' = [links |-> AnalysisLinks(For), news |-> TRUE]
  /\ UNCHANGED <<now, tables, bought, request, writes>>

\* Tiers.Require, as the gated panels ask for it.
Granted(panel) == panel \notin Premium \/ For = "PREMIUM"

-----------------------------------------------------------------------------
(* The statements.                                                         *)

InWindow(until) == {e \in Events : starts[e] >= until - Window /\ starts[e] < until}

\* MUTANT: the answers are counted to the end of the calendar.
AttendanceByCharacter_OpenEnded(until) ==
  [c \in Characters |-> [s \in Statuses |->
    Quantify(Events, LAMBDA e : starts[e] >= until - Window /\ answer[e][c] = s)]]

\* How many of the window's events got each answer.
AttendanceByCharacter(until) ==
  [c \in Characters |-> [s \in Statuses |->
    Quantify(InWindow(until), LAMBDA e : answer[e][c] = s)]]

Slots(until) == {x \in InWindow(until) \X Characters : seat[x[1]][x[2]] # Empty}

CompRoleTotals(until) ==
  LET In(r, bench) == Quantify(Slots(until), LAMBDA x : seat[x[1]][x[2]] = [role |-> r, bench |-> bench])
  IN [r \in Roles |-> [placed |-> In(r, FALSE), benched |-> In(r, TRUE)]]

BenchByCharacter(until) ==
  [c \in Characters |->
    [boards |-> Quantify(Slots(until), LAMBDA x : x[2] = c),
     benched |-> Quantify(Slots(until), LAMBDA x : x[2] = c /\ seat[x[1]][c].bench)]]

RosterActivity(until) ==
  [characters |-> Cardinality(Characters), mains |-> Cardinality(Mains),
   active |-> Quantify(Characters, LAMBDA c : \E e \in InWindow(until) : answer[e][c] # NONE)]

RoleCoverage ==
  [r \in Roles |-> [characters |-> Quantify(Characters, LAMBDA c : Menus[c][r] # 0),
                    firstChoice |-> Quantify(Characters, LAMBDA c : Menus[c][r] = 1)]]

Week(t) == t \div WeekLength

\* What LEFT JOIN makes of an event without rows to join.
OrNull(S) == IF S = {} THEN {NONE} ELSE S

\* Every signup of an event beside every slot of it.
Joined(until) ==
  UNION {{e} \X OrNull({c \in Characters : answer[e][c] # NONE})
             \X OrNull({c \in Characters : seat[e][c] # Empty}) : e \in InWindow(until)}

\* MUTANT: the rows are counted.
People_Rows(rows, column) == Cardinality(rows)

\* count(DISTINCT column).
People(rows, column) == Cardinality({x[column] : x \in rows})

EventThroughput(until) ==
  [w \in {Week(starts[e]) : e \in InWindow(until)} |->
    LET rows == {x \in Joined(until) : Week(starts[x[1]]) = w}
        Said(s) == {x \in rows : x[2] # NONE /\ answer[x[1]][x[2]] = s}
        On(bench) == {x \in rows : x[3] # NONE /\ seat[x[1]][x[3]].bench = bench}
    IN [events |-> Cardinality({x[1] : x \in rows}),
        confirmed |-> People(Said("CONFIRMED"), 2), declined |-> People(Said("DECLINED"), 2),
        noShow |-> People(Said("NO_SHOW"), 2),
        placed |-> People(On(FALSE), 3), benched |-> People(On(TRUE), 3)]]

\* MUTANT: every snapshot of the week counts.
LastOfWeek_All(S) == S

\* DISTINCT ON: each character's last snapshot in each week.
LastOfWeek(S) ==
  {k \in S : \A l \in S : /\ snapshots[l].char = snapshots[k].char
                          /\ Week(snapshots[l].at) = Week(snapshots[k].at) => l <= k}

\* The i-th of the rows' item levels, the lowest first.
Nth(rows, i) ==
  LET levels == {snapshots[k].ilvl : k \in rows}
      Reaches(v) == Quantify(rows, LAMBDA k : snapshots[k].ilvl <= v) >= i
  IN CHOOSE v \in levels : Reaches(v) /\ \A u \in levels : Reaches(u) => v <= u

\* percentile_cont of q quarters, in quarters of a point.
PercentileCont(q, rows) ==
  LET pos == q * (Cardinality(rows) - 1)
      low == pos \div 4
      off == pos % 4
  IN (4 - off) * Nth(rows, low + 1) + (IF off = 0 THEN 0 ELSE off * Nth(rows, low + 2))

IlvlSeries(until) ==
  LET S == LastOfWeek({k \in DOMAIN snapshots :
             /\ snapshots[k].char \in Mains /\ snapshots[k].ilvl # NoLevel
             /\ snapshots[k].at >= until - Window /\ snapshots[k].at < until})
  IN [w \in {Week(snapshots[k].at) : k \in S} |->
       LET rows == {k \in S : Week(snapshots[k].at) = w}
       IN [characters |-> Cardinality(rows), p25 |-> PercentileCont(1, rows),
           median |-> PercentileCont(2, rows), p75 |-> PercentileCont(3, rows)]]

-----------------------------------------------------------------------------
(* The handlers.                                                           *)

\* The gate, and the end of the period.  Without the tier the answer is 402.
Ask(panel) ==
  /\ request = Waiting
  /\ request' = IF Granted(panel)
                THEN [at |-> "first", panel |-> panel, until |-> now, quiet |-> TRUE]
                ELSE [at |-> "refused", panel |-> panel, quiet |-> TRUE]

Serve(body) ==
  request' = [at |-> "served", panel |-> request.panel, until |-> request.until,
              quiet |-> request.quiet, body |-> body]

FirstOfTwo(seen) ==
  request' = [at |-> "second", panel |-> request.panel, until |-> request.until,
              quiet |-> request.quiet, seen |-> seen]

Asked(at, panel) == request.at = at /\ request.panel = panel

CountEvents == Asked("first", "attendance") /\ FirstOfTwo(Cardinality(InWindow(request.until)))

Attendance ==
  /\ Asked("second", "attendance")
  /\ LET row == AttendanceByCharacter(request.until)
         answered == [c \in Characters |->
           row[c]["CONFIRMED"] + row[c]["TENTATIVE"] + row[c]["DECLINED"] + row[c]["LATE"]
             + row[c]["ABSENT"] + row[c]["NO_SHOW"]]
     IN Serve([events |-> request.seen, answered |-> answered])

RoleTotals == Asked("first", "comp-balance") /\ FirstOfTwo(CompRoleTotals(request.until))

CompBalance ==
  /\ Asked("second", "comp-balance")
  /\ Serve([roles |-> request.seen, bench |-> BenchByCharacter(request.until)])

ReadActivity == Asked("first", "roster-health") /\ FirstOfTwo(RosterActivity(request.until))

RosterHealth ==
  /\ Asked("second", "roster-health")
  /\ Serve([activity |-> request.seen, dormant |-> request.seen.characters - request.seen.active,
            coverage |-> RoleCoverage])

Throughput == Asked("first", "throughput") /\ Serve(EventThroughput(request.until))

Ilvl == Asked("first", "ilvl") /\ Serve(IlvlSeries(request.until))

Close == request.at \in {"served", "refused"} /\ request' = Waiting

Read ==
  \/ \E panel \in Panels : Ask(panel)
  \/ CountEvents \/ Attendance \/ RoleTotals \/ CompBalance \/ ReadActivity \/ RosterHealth
  \/ Throughput \/ Ilvl \/ Close

AnalysisNext ==
  \/ Read /\ UNCHANGED <<now, tables, bought, index, writes>>
  \/ GetIndex \/ Subscribe \/ Tick
  \/ \E c \in Characters : Capture(c) \/ \E e \in Events : SignUp(e, c) \/ Place(e, c)
  \/ \E e \in Events : MoveEvent(e)

AnalysisSpec == AnalysisInit /\ [][AnalysisNext]_analysisVars

-----------------------------------------------------------------------------
(* Properties.                                                             *)

Served(panel) == request.at = "served" /\ request.panel = panel

\* The two statements of a panel speak of the same rows, unless something was written
\* while it was read: nobody answered more events than there were, so that silence is a
\* count and not a clamp, and the bench tracker adds up to the role totals.
PanelsAddUp ==
  request.at = "served" /\ request.quiet =>
    /\ request.panel = "attendance" => \A c \in Characters : request.body.answered[c] <= request.body.events
    /\ request.panel = "comp-balance" =>
         SumFunction([c \in Characters |-> request.body.bench[c].boards])
           = SumFunction([r \in Roles |-> request.body.roles[r].placed + request.body.roles[r].benched])

\* A week never has more people than the guild, however many raids it held and however
\* the join multiplies their rows (analysis.go:117-119).
WeeksCountPeople ==
  Served("throughput") =>
    \A w \in DOMAIN request.body : \A count \in {"confirmed", "declined", "noShow", "placed", "benched"} :
      request.body[w][count] <= Cardinality(Characters)

\* A week's gear is one reading per main whose level was captured in it, and its middle half is
\* in order: who reforged four times weighs no more than who logged off (analysis.sql,
\* IlvlSeries).
OneReadingPerMain ==
  Served("ilvl") =>
    \A w \in DOMAIN request.body :
      LET week == request.body[w]
          captured == {c \in Mains : \E k \in DOMAIN snapshots :
            snapshots[k].char = c /\ snapshots[k].ilvl # NoLevel /\ Week(snapshots[k].at) = w}
      IN /\ week.characters \in 1..Cardinality(captured)
         /\ week.p25 <= week.median /\ week.median <= week.p75

\* A client that asks only for what it was handed is never refused, and one that asks for
\* more always is, as long as neither the subscription nor the clock has moved since: the
\* link set and the gate are the same decision (analysis.go:28-30, hard rule 7).
LinksAreHonoured ==
  [][\A panel \in Panels :
       index.news /\ request = Waiting /\ request' # Waiting /\ request'.panel = panel
         => (panel \in index.links <=> request'.at # "refused")]_analysisVars
=============================================================================
