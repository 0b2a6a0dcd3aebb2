---------------------------- MODULE RaidLogProofs ----------------------------
(***************************************************************************)
(* Proofs, for any roster, any log and any way WarcraftLogs reprocesses    *)
(* it or answers in part, that the stored night keeps its types, that its  *)
(* per-pull numbers are of its pulls and credited as the night's are, that *)
(* of the pulls it was sent anything of only the tail is without them, and *)
(* that a page read in between never lists as missing somebody it shows    *)
(* playing.                                                                *)
(***************************************************************************)
EXTENDS RaidLog, FiniteSetTheorems, TLAPS

WclTyped == log \in Log /\ revision \in 1..MaxRevision
PeopleTyped ==
  /\ member \in [Characters -> {"unknown", "registered", "removed"}]
  /\ expected \subseteq Characters
NumbersTyped ==
  /\ fights \subseteq Pulls
  /\ night \in [Actors -> Credit]
  /\ cuts \in [Pulls -> [Actors -> Credit]]
  /\ torn \in BOOLEAN /\ missed \subseteq Pulls
CountsTyped ==
  /\ token \in {"none", "held", "revoked"} /\ spent \in BOOLEAN
  /\ writes \in 0..MaxWrites /\ losses \in 0..MaxLosses
Typed ==
  /\ WclTyped /\ PeopleTyped /\ NumbersTyped /\ CountsTyped
  /\ row \in Row /\ fetch \in Fetch /\ page \in Page

LEMMA TypeParts == TypeOK <=> Typed
  BY DEF TypeOK, Typed, WclTyped, PeopleTyped, NumbersTyped, CountsTyped

\* What the worker and the page hold, by where they are.
LEMMA FetchFields ==
  ASSUME NEW f \in Fetch
  PROVE  /\ f.at \in {"idle", "night", "cuts", "match", "store"}
         /\ f.at # "idle" => f.held \in 0..MaxRevision
         /\ f.at \in {"cuts", "match", "store"} => f.report \in Report /\ f.torn \in BOOLEAN
         /\ f.at \in {"match", "store"} => f.cut \in Cut /\ f.missed \subseteq Pulls
         /\ f.at = "store" => f.roster \subseteq Characters
  BY DEF Fetch, Idle

LEMMA PageFields ==
  ASSUME NEW p \in Page
  PROVE  /\ p.at \in {"closed", "overtaken", "fights", "raiders", "cuts", "expected", "served"}
         /\ p = Closed <=> p.at = "closed"
         /\ p.at \in {"raiders", "cuts", "expected", "served"} => p.fights \subseteq Pulls
         /\ p.at \in {"cuts", "expected", "served"} => p.raiders \in [Actors -> Credit]
         /\ p.at \in {"expected", "served"} => p.cuts \in [Pulls -> [Actors -> Credit]]
         /\ p.at = "served" => p.missing \subseteq Characters
  BY DEF Page, Closed, Overtaken

-----------------------------------------------------------------------------
(* Matching.                                                               *)

\* The only candidate there is, or nobody.
LEMMA OnlyIs ==
  ASSUME NEW S \in SUBSET Characters
  PROVE  /\ Only(S) \in Characters \union {Stranger}
         /\ \A c \in S : S = {c} => Only(S) = c
         /\ Only(S) # Stranger => S = {Only(S)}
<1>1. CASE \E c \in S : S = {c}
  <2>1. PICK c \in S : S = {c}
    BY <1>1
  <2>2. Only(S) = c
    BY <1>1, <2>1 DEF Only
  <2> QED BY <2>1, <2>2
<1>2. CASE ~\E c \in S : S = {c}
  BY <1>2 DEF Only
<1> QED BY <1>1, <1>2

\* A match is a character of the roster or nobody's, and never no row.
LEMMA MatchIs ==
  ASSUME NEW a, NEW realm, NEW roster \in SUBSET Characters
  PROVE  /\ Match(a, realm, roster) \in Characters \union {Stranger}
         /\ Match(a, realm, roster) # Absent
<1>1. {c \in Namesakes(a, roster) : RealmOf[c] = realm} \in SUBSET Characters
      /\ Namesakes(a, roster) \in SUBSET Characters
  BY DEF Namesakes
<1>2. Match(a, realm, roster) \in Characters \union {Stranger}
  BY <1>1, OnlyIs DEF Match
<1> QED BY <1>2, RaidLogAssumption

\* Knowing no server, one can only know less: the name alone finds whom name and server
\* found, or nobody, on a roster without realms that look like none.
LEMMA ServerlessMatch ==
  ASSUME NEW a, NEW realm, NEW roster \in SUBSET Characters, Placed(a)
  PROVE  Match(a, NoRealm, roster) \in {Match(a, realm, roster), Stranger}
<1> DEFINE N == Namesakes(a, roster)
<1> DEFINE E == {c \in N : RealmOf[c] = realm}
<1>1. N \in SUBSET Characters /\ E \in SUBSET Characters /\ E \subseteq N
  BY DEF Namesakes
<1>2. {c \in N : RealmOf[c] = NoRealm} = {}
  BY <1>1 DEF Placed, Namesakes
<1>3. Only({c \in N : RealmOf[c] = NoRealm}) = Stranger
  BY <1>2 DEF Only
<1>4. Match(a, NoRealm, roster) = Only(N)
  BY <1>3 DEF Match
<1>5. Match(a, realm, roster) = IF Only(E) # Stranger THEN Only(E) ELSE Only(N)
  BY DEF Match
<1>6. CASE Only(E) # Stranger /\ Only(N) # Stranger
  <2>1. E = {Only(E)} /\ N = {Only(N)}
    BY <1>1, <1>6, OnlyIs
  <2> QED BY <1>1, <1>4, <1>5, <1>6, <2>1
<1> QED BY <1>4, <1>5, <1>6

-----------------------------------------------------------------------------
(* Types.                                                                  *)

LEMMA UnlinkedTyped ==
  ASSUME NEW credit \in [Actors -> Credit], NEW c
  PROVE  Unlinked(credit, c) \in [Actors -> Credit]
  BY DEF Unlinked, Credit

LEMMA StoredTyped ==
  ASSUME NEW f \in Fetch, f.at = "store"
  PROVE  /\ Matched(f) \in [Actors -> Credit]
         /\ MatchedCuts(f) \in [Pulls -> [Actors -> Credit]]
<1>1. f.roster \in SUBSET Characters
  BY FetchFields
<1> QED BY <1>1, MatchIs DEF Matched, MatchedCuts, Credit

\* The pulls a log has, and the players in each.
LEMMA LogIs ==
  ASSUME NEW l \in Log
  PROVE  DOMAIN l \subseteq Pulls /\ \A p \in DOMAIN l : l[p] \in Attendances
  BY DEF Log

\* What a step of the fetch hands to the next.
LEMMA FetchStepTyped ==
  ASSUME Typed
  PROVE  /\ Idle \in Fetch
         /\ FetchBegins => fetch' \in Fetch
         /\ ReadNight => fetch' \in Fetch
         /\ ReadCuts => fetch' \in Fetch
         /\ CutsFail => fetch' \in Fetch
         /\ ReadRoster => fetch' \in Fetch
<1>1. Idle \in Fetch
  BY DEF Fetch
<1>2. FetchBegins => fetch' \in Fetch
  BY DEF FetchBegins, Fetch, Typed, Row
<1>3. ReadNight => fetch' \in Fetch
  <2> SUFFICES ASSUME ReadNight PROVE fetch' \in Fetch
    OBVIOUS
  <2>1. PICK shown \in {DOMAIN log, {}}, raiders \in SUBSET Raiders(log), live \in BOOLEAN :
          fetch' = [at |-> "cuts", held |-> fetch.held, torn |-> raiders # Raiders(log),
                    report |-> [revision |-> revision, live |-> live,
                                fights |-> shown, raiders |-> raiders]]
    BY DEF ReadNight
  <2>2. fetch.held \in 0..MaxRevision
    BY FetchFields DEF ReadNight, Typed
  <2>3. shown \subseteq Pulls /\ raiders \in Attendances
    BY LogIs DEF Raiders, Typed, WclTyped, Attendances
  <2>4. [revision |-> revision, live |-> live, fights |-> shown, raiders |-> raiders] \in Report
    BY <2>3 DEF Report, Typed, WclTyped
  <2> QED BY <2>1, <2>2, <2>4 DEF Fetch
<1>4. ASSUME NEW cut \in Cut, NEW tear \in BOOLEAN, NEW lost \in SUBSET Pulls,
             fetch.at = "cuts", CutsRead(cut, tear, lost)
      PROVE  fetch' \in Fetch
  <2>1. fetch.held \in 0..MaxRevision /\ fetch.report \in Report /\ fetch.torn \in BOOLEAN
    BY <1>4, FetchFields DEF Typed
  <2> QED BY <1>4, <2>1 DEF CutsRead, Fetch
<1>5. ReadCuts => fetch' \in Fetch
  <2> SUFFICES ASSUME ReadCuts PROVE fetch' \in Fetch
    OBVIOUS
  <2>1. PICK sent \in Cut :
          CutsRead([p \in Pulls |-> IF p \in Read(fetch.report.fights) THEN sent[p] ELSE {}],
                   revision # fetch.report.revision, {p \in Pulls : sent[p] = {}})
    BY DEF ReadCuts
  <2> DEFINE cut == [p \in Pulls |-> IF p \in Read(fetch.report.fights) THEN sent[p] ELSE {}]
  <2> DEFINE tear == revision # fetch.report.revision
  <2> DEFINE lost == {p \in Pulls : sent[p] = {}}
  <2>2. cut \in Cut /\ tear \in BOOLEAN /\ lost \in SUBSET Pulls
    BY DEF Cut, Attendances
  <2>3. CutsRead(cut, tear, lost) /\ fetch.at = "cuts"
    BY <2>1 DEF ReadCuts
  <2> HIDE DEF cut, tear, lost
  <2> QED BY <1>4, <2>2, <2>3
<1>6. CutsFail => fetch' \in Fetch
  <2>1. NoneSeen \in Cut
    BY DEF NoneSeen, Cut, Attendances
  <2> DEFINE no == FALSE
  <2>2. no \in BOOLEAN /\ Pulls \in SUBSET Pulls /\ (CutsFail => CutsRead(NoneSeen, no, Pulls))
    BY DEF CutsFail
  <2> HIDE DEF no
  <2> QED BY <1>4, <2>1, <2>2 DEF CutsFail
<1>7. ReadRoster => fetch' \in Fetch
  <2> SUFFICES ASSUME ReadRoster PROVE fetch' \in Fetch
    OBVIOUS
  <2>1. /\ fetch.held \in 0..MaxRevision /\ fetch.report \in Report
        /\ fetch.cut \in Cut /\ fetch.torn \in BOOLEAN /\ fetch.missed \subseteq Pulls
    BY FetchFields DEF Typed, ReadRoster
  <2>2. Roster \in SUBSET Characters
    BY DEF Roster
  <2> QED BY <2>1, <2>2 DEF ReadRoster, Fetch
<1> QED BY <1>1, <1>2, <1>3, <1>5, <1>6, <1>7

LEMMA PageStepTyped ==
  ASSUME Typed, ReadPage
  PROVE  page' \in Page
<1>0. page \in Page /\ NumbersTyped /\ PeopleTyped
  BY DEF Typed
<1>1. CASE OpenPage
  BY <1>1 DEF OpenPage, Page
<1>2. CASE ListFights
  BY <1>0, <1>2, PageFields DEF ListFights, Page, NumbersTyped
<1>3. CASE ListRaiders
  BY <1>0, <1>3, PageFields DEF ListRaiders, Page, NumbersTyped
<1>4. CASE ListFightRaiders
  BY <1>0, <1>4, PageFields DEF ListFightRaiders, Page, NumbersTyped
<1>5. CASE ListExpected
  BY <1>0, <1>5, PageFields DEF ListExpected, Page, PeopleTyped
<1>6. CASE ClosePage
  BY <1>6 DEF ClosePage, Page
<1> QED BY <1>1, <1>2, <1>3, <1>4, <1>5, <1>6 DEF ReadPage

LEMMA TypesHold == TypeOK /\ [Next]_vars => TypeOK'
<1> SUFFICES ASSUME TypeOK, [Next]_vars PROVE Typed'
  BY DEF TypeOK, Typed, WclTyped, PeopleTyped, NumbersTyped, CountsTyped
<1>0. Typed
  BY TypeParts
<1> USE <1>0, RaidLogAssumption
<1>1. ASSUME NEW c \in Characters, Register(c) \/ Answer(c) PROVE Typed'
  <2>1. PeopleTyped'
    BY <1>1 DEF Register, Answer, people, Typed, PeopleTyped
  <2>2. CountsTyped'
    BY <1>1 DEF Register, Answer, Write, client, Typed, CountsTyped
  <2> QED BY <1>1, <2>1, <2>2 DEF Register, Answer, wcl, stored, history, Typed, WclTyped, NumbersTyped
<1>2. ASSUME NEW c \in Characters, Remove(c) PROVE Typed'
  <2>1. NumbersTyped'
    BY <1>2, UnlinkedTyped DEF Remove, history, Typed, NumbersTyped
  <2>2. PeopleTyped'
    BY <1>2 DEF Remove, Typed, PeopleTyped
  <2>3. CountsTyped'
    BY <1>2 DEF Remove, Write, client, Typed, CountsTyped
  <2> QED BY <1>2, <2>1, <2>2, <2>3 DEF Remove, wcl, Typed, WclTyped
<1>3. CASE RequestRefresh
  <2>1. CountsTyped'
    BY <1>3 DEF RequestRefresh, Write, client, Typed, CountsTyped
  <2>2. row' \in Row
    BY <1>3 DEF RequestRefresh, Typed, Row
  <2> QED BY <1>3, <2>1, <2>2 DEF RequestRefresh, wcl, people, history, Typed, WclTyped, PeopleTyped, NumbersTyped
<1>4. CASE Reprocess
  <2>1. WclTyped'
    BY <1>4 DEF Reprocess, Typed, WclTyped
  <2> QED BY <1>4, <2>1 DEF Reprocess, client, people, stored, history, Typed, PeopleTyped, NumbersTyped, CountsTyped
<1>5. CASE Revoke \/ Expire
  <2>1. CountsTyped'
    BY <1>5 DEF Revoke, Expire, Lose, Typed, CountsTyped
  <2> QED BY <1>5, <2>1 DEF Revoke, Expire, wcl, people, stored, history, Typed, WclTyped,
          PeopleTyped, NumbersTyped
<1>6. CASE FetchBegins \/ ReadNight \/ ReadRoster
  <2>1. fetch' \in Fetch
    BY <1>6, FetchStepTyped
  <2>2. CountsTyped'
    BY <1>6 DEF FetchBegins, ReadNight, ReadRoster, Arrives, Lose, client, Typed, CountsTyped
  <2> QED BY <1>6, <2>1, <2>2 DEF FetchBegins, ReadNight, ReadRoster, wcl, people, stored, history, Typed,
          WclTyped, PeopleTyped, NumbersTyped
<1>7. CASE ExchangeToken \/ NightUnauthorized
  <2>1. fetch' \in Fetch
    BY <1>7, FetchStepTyped DEF ExchangeToken, NightUnauthorized, Typed
  <2>2. CountsTyped'
    BY <1>7 DEF ExchangeToken, NightUnauthorized, Forgotten, Typed, CountsTyped
  <2> QED BY <1>7, <2>1, <2>2 DEF ExchangeToken, NightUnauthorized, wcl, people, stored, history,
          Typed, WclTyped, PeopleTyped, NumbersTyped
<1>8. CASE ReadCuts \/ CutsFail
  <2>1. fetch' \in Fetch
    BY <1>8, FetchStepTyped
  <2>2. token' \in {"none", "held", "revoked"} /\ spent' = spent
    BY <1>8 DEF ReadCuts, CutsFail, Forgotten, client, Typed, CountsTyped
  <2>3. writes' = writes /\ losses' \in 0..MaxLosses
    <3>1. writes' = writes /\ (losses' = losses \/ Lose)
      BY <1>8 DEF ReadCuts, CutsFail, Arrives
    <3> QED BY <3>1 DEF Lose, Typed, CountsTyped
  <2>4. CountsTyped'
    BY <2>2, <2>3 DEF Typed, CountsTyped
  <2> QED BY <1>8, <2>1, <2>4 DEF ReadCuts, CutsFail, wcl, people, stored, history, Typed, WclTyped,
          PeopleTyped, NumbersTyped
<1>9. CASE Refused \/ NightFails
  <2>1. row' \in Row
    BY <1>9 DEF Refused, NightFails, Typed, Row
  <2>2. Lose /\ spent' \in BOOLEAN /\ token' = token /\ writes' = writes
    BY <1>9 DEF Refused, NightFails
  <2>3. CountsTyped'
    BY <2>2 DEF Lose, Typed, CountsTyped
  <2> QED BY <1>9, <2>1, <2>3, FetchStepTyped DEF Refused, NightFails, wcl, people, history, Typed, WclTyped,
          PeopleTyped, NumbersTyped
<1>10. CASE StoreFetched
  <2>1. /\ fetch.report \in Report /\ fetch.at = "store" /\ fetch.held \in 0..MaxRevision
        /\ fetch.torn \in BOOLEAN /\ fetch.missed \subseteq Pulls
    BY <1>10, FetchFields DEF StoreFetched, Typed
  <2>2. NumbersTyped'
    BY <1>10, <2>1, StoredTyped DEF StoreFetched, Replaced, Typed, NumbersTyped, Report
  <2>3. row' \in Row
    BY <1>10, <2>1 DEF StoreFetched, Row, Report
  <2>4. page' \in Page
    BY <1>10 DEF StoreFetched, Page, Typed
  <2>5. CountsTyped'
    BY <1>10 DEF StoreFetched, Observed, Arrives, Lose, Typed, CountsTyped
  <2> QED BY <1>10, <2>2, <2>3, <2>4, <2>5, FetchStepTyped DEF StoreFetched, wcl, people, Typed, WclTyped,
          PeopleTyped
<1>11. CASE StoreFails
  <2>1. CountsTyped'
    BY <1>11 DEF StoreFails, Observed, Arrives, Lose, Typed, CountsTyped
  <2> QED BY <1>11, <2>1, FetchStepTyped DEF StoreFails, wcl, people, stored, history, Typed, WclTyped,
          PeopleTyped, NumbersTyped
<1>12. CASE WorkerDies
  <2>0. spent' \in BOOLEAN
    BY <1>12 DEF WorkerDies
  <2>1. CountsTyped'
    BY <1>12, <2>0 DEF WorkerDies, Lose, Typed, CountsTyped
  <2> QED BY <1>12, <2>1, FetchStepTyped DEF WorkerDies, wcl, people, stored, history, Typed, WclTyped,
          PeopleTyped, NumbersTyped
<1>13. CASE ReadPage /\ UNCHANGED <<wcl, client, people, stored, fetch, writes, losses>>
  BY <1>13, PageStepTyped DEF wcl, client, people, stored, history, Typed, WclTyped, PeopleTyped,
     NumbersTyped, CountsTyped
<1>14. CASE UNCHANGED vars
  BY <1>14 DEF vars, wcl, client, people, stored, history, Typed, WclTyped, PeopleTyped, NumbersTyped,
     CountsTyped
<1> QED BY <1>1, <1>2, <1>3, <1>4, <1>5, <1>6, <1>7, <1>8, <1>9, <1>10, <1>11, <1>12, <1>13, <1>14
        DEF Next, Worker

LEMMA TypesBegin == Init => TypeOK
<1> SUFFICES ASSUME Init PROVE Typed
  BY TypeParts
<1>0. torn \in BOOLEAN /\ spent \in BOOLEAN
  BY DEF Init
<1>1. log \in Log /\ MaxRevision \in Nat \ {0}
  BY RaidLogAssumption DEF Init
<1>2. NoCuts \in [Pulls -> [Actors -> Credit]] /\ Nobody \in [Actors -> Credit]
  BY DEF NoCuts, Nobody, Credit
<1>3. row \in Row
  BY <1>1 DEF Init, Row, NoRevision
<1>4. WclTyped /\ NumbersTyped
  BY <1>0, <1>1, <1>2 DEF Init, WclTyped, NumbersTyped
<1>5. PeopleTyped /\ CountsTyped
  BY <1>0, RaidLogAssumption DEF Init, Roster, PeopleTyped, CountsTyped
<1> QED BY <1>3, <1>4, <1>5 DEF Init, Typed, Fetch, Page

\* The stored night, what the worker holds of the next and what a page has read keep
\* their types.
THEOREM LogTyped == Spec => []TypeOK
  BY TypesBegin, TypesHold, PTL DEF Spec
-----------------------------------------------------------------------------
(* What is stored, what is fetched and what is shown.                      *)

\* Too many pulls come before p for it to be asked for.
Tail(p, pulls) == Cardinality({q \in pulls : q < p}) >= MaxFightsRead

\* A second document of the first one's revision knows nobody a whole first one does not,
\* and a pull it sends anything of is lacking only for want of room.
CutSound(f) ==
  /\ \A p \in Pulls : f.cut[p] # {} => p \in f.report.fights
  /\ ~f.torn => \A p \in Pulls : f.cut[p] \subseteq f.report.raiders
  /\ \A p \in f.report.fights \ f.missed : f.cut[p] = {} => Tail(p, f.report.fights)

FetchSound ==
  /\ fetch.at = "cuts" =>
       /\ fetch.report.revision <= revision
       /\ fetch.report.revision = revision /\ ~fetch.torn => fetch.report.raiders = Raiders(log)
  /\ fetch.at \in {"match", "store"} => CutSound(fetch)

\* Unless the night's tables were torn or it was read after a reprocessing, a pull has rows
\* of the night's raiders only.
PullsAreOfTheNight ==
  ~torn => \A p \in Pulls, a \in Actors : cuts[p][a] # Absent => night[a] # Absent

StoredSound == NoPhantomPulls /\ PullsNeverContradict /\ OnlyTheTailIsUncut /\ PullsAreOfTheNight

\* What a page no store has overtaken read of the night is still so, but for characters
\* removed since; whom it shows in a pull, it shows in the night.
PageFades ==
  page.at \in {"cuts", "expected", "served"} =>
    \A a \in Actors : night[a] \in {page.raiders[a], Stranger}
PageAgrees ==
  page.at \in {"expected", "served"} /\ ~torn =>
    \A p \in Pulls, a \in Actors :
      Placed(a) /\ page.cuts[p][a] \in Characters => page.raiders[a] = page.cuts[p][a]
PageCounts == page.at = "served" => page.missing \cap Attended(page.raiders) = {}

PageSound == PageFades /\ PageAgrees /\ PageCounts

NightInv == TypeOK /\ FetchSound /\ StoredSound /\ PageSound

\* A row of tables nobody is in.
LEMMA NobodyIs ==
  ASSUME NEW S, NEW credit \in [Actors -> S]
  PROVE  credit = Nobody <=> \A a \in Actors : credit[a] = Absent
  BY DEF Nobody

\* Removing a character leaves rows, and of others whose they were.
LEMMA UnlinkedIs ==
  ASSUME NEW credit \in [Actors -> Credit], NEW c \in Characters
  PROVE  /\ \A a \in Actors : /\ Unlinked(credit, c)[a] = IF credit[a] = c THEN Stranger ELSE credit[a]
                              /\ Unlinked(credit, c)[a] = Absent <=> credit[a] = Absent
         /\ Unlinked(credit, c) = Nobody <=> credit = Nobody
<1>1. \A a \in Actors : /\ Unlinked(credit, c)[a] = IF credit[a] = c THEN Stranger ELSE credit[a]
                        /\ Unlinked(credit, c)[a] = Absent <=> credit[a] = Absent
  BY RaidLogAssumption DEF Unlinked
<1>2. Unlinked(credit, c) \in [Actors -> Credit]
  BY UnlinkedTyped
<1> QED BY <1>1, <1>2, NobodyIs

\* The rows a store writes: of whom the documents name, and nobody else.
LEMMA StoredIs ==
  ASSUME NEW f \in Fetch, f.at = "store"
  PROVE  /\ \A a \in Actors : Matched(f)[a] = Absent <=> a \notin f.report.raiders
         /\ \A p \in Pulls, a \in Actors : MatchedCuts(f)[p][a] = Absent <=> a \notin f.cut[p]
         /\ \A p \in Pulls : MatchedCuts(f)[p] = Nobody <=> f.cut[p] = {}
         /\ \A p \in Pulls, a \in Actors : Placed(a) /\ a \in f.report.raiders /\ a \in f.cut[p] =>
              MatchedCuts(f)[p][a] \in {Matched(f)[a], Stranger}
<1>0. f.roster \in SUBSET Characters /\ f.cut \in Cut
  BY FetchFields
<1>1. \A a \in Actors : Matched(f)[a] = Absent <=> a \notin f.report.raiders
  BY <1>0, MatchIs DEF Matched
<1>2. \A p \in Pulls, a \in Actors : MatchedCuts(f)[p][a] = Absent <=> a \notin f.cut[p]
  BY <1>0, MatchIs DEF MatchedCuts
<1>3. \A p \in Pulls : MatchedCuts(f)[p] = Nobody <=> f.cut[p] = {}
  <2> TAKE p \in Pulls
  <2>1. MatchedCuts(f)[p] \in [Actors -> Credit]
    BY StoredTyped
  <2>2. f.cut[p] \subseteq Actors
    BY <1>0 DEF Cut, Attendances
  <2> QED BY <1>2, <2>1, <2>2, NobodyIs
<1>4. \A p \in Pulls, a \in Actors : Placed(a) /\ a \in f.report.raiders /\ a \in f.cut[p] =>
        MatchedCuts(f)[p][a] \in {Matched(f)[a], Stranger}
  <2> TAKE p \in Pulls, a \in Actors
  <2> HAVE Placed(a) /\ a \in f.report.raiders /\ a \in f.cut[p]
  <2>1. Matched(f)[a] = Match(a, Server(a), f.roster)
    BY DEF Matched
  <2>2. MatchedCuts(f)[p][a] = Match(a, NoRealm, f.roster)
    BY DEF MatchedCuts
  <2> QED BY <1>0, <2>1, <2>2, ServerlessMatch
<1> QED BY <1>1, <1>2, <1>3, <1>4

\* Pulls that fit are asked for.
LEMMA UnreadIsTail ==
  ASSUME NEW pulls \in SUBSET Pulls, NEW p \in pulls, p \notin Read(pulls)
  PROVE  Tail(p, pulls)
<1>1. IsFiniteSet({q \in pulls : q < p})
  BY RaidLogAssumption, FS_Subset
<1>2. Cardinality({q \in pulls : q < p}) \in Nat
  BY <1>1, FS_CardinalityType
<1> QED BY <1>2, RaidLogAssumption DEF Read, Tail

LEMMA FetchSoundHolds == TypeOK /\ FetchSound /\ [Next]_vars => FetchSound'
<1> SUFFICES ASSUME Typed, FetchSound, [Next]_vars PROVE FetchSound'
  BY TypeParts
<1>0. revision \in Nat /\ (fetch.at = "cuts" => fetch.report \in Report)
  BY FetchFields DEF Typed, WclTyped
<1>1. ASSUME UNCHANGED <<wcl, fetch>> PROVE FetchSound'
  BY <1>1 DEF FetchSound, CutSound, wcl
<1>2. CASE Reprocess
  BY <1>0, <1>2 DEF Reprocess, FetchSound, CutSound, Report
<1>3. ASSUME fetch' = Idle PROVE FetchSound'
  BY <1>3 DEF FetchSound, Idle
<1>4. CASE FetchBegins
  BY <1>4 DEF FetchBegins, FetchSound
<1>5. CASE ReadNight
  <2>0. PICK shown \in {DOMAIN log, {}}, raiders \in SUBSET Raiders(log), live \in BOOLEAN :
          fetch' = [at |-> "cuts", held |-> fetch.held, torn |-> raiders # Raiders(log),
                    report |-> [revision |-> revision, live |-> live, fights |-> shown,
                                raiders |-> raiders]]
    BY <1>5 DEF ReadNight
  <2>1. /\ fetch'.at = "cuts" /\ (fetch'.torn \/ raiders = Raiders(log))
        /\ fetch'.report.revision = revision /\ fetch'.report.raiders = raiders
    BY <2>0
  <2>2. log' = log /\ revision' = revision
    BY <1>5 DEF ReadNight, wcl
  <2>3. Raiders(log') = Raiders(log)
    BY <2>2
  <2> QED BY <1>0, <2>1, <2>2, <2>3 DEF FetchSound
<1>6. CASE ReadCuts
  <2>0. PICK sent \in Cut :
          /\ \A p \in Pulls : sent[p] \subseteq Entries(p)
          /\ CutsRead([p \in Pulls |-> IF p \in Read(fetch.report.fights) THEN sent[p] ELSE {}],
                      revision # fetch.report.revision, {p \in Pulls : sent[p] = {}})
    BY <1>6 DEF ReadCuts
  <2> DEFINE cut == [p \in Pulls |-> IF p \in Read(fetch.report.fights) THEN sent[p] ELSE {}]
  <2>1. fetch.at = "cuts" /\ fetch.report \in Report /\ fetch.report.fights \in SUBSET Pulls
    BY <1>0, <1>6 DEF ReadCuts, Report
  <2>2. /\ fetch'.at = "match" /\ fetch'.report = fetch.report /\ fetch'.cut = cut
        /\ fetch'.torn = (fetch.torn \/ revision # fetch.report.revision)
        /\ fetch'.missed = {p \in Pulls : sent[p] = {}}
    BY <2>0 DEF CutsRead
  <2>3. \A p \in Pulls : cut[p] # {} => p \in fetch.report.fights
    BY DEF Read
  <2>4. ASSUME ~fetch.torn, revision = fetch.report.revision, NEW p \in Pulls
        PROVE  cut[p] \subseteq fetch.report.raiders
    <3>1. fetch.report.raiders = Raiders(log)
      BY <2>1, <2>4 DEF FetchSound
    <3>2. Entries(p) \subseteq Raiders(log)
      BY DEF Entries, Raiders
    <3> QED BY <2>0, <3>1, <3>2
  <2>5. ASSUME NEW p \in fetch.report.fights, sent[p] # {}, cut[p] = {}
        PROVE  Tail(p, fetch.report.fights)
    BY <2>1, <2>5, UnreadIsTail
  <2> HIDE DEF cut
  <2>6. CutSound(fetch')
    BY <2>1, <2>2, <2>3, <2>4, <2>5 DEF CutSound
  <2> QED BY <2>2, <2>6 DEF FetchSound
<1>7. CASE CutsFail
  <2>1. /\ fetch'.at = "match" /\ fetch'.report = fetch.report
        /\ fetch'.cut = NoneSeen /\ fetch'.missed = Pulls
    BY <1>7 DEF CutsFail, CutsRead
  <2>2. fetch.report.fights \subseteq Pulls
    BY <1>0, <1>7 DEF CutsFail, Report
  <2> QED BY <2>1, <2>2 DEF FetchSound, CutSound, NoneSeen
<1>8. CASE ReadRoster
  BY <1>8 DEF ReadRoster, FetchSound, CutSound
<1> QED BY <1>1, <1>2, <1>3, <1>4, <1>5, <1>6, <1>7, <1>8 DEF Next, Worker, Register, Remove, Answer,
        RequestRefresh, Revoke, Expire, ExchangeToken, NightUnauthorized, StoreFetched, StoreFails,
        Refused, NightFails, WorkerDies, vars, wcl

LEMMA StoredSoundHolds == TypeOK /\ FetchSound /\ StoredSound /\ [Next]_vars => StoredSound'
<1> SUFFICES ASSUME Typed, FetchSound, StoredSound, [Next]_vars PROVE StoredSound'
  BY TypeParts
<1>0. NumbersTyped
  BY DEF Typed
<1>1. ASSUME UNCHANGED <<fights, night, cuts, torn, missed>> PROVE StoredSound'
  BY <1>1 DEF StoredSound, NoPhantomPulls, PullsNeverContradict, OnlyTheTailIsUncut, PullsAreOfTheNight
<1>2. ASSUME NEW c \in Characters, Remove(c) PROVE StoredSound'
  <2>1. fights' = fights /\ torn' = torn /\ missed' = missed /\ night' = Unlinked(night, c)
    BY <1>2 DEF Remove, history
  <2>2. \A p \in Pulls : cuts'[p] = Unlinked(cuts[p], c)
    BY <1>2 DEF Remove
  <2>3. \A p \in Pulls : cuts'[p] = Nobody <=> cuts[p] = Nobody
    BY <1>0, <2>2, UnlinkedIs DEF NumbersTyped
  <2>4. \A a \in Actors :
          /\ night'[a] = IF night[a] = c THEN Stranger ELSE night[a]
          /\ night'[a] = Absent <=> night[a] = Absent
    BY <1>0, <2>1, UnlinkedIs DEF NumbersTyped
  <2>5. \A p \in Pulls, a \in Actors :
          /\ cuts'[p][a] = IF cuts[p][a] = c THEN Stranger ELSE cuts[p][a]
          /\ cuts'[p][a] = Absent <=> cuts[p][a] = Absent
    BY <1>0, <2>2, UnlinkedIs DEF NumbersTyped
  <2>6. NoPhantomPulls'
    BY <2>1, <2>3 DEF StoredSound, NoPhantomPulls
  <2>7. PullsNeverContradict'
    BY <2>4, <2>5 DEF StoredSound, PullsNeverContradict
  <2>8. OnlyTheTailIsUncut'
    BY <1>0, <2>1, <2>3 DEF StoredSound, OnlyTheTailIsUncut, NumbersTyped
  <2>9. PullsAreOfTheNight'
    BY <2>1, <2>4, <2>5 DEF StoredSound, PullsAreOfTheNight
  <2> QED BY <2>6, <2>7, <2>8, <2>9 DEF StoredSound
<1>3. CASE StoreFetched
  <2>1. fetch \in Fetch /\ fetch.at = "store" /\ fetch.report \in Report /\ CutSound(fetch)
    BY <1>3, FetchFields DEF StoreFetched, Typed, FetchSound
  <2>2. /\ fights' = fetch.report.fights /\ night' = Matched(fetch)
        /\ cuts' = MatchedCuts(fetch) /\ torn' = fetch.torn /\ missed' = fetch.missed
    BY <1>3 DEF StoreFetched, Replaced
  <2>3. fights' \subseteq Pulls
    BY <2>1, <2>2 DEF Report
  <2>4. NoPhantomPulls'
    BY <2>1, <2>2, StoredIs DEF NoPhantomPulls, CutSound
  <2>5. PullsNeverContradict'
    BY <2>1, <2>2, StoredIs DEF PullsNeverContradict
  <2>6. OnlyTheTailIsUncut'
    BY <2>1, <2>2, <2>3, StoredIs DEF OnlyTheTailIsUncut, CutSound, Tail
  <2>7. PullsAreOfTheNight'
    BY <2>1, <2>2, StoredIs DEF PullsAreOfTheNight, CutSound
  <2> QED BY <2>4, <2>5, <2>6, <2>7 DEF StoredSound
<1> QED BY <1>1, <1>2, <1>3 DEF Next, Worker, Register, Answer, RequestRefresh, Reprocess, Revoke,
        Expire, FetchBegins, ExchangeToken, ReadNight, NightUnauthorized, ReadCuts, CutsFail, ReadRoster,
        StoreFails, Refused, NightFails, WorkerDies, vars, stored, history

LEMMA PageSoundHolds ==
  TypeOK /\ StoredSound /\ PageSound /\ [Next]_vars => PageSound'
<1> SUFFICES ASSUME Typed, StoredSound, PageSound, [Next]_vars PROVE PageSound'
  BY TypeParts
<1>0. NumbersTyped /\ page \in Page
  BY DEF Typed
<1>1. ASSUME UNCHANGED <<page, night, torn>> PROVE PageSound'
  BY <1>1 DEF PageSound, PageFades, PageAgrees, PageCounts, Attended
<1>2. ASSUME NEW c \in Characters, Remove(c) PROVE PageSound'
  <2>1. page' = page /\ torn' = torn /\ night' = Unlinked(night, c)
    BY <1>2 DEF Remove, history
  <2>2. \A a \in Actors : night'[a] \in {night[a], Stranger}
    BY <1>0, <2>1, UnlinkedIs DEF NumbersTyped
  <2>3. PageFades'
    BY <2>1, <2>2 DEF PageSound, PageFades
  <2> QED BY <2>1, <2>3 DEF PageSound, PageAgrees, PageCounts, Attended
<1>3. CASE StoreFetched
  <2>1. page' \in {Closed, Overtaken}
    BY <1>3 DEF StoreFetched
  <2>2. page'.at \in {"closed", "overtaken"}
    BY <2>1 DEF Closed, Overtaken
  <2> QED BY <2>2 DEF PageSound, PageFades, PageAgrees, PageCounts
<1>4. CASE ReadPage /\ UNCHANGED <<wcl, client, people, stored, fetch, writes, losses>>
  <2>0. night' = night /\ torn' = torn
    BY <1>4 DEF stored, history
  <2>1. CASE OpenPage \/ ListFights \/ ClosePage
    <3>1. page'.at \in {"fights", "raiders", "closed"}
      BY <2>1 DEF OpenPage, ListFights, ClosePage, Closed
    <3> QED BY <3>1 DEF PageSound, PageFades, PageAgrees, PageCounts
  <2>2. CASE ListRaiders
    <3>1. page'.at = "cuts" /\ page'.raiders = night
      BY <2>2 DEF ListRaiders
    <3> QED BY <2>0, <3>1 DEF PageSound, PageFades, PageAgrees, PageCounts
  <2>3. CASE ListFightRaiders
    <3>1. /\ page.at = "cuts" /\ page'.at = "expected"
          /\ page'.raiders = page.raiders /\ page'.cuts = cuts
      BY <2>3 DEF ListFightRaiders
    <3>2. PageFades'
      BY <2>0, <3>1 DEF PageSound, PageFades
    <3>3. ASSUME ~torn, NEW p \in Pulls, NEW a \in Actors,
                 Placed(a), cuts[p][a] \in Characters
          PROVE  page.raiders[a] = cuts[p][a]
      <4>1. cuts[p][a] \notin {Absent, Stranger}
        BY <3>3, RaidLogAssumption
      <4>2. night[a] # Absent
        BY <3>3, <4>1 DEF StoredSound, PullsAreOfTheNight
      <4>3. night[a] = cuts[p][a]
        BY <3>3, <4>1, <4>2 DEF StoredSound, PullsNeverContradict
      <4> QED BY <3>1, <3>3, <4>1, <4>3 DEF PageSound, PageFades
    <3>4. PageAgrees'
      BY <2>0, <3>1, <3>3 DEF PageAgrees
    <3> QED BY <3>1, <3>2, <3>4 DEF PageSound, PageCounts
  <2>4. CASE ListExpected
    <3>1. /\ page.at = "expected" /\ page'.at = "served"
          /\ page'.raiders = page.raiders /\ page'.cuts = page.cuts
          /\ page'.missing = expected \ Attended(page.raiders)
      BY <2>4 DEF ListExpected
    <3> QED BY <2>0, <3>1 DEF PageSound, PageFades, PageAgrees, PageCounts
  <2> QED BY <1>4, <2>1, <2>2, <2>3, <2>4 DEF ReadPage
<1> QED BY <1>1, <1>2, <1>3, <1>4 DEF Next, Worker, Register, Answer, RequestRefresh, Reprocess, Revoke,
        Expire, FetchBegins, ExchangeToken, ReadNight, NightUnauthorized, ReadCuts, CutsFail, ReadRoster,
        StoreFails, Refused, NightFails, WorkerDies, vars, stored, history

LEMMA NightBegins == Init => NightInv
<1> SUFFICES ASSUME Init PROVE FetchSound /\ StoredSound /\ PageSound
  BY TypesBegin DEF NightInv
<1>1. FetchSound /\ PageSound
  BY DEF Init, FetchSound, PageSound, PageFades, PageAgrees, PageCounts, Idle, Closed
<1>2. \A p \in Pulls : cuts[p] = Nobody
  BY DEF Init, NoCuts
<1>3. \A p \in Pulls, a \in Actors : cuts[p][a] = Absent
  BY <1>2 DEF Nobody
<1>4. StoredSound
  BY <1>2, <1>3 DEF Init, StoredSound, NoPhantomPulls, PullsNeverContradict, OnlyTheTailIsUncut,
     PullsAreOfTheNight
<1> QED BY <1>1, <1>4

LEMMA NightHolds == Spec => []NightInv
<1>1. NightInv /\ [Next]_vars => NightInv'
  BY TypesHold, FetchSoundHolds, StoredSoundHolds, PageSoundHolds DEF NightInv
<1> QED BY <1>1, NightBegins, PTL DEF Spec

\* Whatever WarcraftLogs reprocesses between and during fetches, the per-pull rows are
\* of pulls that are stored.
THEOREM PullsAreStored == Spec => []NoPhantomPulls
<1>1. NightInv => NoPhantomPulls
  BY DEF NightInv, StoredSound
<1> QED BY <1>1, NightHolds, PTL

\* For any roster and any change of it, the pulls credit a player's numbers to the
\* character the night does, or to nobody.
THEOREM PullsAgreeWithTheNight == Spec => []PullsNeverContradict
<1>1. NightInv => PullsNeverContradict
  BY DEF NightInv, StoredSound
<1> QED BY <1>1, NightHolds, PTL

\* Whatever WarcraftLogs leaves out of its answers, a stored pull it sent anything of and
\* that has no numbers has more pulls before it than the second document asks for.
THEOREM TheRestIsCut == Spec => []OnlyTheTailIsUncut
<1>1. NightInv => OnlyTheTailIsUncut
  BY DEF NightInv, StoredSound
<1> QED BY <1>1, NightHolds, PTL

\* Nobody on a page's no-show list has a pull to their name on it, although the page is
\* read by one statement after another while characters come and go, if the night's tables
\* came whole and both documents were of one revision.
THEOREM TheMissingDidNotPlay == Spec => []MissingDidNotPlay
<1>1. NightInv => MissingDidNotPlay
  <2> SUFFICES ASSUME NightInv, page.at = "served", ~torn,
                      NEW p \in page.fights, NEW a \in Actors, Placed(a),
                      page.cuts[p][a] \in page.missing
               PROVE  FALSE
    BY DEF MissingDidNotPlay
  <2>1. page \in Page /\ page.fights \subseteq Pulls /\ page.missing \subseteq Characters
    BY PageFields DEF NightInv, TypeOK
  <2>2. page.raiders[a] = page.cuts[p][a] /\ page.cuts[p][a] \in Characters
    BY <2>1 DEF NightInv, PageSound, PageAgrees
  <2>3. page.cuts[p][a] \in Attended(page.raiders)
    BY <2>2, RaidLogAssumption DEF Attended
  <2> QED BY <2>3 DEF NightInv, PageSound, PageCounts
<1> QED BY <1>1, NightHolds, PTL
=============================================================================
