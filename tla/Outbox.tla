-------------------------------- MODULE Outbox --------------------------------
(***************************************************************************)
(* The notifications outbox (signup/outbox.go, queries/notification.sql):  *)
(* rows wait, a poller claims a batch for the length of a lease, sends it  *)
(* in Discord and acks each row, or reports the send Discord refused, and  *)
(* the service then tells the raid lead.                                   *)
(*                                                                         *)
(* The bot is not part of this repository; what is modelled of it is what  *)
(* the routes it calls expect of it.  Clocks are relative: an age counts   *)
(* from the claim and stops one past the lease, where nothing more can     *)
(* change.                                                                 *)
(***************************************************************************)
EXTENDS Integers, FiniteSets

CONSTANTS
  Bots,       \* poller processes
  MaxRows,    \* notifications ever queued (bound)
  Limit,      \* rows a claim may take
  Lease,      \* claimLease
  MaxLosses   \* calls lost or bots and servers dying mid-way (bound)

ASSUME OutboxAssumption ==
  MaxRows \in Nat /\ Limit \in Nat \ {0} /\ Lease \in Nat /\ MaxLosses \in Nat

VARIABLES
  rows,      \* the notifications table, by order of creation
  made,      \* rows created so far
  hand,      \* what each bot holds: the rows of its latest claim it has not settled
  filing,    \* MarkFailed calls between their ack and their report: rows
  reported,  \* the row each DELIVERY_FAILED report is about
  losses

vars == <<rows, made, hand, filing, reported, losses>>

Ids == 1..MaxRows
Lapsed == Lease + 1
Kinds == {"MESSAGE", "DELIVERY_FAILED"}   \* MESSAGE: every kind a bot may fail to send

\* claim: the age of claimed_at, Lapsed also standing for NULL.
Row == [kind : Kinds, claim : 0..Lapsed, delivered : BOOLEAN]
Held == [row : Ids, age : 0..Lapsed, did : {"nothing", "sent", "refused"}]

TypeOK ==
  /\ made \in 0..MaxRows
  /\ DOMAIN rows \subseteq 1..made
  /\ \A n \in DOMAIN rows : rows[n] \in Row
  /\ hand \in [Bots -> SUBSET Held]
  /\ filing \subseteq Ids
  /\ reported \in [Ids -> 0..MaxRows]
  /\ losses \in 0..MaxLosses

Init ==
  /\ rows = [n \in {} |-> 0]
  /\ made = 0
  /\ hand = [b \in Bots |-> {}]
  /\ filing = {}
  /\ reported = [n \in Ids |-> 0]
  /\ losses = 0

-----------------------------------------------------------------------------
(* The table.                                                              *)

NewRow(kind) == [kind |-> kind, claim |-> Lapsed, delivered |-> FALSE]

\* InsertNotification.
Insert(kind) ==
  /\ made < MaxRows
  /\ made' = made + 1
  /\ rows' = [n \in DOMAIN rows \union {made + 1} |->
                IF n = made + 1 THEN NewRow(kind) ELSE rows[n]]

\* A worker's tick or a write queues one.
Queue ==
  /\ Insert("MESSAGE")
  /\ UNCHANGED <<hand, filing, reported, losses>>

\* The event is deleted: the cascade takes its notifications.
Cascade ==
  /\ DOMAIN rows # {}
  /\ rows' = [n \in {} |-> 0]
  /\ UNCHANGED <<made, hand, filing, reported, losses>>

Older(age) == IF age < Lapsed THEN age + 1 ELSE age

\* Time passes for every claim that is not yet past its lease.
Clock ==
  /\ rows' = [n \in DOMAIN rows |-> [rows[n] EXCEPT !.claim = Older(@)]]
  /\ hand' = [b \in Bots |-> {[h EXCEPT !.age = Older(@)] : h \in hand[b]}]
  /\ <<rows, hand>>' # <<rows, hand>>
  /\ UNCHANGED <<made, filing, reported, losses>>

-----------------------------------------------------------------------------
(* Claiming.                                                               *)

\* MUTANT: the claim is only read, never checked: a row is everybody's until acked.
Claimable_WhileLeased(n) == ~rows[n].delivered

Claimable(n) == ~rows[n].delivered /\ rows[n].claim = Lapsed

\* ClaimNotifications: up to Limit of the oldest claimable rows, stamped and handed
\* over by one statement.  A bot asks again once it is through with its batch.
Claim(b) ==
  LET open == {n \in DOMAIN rows : Claimable(n)}
  IN /\ hand[b] = {}
     /\ \E batch \in (SUBSET open) \ {{}} :
          /\ Cardinality(batch) <= Limit
          /\ Cardinality(batch) = Limit \/ batch = open
          /\ \A n \in batch, m \in open \ batch : n < m
          /\ rows' = [n \in DOMAIN rows |->
                        IF n \in batch THEN [rows[n] EXCEPT !.claim = 0] ELSE rows[n]]
          /\ hand' = [hand EXCEPT ![b] = {[row |-> n, age |-> 0, did |-> "nothing"] : n \in batch}]
  /\ UNCHANGED <<made, filing, reported, losses>>

-----------------------------------------------------------------------------
(* Sending and settling.  The bot sends a held row once, then settles it.  *)

Send(b, h) ==
  /\ h \in hand[b]
  /\ h.did = "nothing"
  /\ \E outcome \in {"sent", "refused"} :
       hand' = [hand EXCEPT ![b] = (@ \ {h}) \union {[h EXCEPT !.did = outcome]}]
  /\ UNCHANGED <<rows, made, filing, reported, losses>>

Settled(b, h) == hand' = [hand EXCEPT ![b] = @ \ {h}]

\* MUTANT: an ack that comes after its lease is dropped.
Acked_WithinLease(n) ==
  rows' = [m \in DOMAIN rows |->
             IF m = n /\ rows[m].claim < Lapsed THEN [rows[m] EXCEPT !.delivered = TRUE] ELSE rows[m]]

\* The row is acked by id, whoever holds it by now; one that has gone is a 404.
Acked(n) ==
  rows' = [m \in DOMAIN rows |-> IF m = n THEN [rows[m] EXCEPT !.delivered = TRUE] ELSE rows[m]]

MarkDelivered(b, h) ==
  /\ h \in hand[b]
  /\ h.did = "sent"
  /\ Settled(b, h)
  /\ Acked(h.row)
  /\ UNCHANGED <<made, filing, reported, losses>>

Reportable(n) == rows[n].kind # "DELIVERY_FAILED"

\* MarkFailed up to its ack; the report, if there is to be one, is a second write.
MarkFailedAck(b, h) ==
  /\ h \in hand[b]
  /\ h.did = "refused"
  /\ Settled(b, h)
  /\ Acked(h.row)
  /\ filing' = IF h.row \in DOMAIN rows /\ Reportable(h.row) THEN filing \union {h.row} ELSE filing
  /\ UNCHANGED <<made, reported, losses>>

\* MUTANT: the report is filed for a row still held, ahead of its ack.
ReadyToReport_BeforeAck(n) ==
  n \in filing \/ \E b \in Bots : \E h \in hand[b] : h.row = n /\ h.did = "refused"

ReadyToReport(n) == n \in filing

\* The report, if the event is still there and its channel is known.
MarkFailedReport(n) ==
  /\ ReadyToReport(n)
  /\ n \in DOMAIN rows
  /\ filing' = filing \ {n}
  /\ \/ /\ Insert("DELIVERY_FAILED")
        /\ reported' = [reported EXCEPT ![made + 1] = n]
     \/ UNCHANGED <<rows, made, reported>>
  /\ UNCHANGED <<hand, losses>>

\* The event went between the ack and the report: GetEvent fails.
MarkFailedOrphaned(n) ==
  /\ n \in filing
  /\ n \notin DOMAIN rows
  /\ filing' = filing \ {n}
  /\ UNCHANGED <<rows, made, hand, reported, losses>>

\* A bot that dies, or whose ack is lost, forgets the row; the lease is what brings
\* it back.
Forget(b, h) ==
  /\ h \in hand[b]
  /\ losses < MaxLosses
  /\ losses' = losses + 1
  /\ Settled(b, h)
  /\ UNCHANGED <<rows, made, filing, reported>>

\* The server dies between the two writes of MarkFailed.
ReportLost(n) ==
  /\ n \in filing
  /\ losses < MaxLosses
  /\ losses' = losses + 1
  /\ filing' = filing \ {n}
  /\ UNCHANGED <<rows, made, hand, reported>>

BotStep(b) ==
  \/ Claim(b)
  \/ \E h \in hand[b] : Send(b, h) \/ MarkDelivered(b, h) \/ MarkFailedAck(b, h)

ReportStep == \E n \in Ids : MarkFailedReport(n) \/ MarkFailedOrphaned(n)

Next ==
  \/ Queue
  \/ Cascade
  \/ Clock
  \/ \E b \in Bots : BotStep(b)
  \/ ReportStep
  \/ \E b \in Bots : \E h \in hand[b] : Forget(b, h)
  \/ \E n \in Ids : ReportLost(n)

Spec == Init /\ [][Next]_vars

\* Bots keep polling and settle what they hold, the server finishes what it began,
\* and time passes.
FairSpec == Spec /\ WF_vars(Clock) /\ WF_vars(ReportStep) /\ \A b \in Bots : WF_vars(BotStep(b))

-----------------------------------------------------------------------------
(* Properties.                                                             *)

\* Two pollers never hold one row within a lease of each other: whoever claims it
\* second does so after the first claim has lapsed (ClaimNotifications' comment, "the
\* duplicate storm on every tick").
LeaseIsExclusive ==
  \A b, c \in Bots : b # c =>
    \A h \in hand[b], k \in hand[c] : h.row = k.row => h.age = Lapsed \/ k.age = Lapsed

\* What a live claim says is true: the newest holder of a row counts the same time
\* since the claim as the row does, so the lease cannot reopen under a prompt bot.
StampIsTheHolders ==
  \A b \in Bots : \A h \in hand[b] :
    h.age < Lapsed /\ h.row \in DOMAIN rows => rows[h.row].claim = h.age

\* A report of a failure is about a row that is settled, so that nothing tells the raid
\* lead of a send the next lease would retry (outbox.go:95-97), and never about another
\* report: the chain is at most one long (MarkFailed, "would file a report about itself,
\* forever").  DeliversOnLease, below, implies it.
ReportFollowsAck ==
  \A n \in DOMAIN rows : reported[n] # 0 =>
    /\ reported[reported[n]] = 0
    /\ reported[n] \in DOMAIN rows => rows[reported[n]].delivered

\* The outbox as Delivery tells it: a row is lent while its claim has not lapsed, to
\* whoever holds it at an age that has not.
PhaseOf(n) ==
  IF n \in DOMAIN rows
    THEN IF rows[n].delivered THEN "settled" ELSE IF rows[n].claim = Lapsed THEN "waiting" ELSE "lent"
    ELSE IF n <= made THEN "gone" ELSE "unwritten"

Prompt(n) == {b \in Bots : \E h \in hand[b] : h.row = n /\ h.age < Lapsed}

BearersOf(n) == IF PhaseOf(n) = "lent" THEN Prompt(n) ELSE {}

Desk == INSTANCE Delivery WITH
  Letters <- Ids, NoLetter <- 0, about <- reported,
  phase <- [n \in Ids |-> PhaseOf(n)],
  bearers <- [n \in Ids |-> BearersOf(n)]

\* Claims by a stamp, acks by id and reports in a second write add up to that delivery
\* (the comments on Outbox, MarkFailed and ClaimNotifications): no row is lent to two, a
\* loan ends with its lease, an ack is final, and only a settled failure is reported.
DeliversOnLease == Desk!Spec

\* At-least-once: every queued row is acked in the end, unless its event goes.
EveryRowIsSettled ==
  \A n \in Ids : (n \in DOMAIN rows) ~> (n \notin DOMAIN rows \/ rows[n].delivered)
================================================================================
