------------------------------- MODULE Delivery -------------------------------
(***************************************************************************)
(* What the outbox promises of a notification, without claims, stamps and  *)
(* batches in hand: it waits, is lent to one bot at a time, comes back     *)
(* when the loan runs out, and is settled once and for good; a failure is  *)
(* announced by a letter about one that is settled and announces nothing   *)
(* itself (outbox.go's comments on Outbox and MarkFailed, and              *)
(* ClaimNotifications').                                                   *)
(***************************************************************************)
CONSTANTS Bots, Letters, NoLetter

VARIABLES
  phase,    \* where each letter is
  bearers,  \* the bots that may be sending it
  about     \* the letter each failure report is about, NoLetter for the rest

vars == <<phase, bearers, about>>

Init ==
  /\ phase = [n \in Letters |-> "unwritten"]
  /\ bearers = [n \in Letters |-> {}]
  /\ about = [n \in Letters |-> NoLetter]

Post(n) ==
  /\ phase[n] = "unwritten"
  /\ phase' = [phase EXCEPT ![n] = "waiting"]
  /\ UNCHANGED <<bearers, about>>

\* A bot takes letters that nobody else has.
Take(b, batch) ==
  /\ \A n \in batch : phase[n] = "waiting"
  /\ phase' = [n \in Letters |-> IF n \in batch THEN "lent" ELSE phase[n]]
  /\ bearers' = [n \in Letters |-> IF n \in batch THEN {b} ELSE bearers[n]]
  /\ UNCHANGED about

\* A bot gives up on a letter; it stays lent until its time is over.
LetGo(n) ==
  /\ phase[n] = "lent"
  /\ bearers' = [bearers EXCEPT ![n] = {}]
  /\ UNCHANGED <<phase, about>>

\* The loans that are over come back together.
Lapse(batch) ==
  /\ \A n \in batch : phase[n] = "lent"
  /\ phase' = [n \in Letters |-> IF n \in batch THEN "waiting" ELSE phase[n]]
  /\ bearers' = [n \in Letters |-> IF n \in batch THEN {} ELSE bearers[n]]
  /\ UNCHANGED about

\* Sent, or refused and not worth another try, by whoever holds it or held it.
Settle(n) ==
  /\ phase[n] \in {"waiting", "lent"}
  /\ phase' = [phase EXCEPT ![n] = "settled"]
  /\ bearers' = [bearers EXCEPT ![n] = {}]
  /\ UNCHANGED about

\* m says of n that it did not arrive.
Report(m, n) ==
  /\ phase[n] = "settled"
  /\ about[n] = NoLetter
  /\ phase[m] = "unwritten"
  /\ phase' = [phase EXCEPT ![m] = "waiting"]
  /\ about' = [about EXCEPT ![m] = n]
  /\ UNCHANGED bearers

\* The event goes, and every letter written for it.
Withdraw ==
  /\ phase' = [n \in Letters |-> IF phase[n] = "unwritten" THEN "unwritten" ELSE "gone"]
  /\ bearers' = [n \in Letters |-> {}]
  /\ UNCHANGED about

Next ==
  \/ \E n \in Letters : Post(n) \/ LetGo(n) \/ Settle(n)
  \/ \E b \in Bots, batch \in SUBSET Letters : Take(b, batch)
  \/ \E batch \in SUBSET Letters : Lapse(batch)
  \/ \E m, n \in Letters : Report(m, n)
  \/ Withdraw

Spec == Init /\ [][Next]_vars
=============================================================================
