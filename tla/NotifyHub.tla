------------------------------- MODULE NotifyHub -------------------------------
(***************************************************************************)
(* How a bot learns that something was queued (signup/notifyhub.go, the    *)
(* stream of api/notifications.go): the insert trigger raises a Postgres   *)
(* notification, the Listener turns it into a Hub broadcast, every open    *)
(* stream has a channel of one, and the event a stream writes tells its    *)
(* bot to claim.  Nothing on this way carries the row; what a bot gets is  *)
(* whatever its claim finds.  Leases and acks are Outbox's.                *)
(*                                                                         *)
(* The bot is outside the repository: it claims once for what it has been  *)
(* told, reconnects a lost stream, and polls now and then.                 *)
(***************************************************************************)
EXTENDS Integers, FiniteSets, Sequences

CONSTANTS
  Bots,       \* each with a stream of its own
  MaxRows,    \* notifications ever queued (bound)
  Limit,      \* rows a claim may take
  MaxLosses   \* connections lost and claims that fail (bound)

ASSUME HubAssumption == MaxRows \in Nat /\ Limit \in Nat \ {0} /\ MaxLosses \in Nat

VARIABLES
  waiting,    \* rows nobody has claimed, by age
  made,       \* rows created so far
  listening,  \* the Listener's connection is inside LISTEN
  heard,      \* what arrived on it and is not broadcast yet: the rows of each insert
  stream,     \* each bot's handler, or none
  buffer,     \* signals in its channel
  told,       \* events the bot has not acted on, as one
  promised,   \* history: the waiting rows a bot is to hear of without another insert or a poll
  losses

vars == <<waiting, made, listening, heard, stream, buffer, told, promised, losses>>
table == <<waiting, made>>
signal == <<listening, heard>>

Ids == 1..MaxRows

TypeOK ==
  /\ made \in 0..MaxRows
  /\ waiting \subseteq 1..made
  /\ listening \in BOOLEAN
  /\ heard \in Seq(SUBSET (1..made))
  /\ stream \in [Bots -> {"none", "greeting", "waiting", "writing", "written"}]
  /\ buffer \in [Bots -> 0..1]
  /\ told \in [Bots -> BOOLEAN]
  /\ promised \in [Bots -> SUBSET waiting]
  /\ losses \in 0..MaxLosses

Init ==
  /\ waiting = {} /\ made = 0
  /\ listening = FALSE /\ heard = <<>>
  /\ stream = [b \in Bots |-> "none"]
  /\ buffer = [b \in Bots |-> 0]
  /\ told = [b \in Bots |-> FALSE]
  /\ promised = [b \in Bots |-> {}]
  /\ losses = 0

\* The rows of the notifications that are not broadcast yet.
Unbroadcast == UNION {heard[i] : i \in DOMAIN heard}

Lose == losses < MaxLosses /\ losses' = losses + 1

-----------------------------------------------------------------------------
(* The hub.                                                                *)

\* MUTANT: no buffer, so a send succeeds only while the handler is receiving.
Signalled_Unbuffered(b) == IF stream[b] = "waiting" THEN 1 ELSE buffer[b]

\* A send that does not block, into a channel of one.
Signalled(b) == IF buffer[b] = 0 THEN 1 ELSE buffer[b]

\* Listener: one notification taken, Hub.Broadcast under its lock.
Broadcast ==
  /\ heard # <<>>
  /\ heard' = Tail(heard)
  /\ buffer' = [b \in Bots |-> IF stream[b] # "none" THEN Signalled(b) ELSE buffer[b]]
  /\ UNCHANGED <<table, listening, stream, told, promised, losses>>

\* The connection fails, with what it had not handed over yet.
ListenerLost ==
  /\ listening
  /\ Lose
  /\ listening' = FALSE
  /\ heard' = <<>>
  /\ promised' = [b \in Bots |-> promised[b] \ Unbroadcast]
  /\ UNCHANGED <<table, stream, buffer, told>>

\* After listenBackoff, a fresh connection and LISTEN.  Nothing is broadcast for what was
\* inserted in between.
Redial ==
  /\ ~listening
  /\ listening' = TRUE
  /\ UNCHANGED <<table, heard, stream, buffer, told, promised, losses>>

-----------------------------------------------------------------------------
(* The table.                                                              *)

\* A transaction commits that inserted rows with one statement: the trigger is per
\* statement, and the notification comes with the commit.
Insert ==
  \E k \in 1..2 :
    LET new == (made + 1)..(made + k)
    IN /\ made + k <= MaxRows
       /\ made' = made + k
       /\ waiting' = waiting \union new
       /\ heard' = IF listening THEN Append(heard, new) ELSE heard
       /\ promised' = [b \in Bots |-> IF listening /\ stream[b] # "none"
                                      THEN promised[b] \union new ELSE promised[b]]
       /\ UNCHANGED <<listening, stream, buffer, told, losses>>

-----------------------------------------------------------------------------
(* The streams.                                                            *)

\* MUTANT: the stream opens without an event.
Opening_Silent == "waiting"

\* One event before anything happens.
Opening == "greeting"

\* A bot opens a stream: the handler subscribes, then writes.
Connect(b) ==
  /\ stream[b] = "none"
  /\ stream' = [stream EXCEPT ![b] = Opening]
  /\ promised' = [promised EXCEPT ![b] = waiting]
  /\ UNCHANGED <<table, signal, buffer, told, losses>>

TakeSignal(b) ==
  /\ stream[b] = "waiting"
  /\ buffer[b] = 1
  /\ buffer' = [buffer EXCEPT ![b] = 0]
  /\ stream' = [stream EXCEPT ![b] = "writing"]
  /\ UNCHANGED <<table, signal, told, promised, losses>>

\* The event reaches the bot before the handler is back in its select.
WriteEvent(b) ==
  /\ stream[b] \in {"greeting", "writing"}
  /\ told' = [told EXCEPT ![b] = TRUE]
  /\ stream' = [stream EXCEPT ![b] = "written"]
  /\ UNCHANGED <<table, signal, buffer, promised, losses>>

BackToWait(b) ==
  /\ stream[b] = "written"
  /\ stream' = [stream EXCEPT ![b] = "waiting"]
  /\ UNCHANGED <<table, signal, buffer, told, promised, losses>>

\* The connection dies, perhaps with an event on it; the handler unsubscribes, now or
\* when a write fails.
StreamLost(b) ==
  /\ stream[b] # "none"
  /\ Lose
  /\ stream' = [stream EXCEPT ![b] = "none"]
  /\ buffer' = [buffer EXCEPT ![b] = 0]
  /\ \E arrived \in BOOLEAN : told' = [told EXCEPT ![b] = @ /\ arrived]
  /\ promised' = [promised EXCEPT ![b] = {}]
  /\ UNCHANGED <<table, signal>>

-----------------------------------------------------------------------------
(* Claims.                                                                 *)

\* The oldest of what waits, up to Limit.
Batches ==
  {batch \in SUBSET waiting :
     /\ Cardinality(batch) <= Limit
     /\ Cardinality(batch) = Limit \/ batch = waiting
     /\ \A n \in batch, m \in waiting \ batch : n < m}

\* A bot does what it was told.  What a full batch leaves waits for the next wake or poll.
ClaimWoken(b) ==
  /\ told[b]
  /\ told' = [told EXCEPT ![b] = FALSE]
  /\ \E batch \in Batches :
       /\ waiting' = waiting \ batch
       /\ promised' = [c \in Bots |-> IF c = b THEN {} ELSE promised[c] \ batch]
  /\ UNCHANGED <<made, signal, stream, buffer, losses>>

\* The bot's own slow timer.
Poll(b) ==
  /\ waiting # {}
  /\ \E batch \in Batches :
       /\ waiting' = waiting \ batch
       /\ promised' = [c \in Bots |-> promised[c] \ batch]
  /\ UNCHANGED <<made, signal, stream, buffer, told, losses>>

\* The claim is answered with an error.
ClaimFails(b) ==
  /\ told[b]
  /\ Lose
  /\ told' = [told EXCEPT ![b] = FALSE]
  /\ promised' = [promised EXCEPT ![b] = {}]
  /\ UNCHANGED <<table, signal, stream, buffer>>

StreamStep(b) == TakeSignal(b) \/ WriteEvent(b) \/ BackToWait(b)

Next ==
  \/ Insert \/ Broadcast \/ ListenerLost \/ Redial
  \/ \E b \in Bots : Connect(b) \/ StreamStep(b) \/ StreamLost(b)
  \/ \E b \in Bots : ClaimWoken(b) \/ Poll(b) \/ ClaimFails(b)

Spec == Init /\ [][Next]_vars

\* The goroutines run and a bot acts on what it is told.  Nothing is assumed of polls,
\* reconnections or redials.
FairSpec ==
  /\ Spec
  /\ WF_vars(Broadcast)
  /\ \A b \in Bots : WF_vars(StreamStep(b)) /\ WF_vars(ClaimWoken(b))

-----------------------------------------------------------------------------
(* Properties.                                                             *)

\* A signal for b is past the Listener and will have it claim.
Signal(b) == buffer[b] = 1 \/ stream[b] \in {"greeting", "writing"} \/ told[b]

\* No wakeup is lost between a broadcast, a busy handler and a busy bot: a row that was
\* inserted while the Listener listened, or that waited when b connected, is not left
\* without a signal that will have b claim (Broadcast: "it is about to look at the table
\* anyway"; the event on connect, "rather than sitting until the next insert").
NoRowSleeps == \A b \in Bots : promised[b] # {} => heard # <<>> \/ Signal(b)

\* Which rows each signal stands for: one that is not waiting to be broadcast has its
\* signal in the stream already, and nothing is promised without a stream.
Accounted ==
  \A b \in Bots :
    /\ promised[b] \subseteq Unbroadcast \/ Signal(b)
    /\ promised[b] # {} => stream[b] # "none"

\* And the signal arrives: without a single poll, such a row is claimed, or a full batch,
\* a failed claim or a lost connection breaks the promise.
PromisesAreKept ==
  \A b \in Bots : \A n \in Ids : n \in promised[b] ~> n \notin promised[b]
================================================================================
