------------------------------ MODULE LateQueue ------------------------------
(***************************************************************************)
(* What the late-request queue promises a raid lead, without the requests  *)
(* that carry it out: a decision acts on the filing that is pending at     *)
(* that moment, exactly once, and an approval puts that very status on the *)
(* sheet in the same instant (late.go's comments on Approve and Reject).   *)
(***************************************************************************)
CONSTANTS Characters, Statuses, NoStatus

VARIABLES
  answer,   \* the status on the sheet, NoStatus without one
  request   \* the filing of each character and what became of it

vars == <<answer, request>>

Nothing == [status |-> NoStatus, state |-> NoStatus]

Init ==
  /\ answer = [c \in Characters |-> NoStatus]
  /\ request = [c \in Characters |-> Nothing]

\* The sheet is written without the queue.
Answer(c, status) ==
  /\ answer' = [answer EXCEPT ![c] = status]
  /\ UNCHANGED request

\* Filing again replaces what was asked and reopens it.
File(c, status) ==
  /\ request' = [request EXCEPT ![c] = [status |-> status, state |-> "PENDING"]]
  /\ UNCHANGED answer

Approve(c) ==
  /\ request[c].state = "PENDING"
  /\ request' = [request EXCEPT ![c].state = "APPROVED"]
  /\ answer' = [answer EXCEPT ![c] = request[c].status]

Reject(c) ==
  /\ request[c].state = "PENDING"
  /\ request' = [request EXCEPT ![c].state = "REJECTED"]
  /\ UNCHANGED answer

\* The event, and everything filed for it, is deleted.
Cancelled ==
  /\ answer' = [c \in Characters |-> NoStatus]
  /\ request' = [c \in Characters |-> Nothing]

Next ==
  \/ \E c \in Characters :
       \/ \E s \in Statuses \union {NoStatus} : Answer(c, s)
       \/ \E s \in Statuses : File(c, s)
       \/ Approve(c)
       \/ Reject(c)
  \/ Cancelled

Spec == Init /\ [][Next]_vars
=============================================================================
