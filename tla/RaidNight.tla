------------------------------ MODULE RaidNight ------------------------------
(***************************************************************************)
(* One event's sheet with everything that writes it: raiders' signups,     *)
(* raid leads' decisions, comp boards, and edits of the event itself, any  *)
(* of them in flight at once.                                              *)
(***************************************************************************)
EXTENDS SignupHandlers, CompHandlers

vars == <<sheetVars, call, said, overtaken, build>>

Init == SheetInit /\ SignupInit /\ CompInit

Next ==
  \/ EventNext /\ UNCHANGED <<call, said, overtaken, build>>
  \/ SignupNext /\ UNCHANGED build
  \/ CompNext /\ UNCHANGED <<call, said, overtaken>>

Spec == Init /\ [][Next]_vars

TypeOK == SheetTypeOK /\ SignupTypeOK /\ CompTypeOK

-----------------------------------------------------------------------------
(* What the sheet promises.                                                *)

\* Nobody but the raider puts an answer on the sheet: whatever it shows was asked
\* for by the character's owner at some time, or is a raid lead's NO_SHOW.  Holds
\* across Write, File and Approve however they interleave (signup.go:37-41).
AnswersAreTheRaiders ==
  \A c \in Characters : answer[c] \in said[c] \union {"NO_SHOW", NONE}

\* The late queue holds intentions.  NO_SHOW is not a raider's to ask for.  LATE and
\* ABSENT are open until the start, after which nothing is filed, so an approval writes
\* neither, with one exception: the pull passes between Write's two readings of the
\* clock (signup.go:149, 166) and an edit puts the start off before File reads the
\* event again (late.go:112-118).  Nothing but that edit lets one in.
UntilPull == {"LATE", "ABSENT"}
QueueHoldsIntentions ==
  \A c \in Characters :
    /\ request[c].status # "NO_SHOW"
    /\ request[c].status \in UntilPull => c \in overtaken

\* Why: what is filed, and what is about to be written or filed, was the raider's own
\* word, a LATE or ABSENT on its way to the queue found the start as Write read it
\* behind it; and a decision in flight has a filing while the event stands.
Filed == \A c \in Characters :
  request[c] # NoRequest =>
    /\ request[c].status \in said[c] \intersect SelfReported
    /\ request[c].status \in UntilPull => c \in overtaken
Founded(r) ==
  /\ r.at = "deadline" => r.own /\ r.status \in SelfReported \union {NONE}
  /\ r.at = "write" => r.status \in AllStatuses /\ (r.own \/ r.status = "NO_SHOW")
  /\ r.at \in {"file", "filing"} => r.status \in SelfReported
  /\ r.at = "file" /\ r.status \in UntilPull => now > r.read.startsAt
  /\ r.at = "filing" /\ r.status \in UntilPull => r.putOff
  /\ r.at = "approve" => r.status \in said[r.char] \intersect SelfReported
  /\ r.at \in {"approve", "reject"} /\ alive => request[r.char] # NoRequest
Provenance == Filed /\ \A p \in Callers : Founded(call[p])

\* A character whose signup leaves the pool leaves every board in the same step
\* (UpsertSignup, DeleteSignup).
Leaves(c) == InPool(answer[c]) /\ ~InPool(answer'[c])

LeavingGivesUpSeats ==
  [][\A c \in Characters : Leaves(c) => \A x \in seats' : x.char # c]_vars

\* A signup step that empties seats queues the notice naming exactly the comps
\* that now have a hole, unless the caller knew of no channel (signup.go:174-176).
DropIsReported ==
  [][\A p \in Callers :
       LET c == call[p].char
           lost == {x.comp : x \in SeatsOf(c) \ seats'}
       IN call[p].at \in {"write", "withdraw", "approve"} /\ call'[p] = Idle /\ alive'
            /\ lost # {} /\ call[p].read.seen.channel
          => \E n \in queued' : n.kind = "COMP_SLOT_DROPPED" /\ n.char = c
                                  /\ n.comps = lost /\ n.status = answer'[c]]_vars

\* A comp changes hands only by SetMode: neither a lock, a save nor a rename
\* turns a raid lead's board into the assigner's or back (UpsertComp's comment).
ModeIsDeliberate ==
  [][\A k \in Comps : mode[k] # NONE /\ mode'[k] # NONE /\ mode'[k] # mode[k]
                        => UNCHANGED <<seats, build>>]_vars

-----------------------------------------------------------------------------
(* What holds while requests do not overlap, and what the code's comments  *)
(* claim without that proviso.                                             *)

\* The queue as the comments on Approve and Reject describe it.
Queue == INSTANCE LateQueue WITH Statuses <- AllStatuses, NoStatus <- NONE

\* One request at a time, the handlers keep that promise: each decision meets a
\* pending filing and applies it (late.go:185-191).
KeepsTheQueue == Queue!Spec

\* The same claim for any number of requests: a decided filing stays as decided
\* until the raider files again ("a stale button can flip a rejection").
DecidedOnce ==
  [][\A c \in Characters :
       request[c].state \in {"APPROVED", "REJECTED"}
         => request'[c].state \in {request[c].state, "PENDING", NONE}]_vars

\* A raid lead's board gains no seat the assigner placed (lock.go:46-47).
LockSparesManual ==
  [][\A k \in Comps : mode[k] = "MANUAL"
       => \A x \in seats' \ seats : x.comp = k => x.reason = "MANUAL"]_vars
=============================================================================
