--------------------------- MODULE MCReminderJobs ---------------------------
(***************************************************************************)
(* An instance of ReminderJobs for TLC: an event that starts at 2 or 3,    *)
(* whose deadline, day-before and pre-event reminders fall at different    *)
(* instants, moved, re-timed and switched off while two workers poll.      *)
(***************************************************************************)
EXTENDS ReminderJobs

Untouched == [startsAt |-> KEEP, deadline |-> KEEP, lead |-> KEEP,
              shown |-> FALSE, channel |-> FALSE, message |-> FALSE]
Moves == {[Untouched EXCEPT !.startsAt = t] : t \in Times}
Leadings == {[Untouched EXCEPT !.lead = l] : l \in Leads}

MCTimes == {2, 3}
MCLeads == {0, 1}
MCEdits == Moves \union Leadings
=============================================================================
