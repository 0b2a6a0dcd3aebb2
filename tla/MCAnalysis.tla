----------------------------- MODULE MCAnalysis -----------------------------
(***************************************************************************)
(* An instance of Analysis for TLC: a raid week of two instants, a window  *)
(* of three, two raids of one guild, and subscriptions of every kind.      *)
(***************************************************************************)
EXTENDS Analysis, TLC

CONSTANTS c1, c2, e1, e2, tank

MCMenus == c1 :> (tank :> 1) @@ c2 :> (tank :> 2)

Silent == [c \in {c1, c2} |-> NONE]
NoBoard == [c \in {c1, c2} |-> Empty]
Seated(bench) == [role |-> tank, bench |-> bench]

MCHistories ==
  {[starts |-> e1 :> 0 @@ e2 :> 1, answer |-> [e \in {e1, e2} |-> [c \in {c1, c2} |-> "CONFIRMED"]],
    seat |-> [e \in {e1, e2} |-> c1 :> Seated(FALSE) @@ c2 :> Seated(TRUE)]],
   [starts |-> e1 :> 0 @@ e2 :> 3, answer |-> e1 :> (c1 :> "LATE" @@ c2 :> "NO_SHOW") @@ e2 :> (c1 :> "CONFIRMED" @@ c2 :> NONE),
    seat |-> [e \in {e1, e2} |-> c1 :> Seated(FALSE) @@ c2 :> Empty]],
   [starts |-> e1 :> 2 @@ e2 :> 2, answer |-> [e \in {e1, e2} |-> Silent], seat |-> [e \in {e1, e2} |-> NoBoard]]}

MCIlvls == {1, 2, NoLevel}

Row(status, end) == [tier |-> "PREMIUM", status |-> status, end |-> end]
MCSubscriptions == {Row("ACTIVE", {}), Row("TRIALING", {2}), Row("PAST_DUE", {3})}
=============================================================================
