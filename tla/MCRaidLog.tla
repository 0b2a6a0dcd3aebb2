------------------------------ MODULE MCRaidLog ------------------------------
(***************************************************************************)
(* An instance of RaidLog for TLC: two namesakes on the roster and two in  *)
(* the log, one of them of a realm the roster does not have; a log that    *)
(* has more pulls than are read one by one, and a pull nobody is in, loses *)
(* a pull, and gains a raider.                                             *)
(***************************************************************************)
EXTENDS RaidLog, TLC

CONSTANTS c1, c2, a1, a2

MCCharacters == {c1, c2}
MCActors == {a1, a2}
MCNameOf == [x \in MCCharacters \union MCActors |-> "thrall"]
MCRealmOf == c1 :> "draenor" @@ c2 :> "ravencrest" @@ a1 :> "ravencrest" @@ a2 :> "outland"

MCPulls == 1..3
MCLogs == {1 :> {a1} @@ 2 :> {} @@ 3 :> {a1}, 2 :> {a1} @@ 3 :> {a2}}
=============================================================================
