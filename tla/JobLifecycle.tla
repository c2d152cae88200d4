---------------------------- MODULE JobLifecycle ----------------------------
(***************************************************************************)
(* What the queue promises about one job, whoever touches its row and in   *)
(* whatever order: work on it begins only from the waiting line, it is     *)
(* begun at most MaxTurns times, and once nobody works on it and it has    *)
(* ended it never goes back into the line.                                 *)
(*                                                                         *)
(* `taken` is about work, not about the status column: a cancelled job is  *)
(* still taken while its handler runs.  Jobs move independently, so a      *)
(* step moves any number of them (a cancel of many, a restart).            *)
(***************************************************************************)
EXTENDS Naturals

CONSTANTS Jobs, MaxTurns

VARIABLES phase, turns

Phases == {"absent", "waiting", "held", "taken", "ended"}

Arrows ==
  {<<"absent", "waiting">>,   \* queued
   <<"waiting", "held">>,     \* paused
   <<"held", "waiting">>,     \* resumed
   <<"waiting", "taken">>,    \* claimed
   <<"taken", "waiting">>,    \* retried, deferred or reclaimed
   <<"taken", "ended">>,      \* done, failed, or its cancel seen
   <<"waiting", "ended">>,    \* cancelled in the line
   <<"held", "ended">>}       \* cancelled while paused

Init ==
  /\ phase \in [Jobs -> {"absent", "waiting"}]
  /\ turns = [j \in Jobs |-> 0]

(* beginning to work on a job is the only thing that costs it a turn *)
Cost(j) == IF phase[j] = "waiting" /\ phase'[j] = "taken" THEN 1 ELSE 0

Next ==
  /\ phase' \in [Jobs -> Phases]
  /\ \A j \in Jobs : phase'[j] = phase[j] \/ <<phase[j], phase'[j]>> \in Arrows
  /\ turns' = [j \in Jobs |-> turns[j] + Cost(j)]
  /\ \A j \in Jobs : turns'[j] <= MaxTurns

Spec == Init /\ [][Next]_<<phase, turns>>
=============================================================================
