------------------------------- MODULE MCCard -------------------------------
(* The constants of the runs of Card that a .cfg cannot write itself. *)
EXTENDS Card, TLC

CONSTANTS o1, v1, k1, t1, t2, t3

Symmetry == Permutations(Threads)

MCOneLane == [t \in Threads |-> CardLane]
(* t2 answers the questions of the other lane *)
MCTwoLanes == [t \in Threads |-> IF t = t2 THEN CHOOSE l \in Lanes : l # CardLane ELSE CardLane]

(* A bound of the search: a bootstrap passes while no thread and no door is at work; the run of *)
(* the lane follows it beside them. *)
BootIsAlone == drowsy # {} =>
  (\A t \in Threads : pc[t] = "idle") /\ \A d \in Doors : door[d] = "idle"
=============================================================================
