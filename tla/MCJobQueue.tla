----------------------------- MODULE MCJobQueue -----------------------------
(***************************************************************************)
(* An instance of JobQueue for TLC: a run e1 and its judge g1 in the       *)
(* card's lane, and a model pull p1 beside them (the judge of a rejudge is *)
(* in MCLane).  As another part that shares no variable with it, a         *)
(* rejudge from its door to its report.  A behavior is of one part.        *)
(***************************************************************************)
EXTENDS JobQueue

CONSTANTS e1, g1, p1, run1, default, io,
  Questions, MaxArms, MaxRjMoves, MaxFails

(* the bound of what may move under a rejudging is a number *)
ASSUME RejudgeAssumption == MaxRjMoves \in Nat

VARIABLES which, seat, active, answers, asked, exp, report, moved, moves

MCLaneOf == [j \in Jobs |-> IF j = p1 /\ io \in Lanes THEN io ELSE default]
MCRunOf == [j \in Jobs |-> IF j = p1 THEN NoRun ELSE run1]
MCQueued == {e1}

(* the arms of a rejudge: nothing moved, a prompt moved, a prompt and the judge moved *)
ArmsOf == {[repeat |-> "x"], [faithfulness |-> "v2"], [relevance |-> "v2", model |-> "m2"]}

J == INSTANCE Rejudges WITH rows <- answers

rejudge == <<seat, active, answers, asked, exp, report, moved, moves>>
NoRejudge ==
  /\ seat = "" /\ active = <<>> /\ answers = <<>> /\ asked = <<>> /\ exp = <<>> /\ report = <<>>
  /\ moved = {} /\ moves = 0

QueueInit == which \in {"queue", "rejudge"} /\ Init /\ IF which = "rejudge" THEN J!RjInit ELSE NoRejudge
QueueNext ==
  /\ UNCHANGED which
  /\ \/ which = "queue" /\ Next /\ UNCHANGED rejudge
     \/ which = "rejudge" /\ J!RjNext /\ UNCHANGED vars
QueueSpec == QueueInit /\ [][QueueNext]_<<which, vars, rejudge>>

(* Bounds of the search: one fault, a death or a refused write; and a pull is followed without *)
(* one, while the run and its judge wait. *)
OneFault ==
  /\ crashes + outages <= 1
  /\ p1 \in Jobs /\ status[p1] # "absent" =>
       crashes + outages = 0 /\ \A j \in ExperimentJobs : status[j] \in {"absent", "new"}

(* Rejudges: an arm's verdicts are its own, by what it names, and its report pairs one text. *)
RecordsHold == which = "rejudge" => J!RejudgesHold
=============================================================================
