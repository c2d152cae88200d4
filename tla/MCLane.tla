------------------------------- MODULE MCLane --------------------------------
(***************************************************************************)
(* Who goes next and ends, under fairness, in three parts that share no    *)
(* variable: the engines that take turns on the card, the jobs that stand  *)
(* in the card's lane, and the judge of a rejudge with its next sweep over *)
(* its attempts.  A behavior is of one part.                               *)
(***************************************************************************)
EXTENDS MCCard

CONSTANTS Answers, MaxLine, MaxHands, MaxReturns, h1, h2, run2

(* no job or run is none, and the card's lane is a lane *)
ASSUME LaneAssumption == CardLane \in Lanes /\ None \notin {h1, h2, run2}

VARIABLES which, line, running, given, judged, hands, returns,
  status, options, due, why, spent, experiment, worker, at, held, snap, verdict, sawCancel,
  stale, died, cpc, rows, unclaimed, untold, announced, claims, crashes, outages

T == INSTANCE Turns WITH asked <- given

(* a sweep queued by the judge's pass; one client cancels, the worker dies once *)
Judges == {h1, h2}
Q == INSTANCE JobQueue WITH
  pc <- at, Jobs <- Judges, LaneOf <- [j \in Judges |-> CardLane], Runs <- {run2},
  RunOf <- [j \in Judges |-> run2], NoRun <- None, EvalRuns <- {}, Judges <- Judges, Rejudged <- {run2},
  Queued <- {h1}, Clients <- {"client"}, Delays <- {1}, MaxAttempts <- 2, MaxDeferred <- 0,
  MaxReclaims <- 0, MaxCrashes <- 1, MaxOutages <- 0

lane == <<line, running, given, judged, hands, returns>>
table == <<status, options, due, why, spent, experiment, worker, at, held, snap, verdict, sawCancel,
  stale, died, cpc, rows, unclaimed, untold, announced, claims, crashes, outages>>

(* the fairness of JobQueue, of its own behaviors *)
JobStep(A) == which = "jobs" /\ A
JobFairness ==
  /\ WF_table(JobStep(Q!BootStep))
  /\ WF_table(JobStep(\E j \in Judges : Q!Claim(CardLane, j))) /\ WF_table(JobStep(Q!ThreadStep(CardLane)))
  /\ \A j \in Judges : WF_table(JobStep(Q!BackoffEnds(j)))
  /\ WF_table(JobStep(Q!CancelCommit("client"))) /\ WF_table(JobStep(Q!CancelTells("client")))

LaneInit == which \in {"card", "line", "jobs"} /\ Init /\ T!TInit /\ Q!Init
LaneNext ==
  \/ which = "card" /\ Next /\ UNCHANGED <<which, lane, table>>
  \/ which = "line" /\ T!TNext /\ UNCHANGED <<which, vars, table>>
  \/ which = "jobs" /\ Q!Next /\ UNCHANGED <<which, vars, lane>>
LaneSpec == LaneInit /\ [][LaneNext]_<<which, vars, lane, table>> /\ Fairness /\ T!TFair /\ JobFairness

(* Turns: every live answer is judged, whatever ranks before the judge. *)
EveryAnswerIsJudged == T!EveryAnswerIsJudged
(* JobQueue: a waiting job of a rejudge is finished, or held, sooner or later. *)
EveryJobSettles ==
  \A j \in Judges : which = "jobs" /\ status[j] = "new" ~> status[j] \in Q!Finished \cup {"paused"}
(* JobQueue: the experiment of a rejudge is left waiting only where an end of its jobs tells nobody. *)
StrandedOnlyWhereSkipped == which = "jobs" => Q!StrandedOnlyWhereSkipped
=============================================================================
