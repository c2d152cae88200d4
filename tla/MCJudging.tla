------------------------------ MODULE MCJudging ------------------------------
(***************************************************************************)
(* A run's answers, the judge's passes over them and the guest's: the one  *)
(* worker never runs two of them at once and they write different keys of  *)
(* a row, so a behavior is of one kind.                                    *)
(***************************************************************************)
EXTENDS Judging

CONSTANTS GuestRows, GuestSweeps, Budget, Questions, Requests, Pipelines, None, MaxReclaims, RunHalts

(* rows, questions and requests are numbered in the order they are taken; 0 is no request's options *)
ASSUME PassesAssumption ==
  /\ GuestRows \cup Questions \subseteq Nat /\ Requests \subseteq Nat \ {0} /\ None \notin Requests
  /\ GuestSweeps \in Nat \ {0} /\ {Budget, MaxReclaims, RunHalts} \subseteq Nat

VARIABLES which, scored, failures, job, attempts, place, budget, due, sweep, got, calls, stops,
  pipeline, request, line, rows, next, judges, walk, hand, resume, todo, held, since,
  lacks, answered, stopped, cause, runHalts

R == INSTANCE EvalRun WITH
  Jobs <- Requests, MaxHalts <- RunHalts, job <- request, at <- walk, run <- hand,
  owed <- lacks, why <- cause, halts <- runHalts
G == INSTANCE Guests WITH Rows <- GuestRows, tries <- failures, MaxSweeps <- GuestSweeps

guests == <<scored, failures, job, attempts, place, budget, due, sweep, got, calls, stops>>
answers == <<pipeline, request, line, rows, next, judges, walk, hand, resume, todo, held, since,
             lacks, answered, stopped, cause, runHalts>>

PassesInit ==
  /\ which \in {"ours", "guests", "answers"}
  /\ Init /\ G!Init /\ R!Init
  /\ which # "guests" => \A r \in GuestRows : failures[r] = 0
  /\ which # "answers" => pipeline = "agent"
PassesNext ==
  /\ UNCHANGED which
  /\ \/ which = "ours" /\ Next /\ UNCHANGED <<guests, answers>>
     \/ which = "guests" /\ G!Next /\ UNCHANGED <<vars, answers>>
     \/ which = "answers" /\ R!Next /\ UNCHANGED <<vars, guests>>
PassesSpec == PassesInit /\ [][PassesNext]_<<which, vars, guests, answers>>

(* A bound of the search: two halts of a run, or three requests for it. *)
HaltsOrRequests == runHalts < 2 \/ request[3].at = "none"

(* Guests: one job puts no more rows to the guest than its sample. *)
BudgetHolds == G!BudgetHolds
(* Guests: a pass walks the rows it drew, and calls are bounded by attempts and lost answers. *)
GuestsHold == which = "guests" => G!TypeOK /\ G!WalksItsBudget /\ G!CallsBounded
(* EvalRun: one answer of a question whatever doors race and workers die, no error row beside it, *)
(* one fresh run of a name, and a run that is done is judged. *)
RunHolds == which = "answers" => R!RunHolds
(* EvalRun: an error row that goes is named by the row that stands for it. *)
ReplacedIsTold == R!ReplacedIsTold
=============================================================================
