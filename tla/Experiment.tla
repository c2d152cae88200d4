------------------------------ MODULE Experiment ------------------------------
(***************************************************************************)
(* Experiments over judged runs and retrieval grids: the doors that create *)
(* one, add arms to one, conclude one, cancel a job or ask for a job       *)
(* again, and the worker's only `default` lane, whose handlers answer,     *)
(* judge and measure the arms and aggregate what is complete.              *)
(* Sources: app/use_cases/experiment_setup.py, app/use_cases/experiment.py,*)
(* app/use_cases/rejudge.py, app/models/experiment.py,                     *)
(* app/api/v1/experiment.py, app/job_handlers/evaluation.py and judging.py.*)
(*                                                                         *)
(* An arm is its run name; the rows of a run are one value, what they owe  *)
(* the judge.  A report is the set of arms it was computed over.  How a    *)
(* row of `jobs` moves is JobQueue's; here a job is live or not.           *)
(***************************************************************************)
EXTENDS Naturals, FiniteSets

CONSTANTS
  Exps, Names,   \* rows of `experiments`; names of runs
  Copied, Swept, \* the names asked for copies, and for the runs of a sweep
  Kinds,         \* the kinds an experiment of the instance may be of
  Requests,      \* calls at the doors, each made once: numbers, in the order they are made
  None,
  MaxSweeps,     \* _MAX_SWEEPS, sweeps of one run after its first pass
  MaxReturns,    \* bound of the model: jobs put back by a retry or a death
  MaxCuts        \* bound of the model: requests cut off at an await

ASSUME ExperimentAssumption ==
  /\ Kinds \subseteq {"generation", "rejudge", "retrieval"}
  /\ Exps \cap Names = {}
  /\ Copied \subseteq Names /\ Swept \subseteq Names
  /\ Requests \subseteq Nat
  /\ None \notin Exps \cup Names \cup Requests
  /\ MaxSweeps \in Nat /\ MaxReturns \in Nat /\ MaxCuts \in Nat

VARIABLES
  kind, status, arms, report, holder,  \* each experiment; holder: whose FOR UPDATE
  rows, line, sweeps,                  \* each run: its rows, its waiting job, its sweeps
  at, run, task, stop,                 \* the worker: place, job in hand, if cancelled
  todo, exp, read,                     \* its locals while it aggregates
  door,                                \* each request: where it is, what it is about
  hurt, cut,                           \* jobs cancelled or given up, names cut off
  returns

record == <<kind, status, arms, report, holder>>
runs   == <<rows, line, sweeps>>
job    == <<run, task, stop>>
locals == <<todo, exp, read>>
worker == <<at, job, locals>>
seen   == <<hurt, cut, returns>>
vars   == <<record, runs, worker, door, seen>>

Jobs == Names \cup Exps
Tasks == {"answer", "resume", "judge", "compare"}
Rest == [at |-> "fresh", exp |-> None, names |-> {}]

TypeOK ==
  /\ kind \in [Exps -> Kinds]
  /\ status \in [Exps -> {"none", "running", "aggregated", "concluded", "failed"}]
  /\ arms \in [Exps -> SUBSET Names] /\ report \in [Exps -> SUBSET Names]
  /\ holder \in [Exps -> Requests \cup {None}]
  /\ rows \in [Names -> {"none", "owed", "judged"}]
  /\ line \in [Jobs -> Tasks \cup {"none"}]
  /\ sweeps \in [Names -> 0..MaxSweeps]
  /\ at \in {"idle", "answering", "reviving", "judging", "listing", "looking",
             "reading", "recording", "starting", "measuring", "landing"}
  /\ run \in Jobs \cup {None} /\ exp \in Exps \cup {None}
  /\ todo \subseteq Exps /\ read \subseteq Names
  /\ task \in Tasks \cup {"none"} /\ stop \in BOOLEAN
  /\ door \in [Requests -> [at : {"fresh", "locked", "copied", "undoing", "concluding", "done"},
                            exp : Exps \cup {None}, names : SUBSET Names]]
  /\ hurt \subseteq Jobs /\ cut \subseteq Names
  /\ returns \in 0..MaxReturns

Init ==
  /\ kind \in [Exps -> Kinds]
  /\ status = [e \in Exps |-> "none"]
  /\ arms = [e \in Exps |-> {}] /\ report = [e \in Exps |-> {}]
  /\ holder = [e \in Exps |-> None]
  /\ rows = [n \in Names |-> "none"] /\ line = [j \in Jobs |-> "none"]
  /\ sweeps = [n \in Names |-> 0]
  /\ at = "idle" /\ run = None /\ exp = None
  /\ todo = {} /\ read = {} /\ task = "none" /\ stop = FALSE
  /\ door = [r \in Requests |-> Rest]
  /\ hurt = {} /\ cut = {} /\ returns = 0

-----------------------------------------------------------------------------
(* The doors that start an experiment and add to one *)

FreeInPart(S) == \E n \in S : rows[n] = "none"
Free(S) == \A n \in S : rows[n] = "none"

Asks(r) == door[r].at = "fresh" /\ \A q \in Requests : q < r => door[q].at # "fresh"
Done(r) == door' = [door EXCEPT ![r] = [Rest EXCEPT !.at = "done"]]

(* copy_runs: one transaction under the advisory locks of all its names; a *)
(* name with rows refuses them all.  It runs in a thread of its own, so a  *)
(* request cut off at this await leaves copies that nobody takes back      *)
Copies(r, e, S) ==
  \/ /\ Free(S)
     /\ rows' = [n \in Names |-> IF n \in S THEN "owed" ELSE rows[n]]
     /\ \/ /\ door' = [door EXCEPT ![r] = [at |-> "copied", exp |-> e, names |-> S]]
           /\ UNCHANGED <<holder, cut>>
        \/ /\ Cardinality(cut) < MaxCuts
           /\ Done(r)
           /\ cut' = cut \cup S
           /\ holder' = [holder EXCEPT ![e] = IF @ = r THEN None ELSE @]
  \/ /\ ~Free(S)
     /\ Done(r)
     /\ holder' = [holder EXCEPT ![e] = IF @ = r THEN None ELSE @]
     /\ UNCHANGED <<rows, cut>>

CreateRejudge(r, e, S) ==
  /\ Asks(r)
  /\ kind[e] = "rejudge" /\ status[e] = "none" /\ S # {} /\ S \subseteq Copied
  /\ \A q \in Requests : door[q].exp # e
  /\ Copies(r, e, S)
  /\ UNCHANGED <<kind, status, arms, report, line, sweeps, worker, hurt, returns>>

MayGainArmsUnjudged(e) == kind[e] = "rejudge" /\ status[e] \in {"aggregated", "failed"}
MayGainArms(e) == kind[e] = "rejudge" /\ status[e] = "aggregated"

(* SELECT ... FOR UPDATE, and every refusal that needs the row *)
AddLooks(r, e, S) ==
  /\ Asks(r)
  /\ holder[e] = None /\ S # {} /\ S \subseteq Copied
  /\ MayGainArms(e)
  /\ S \cap arms[e] = {}
  /\ holder' = [holder EXCEPT ![e] = r]
  /\ door' = [door EXCEPT ![r] = [at |-> "locked", exp |-> e, names |-> S]]
  /\ UNCHANGED <<kind, status, arms, report, runs, worker, seen>>

AddCopies(r) ==
  /\ door[r].at = "locked"
  /\ Copies(r, door[r].exp, door[r].names)
  /\ UNCHANGED <<kind, status, arms, report, line, sweeps, worker, hurt, returns>>

(* the arms, the status and the judges' jobs in the request's own transaction; *)
(* the old report stays                                                        *)
Commits(r) ==
  LET e == door[r].exp
      S == door[r].names
  IN  /\ door[r].at = "copied"
      /\ Done(r)
      /\ status' = [status EXCEPT ![e] = "running"]
      /\ arms' = [arms EXCEPT ![e] = @ \cup S]
      /\ line' = [j \in Jobs |-> IF j \in S THEN "judge" ELSE line[j]]
      /\ holder' = [holder EXCEPT ![e] = IF @ = r THEN None ELSE @]
      /\ UNCHANGED <<kind, report, rows, sweeps, worker, seen>>

(* an exception or a cut after the copies: they are deleted before the raise *)
Fails(r) ==
  /\ door[r].at = "copied"
  /\ door' = [door EXCEPT ![r].at = "undoing"]
  /\ UNCHANGED <<record, runs, worker, seen>>

DeleteRuns(r) ==
  /\ door[r].at = "undoing"
  /\ Done(r)
  /\ rows' = [n \in Names |-> IF n \in door[r].names THEN "none" ELSE rows[n]]
  /\ holder' = [holder EXCEPT ![door[r].exp] = IF @ = r THEN None ELSE @]
  /\ UNCHANGED <<kind, status, arms, report, line, sweeps, worker, seen>>

(* queue_sweep: every name free of rows and of jobs, then one eval_run each *)
CreateGeneration(r, e, S) ==
  /\ Asks(r)
  /\ kind[e] = "generation" /\ status[e] = "none" /\ S # {} /\ S \subseteq Swept
  /\ Free(S) /\ \A f \in Exps : kind[f] = "generation" => S \cap arms[f] = {}
  /\ Done(r)
  /\ status' = [status EXCEPT ![e] = "running"]
  /\ arms' = [arms EXCEPT ![e] = S]
  /\ line' = [j \in Jobs |-> IF j \in S THEN "answer" ELSE line[j]]
  /\ UNCHANGED <<kind, report, holder, rows, sweeps, worker, seen>>

(* one job for the whole grid *)
CreateRetrieval(r, e, S) ==
  /\ Asks(r)
  /\ kind[e] = "retrieval" /\ status[e] = "none" /\ S # {}
  /\ Done(r)
  /\ status' = [status EXCEPT ![e] = "running"]
  /\ arms' = [arms EXCEPT ![e] = S]
  /\ line' = [line EXCEPT ![e] = "compare"]
  /\ UNCHANGED <<kind, report, holder, rows, sweeps, worker, seen>>

-----------------------------------------------------------------------------
(* The other doors *)

ConcludeLooks(r, e) ==
  /\ Asks(r)
  /\ status[e] = "aggregated"
  /\ door' = [door EXCEPT ![r] = [at |-> "concluding", exp |-> e, names |-> {}]]
  /\ UNCHANGED <<record, runs, worker, seen>>

(* by id and with no lock of its own: only another's lock makes it wait *)
ConcludeWrites(r) ==
  /\ door[r].at = "concluding"
  /\ holder[door[r].exp] = None
  /\ Done(r)
  /\ status' = [status EXCEPT ![door[r].exp] = "concluded"]
  /\ UNCHANGED <<kind, arms, report, holder, runs, worker, seen>>

Judged(e) == kind[e] # "retrieval"

(* fail_running_on *)
FailedOn(n) ==
  [e \in Exps |-> IF Judged(e) /\ status[e] = "running" /\ n \in arms[e] THEN "failed" ELSE status[e]]

(* a comparison is not one of EXPERIMENT_JOBS *)
Cancel(r, j) ==
  /\ Asks(r)
  /\ line[j] # "none" \/ run = j
  /\ Done(r)
  /\ line' = [line EXCEPT ![j] = "none"]
  /\ stop' = (stop \/ run = j)
  /\ status' = FailedOn(j)
  /\ hurt' = hurt \cup {j}
  /\ UNCHANGED <<kind, arms, report, holder, rows, sweeps, at, run, task, locals, cut, returns>>

(* the judge door, for a run that still owes verdicts; the resume of a run *)
Again(r, n) ==
  /\ Asks(r)
  /\ line[n] = "none" /\ run # n
  /\ Done(r)
  /\ \/ rows[n] = "owed" /\ line' = [line EXCEPT ![n] = "judge"]
     \/ /\ \E e \in Exps : kind[e] = "generation" /\ n \in arms[e]
        /\ line' = [line EXCEPT ![n] = "resume"]
  /\ UNCHANGED <<record, rows, sweeps, worker, seen>>

-----------------------------------------------------------------------------
(* The worker *)

Claim(j) ==
  /\ at = "idle"
  /\ line[j] # "none"
  /\ run' = j /\ task' = line[j]
  /\ line' = [line EXCEPT ![j] = "none"]
  /\ at' = CASE line[j] \in {"answer", "resume"} -> "answering"
             [] line[j] = "judge" -> "reviving"
             [] OTHER -> "starting"
  /\ UNCHANGED <<record, rows, sweeps, stop, locals, door, seen>>

Idles ==
  /\ at' = "idle" /\ run' = None /\ task' = "none" /\ stop' = FALSE
  /\ todo' = {} /\ exp' = None /\ read' = {}

(* the job in hand back into the line, unless it was cancelled; an eval_run *)
(* that has attempts behind it may find rows                                *)
PutBack ==
  line' = [line EXCEPT ![run] = IF stop THEN @ ELSE IF task = "answer" THEN "resume" ELSE task]

(* a retry, or a reclaim after a death *)
Returns ==
  /\ at # "idle" /\ returns < MaxReturns
  /\ returns' = returns + 1
  /\ PutBack
  /\ Idles
  /\ UNCHANGED <<record, rows, sweeps, door, hurt, cut>>

(* the last attempt raises; the worker fails what waits on the run *)
GivesUp ==
  /\ at \in {"answering", "reviving", "judging", "reading"}
  /\ status' = FailedOn(run)
  /\ hurt' = hurt \cup {run}
  /\ Idles
  /\ UNCHANGED <<kind, arms, report, holder, runs, door, cut, returns>>

(* eval_run: a first attempt refuses a name with rows; the judge is queued *)
(* behind the run unless it was stopped                                    *)
Answers ==
  /\ at = "answering"
  /\ task = "answer" => rows[run] = "none"
  /\ rows' = [rows EXCEPT ![run] = IF @ = "judged" THEN @ ELSE "owed"]
  /\ line' = [line EXCEPT ![run] = IF stop THEN @ ELSE "judge"]
  /\ Idles
  /\ UNCHANGED <<record, sweeps, door, seen>>

(* revive_for_run: a rejudge's arm that judges takes its experiment back *)
Revives ==
  /\ at = "reviving"
  /\ at' = "judging"
  /\ status' = [e \in Exps |->
       IF kind[e] = "rejudge" /\ status[e] = "failed" /\ run \in arms[e] THEN "running" ELSE status[e]]
  /\ UNCHANGED <<kind, arms, report, holder, runs, job, locals, door, seen>>

SweepsLeft(n) == sweeps[n] < MaxSweeps

SweepsAgain(n) == line' = [line EXCEPT ![n] = "judge"]

(* the walk over the rows, then the sweep a debt asks for; a cancelled pass does neither *)
Judges ==
  /\ at = "judging"
  /\ \E settled \in BOOLEAN :
       /\ rows' = [rows EXCEPT ![run] = IF settled /\ @ = "owed" THEN "judged" ELSE @]
       /\ IF stop
          THEN Idles /\ UNCHANGED <<line, status, sweeps, hurt>>
          ELSE /\ at' = "listing"
               /\ UNCHANGED <<job, locals>>
               /\ \/ rows'[run] # "owed" /\ UNCHANGED <<line, status, sweeps, hurt>>
                  \/ /\ rows'[run] = "owed" /\ SweepsLeft(run)
                     /\ SweepsAgain(run)
                     /\ sweeps' = [sweeps EXCEPT ![run] = @ + 1]
                     /\ UNCHANGED <<status, hurt>>
                  \/ /\ rows'[run] = "owed" /\ ~SweepsLeft(run)
                     /\ status' = FailedOn(run)
                     /\ hurt' = hurt \cup {run}
                     /\ UNCHANGED <<line, sweeps>>
  /\ UNCHANGED <<kind, arms, report, holder, door, cut, returns>>

ListsFailed ==
  /\ at = "listing"
  /\ at' = "looking"
  /\ todo' = {e \in Exps : Judged(e) /\ status[e] = "failed" /\ run \in arms[e]}
  /\ UNCHANGED <<record, runs, job, exp, read, door, seen>>

(* try_aggregate_for_run: which experiments name this run *)
Lists ==
  /\ at = "listing"
  /\ at' = "looking"
  /\ todo' = {e \in Exps : Judged(e) /\ status[e] \in {"running", "failed"} /\ run \in arms[e]}
  /\ UNCHANGED <<record, runs, job, exp, read, door, seen>>

SeriesComplete(e) == \A n \in arms[e] : rows[n] = "judged"

(* revive_if_complete, for one of them *)
RevivesSibling(e) ==
  /\ at = "looking" /\ exp = None /\ e \in todo
  /\ exp' = e /\ todo' = todo \ {e}
  /\ status' = [status EXCEPT ![e] = IF @ = "failed" /\ SeriesComplete(e) THEN "running" ELSE @]
  /\ UNCHANGED <<kind, arms, report, holder, runs, at, job, read, door, seen>>

(* aggregate: is there anything to report *)
Looks ==
  /\ at = "looking" /\ exp # None
  /\ IF status[exp] = "running" /\ SeriesComplete(exp)
     THEN at' = "reading" /\ UNCHANGED exp
     ELSE exp' = None /\ UNCHANGED at
  /\ UNCHANGED <<record, runs, job, todo, read, door, seen>>

(* _report_of: a session of its own, and nothing held meanwhile *)
Reports ==
  /\ at = "reading"
  /\ at' = "recording"
  /\ read' = arms[exp]
  /\ UNCHANGED <<record, runs, job, todo, exp, door, seen>>

(* record_report: guarded on the status the report was computed for *)
Recorded(e, R) ==
  IF status[e] = "running"
  THEN /\ status' = [status EXCEPT ![e] = "aggregated"]
       /\ report' = [report EXCEPT ![e] = R]
  ELSE UNCHANGED <<status, report>>

Records ==
  /\ at = "recording"
  /\ Recorded(exp, read)
  /\ at' = "looking" /\ exp' = None /\ read' = {}
  /\ UNCHANGED <<kind, arms, holder, runs, job, todo, door, seen>>

Finishes ==
  /\ at = "looking" /\ exp = None /\ todo = {}
  /\ Idles
  /\ UNCHANGED <<record, runs, door, seen>>

-----------------------------------------------------------------------------
(* compare_retrieval: a retry takes its experiment back, a failure fails it *)

Starts ==
  /\ at = "starting"
  /\ at' = "measuring"
  /\ read' = arms[run]
  /\ status' = [status EXCEPT ![run] = IF @ = "failed" THEN "running" ELSE @]
  /\ UNCHANGED <<kind, arms, report, holder, runs, job, todo, exp, door, seen>>

Measures ==
  /\ at = "measuring"
  /\ at' = "landing"
  /\ ~stop
  /\ UNCHANGED <<record, runs, job, locals, door, seen>>

(* a cancel seen between arms raises as an arm that breaks does *)
Breaks ==
  /\ at = "measuring"
  /\ status' = [status EXCEPT ![run] = IF @ = "running" THEN "failed" ELSE @]
  /\ Idles
  /\ \/ /\ returns < MaxReturns
        /\ returns' = returns + 1
        /\ PutBack
        /\ UNCHANGED hurt
     \/ /\ hurt' = hurt \cup {run}
        /\ UNCHANGED <<returns, line>>
  /\ UNCHANGED <<kind, arms, report, holder, rows, sweeps, door, cut>>

(* a grid that came too late is kept beside the row that moved on *)
Lands ==
  /\ at = "landing"
  /\ IF status[run] = "running"
     THEN Recorded(run, read)
     ELSE /\ report' = [report EXCEPT ![run] = IF @ = {} THEN read ELSE @]
          /\ UNCHANGED status
  /\ Idles
  /\ UNCHANGED <<kind, arms, holder, runs, door, seen>>

-----------------------------------------------------------------------------
Work ==
  \/ \E j \in Jobs : Claim(j)
  \/ Answers \/ Revives \/ Judges \/ Lists \/ Looks \/ Reports \/ Records \/ Finishes
  \/ \E e \in Exps : RevivesSibling(e)
  \/ Starts \/ Measures \/ Breaks \/ Lands \/ GivesUp

Next ==
  \/ \E r \in Requests :
       \/ \E e \in Exps, S \in SUBSET Names :
            CreateRejudge(r, e, S) \/ CreateGeneration(r, e, S) \/ CreateRetrieval(r, e, S) \/ AddLooks(r, e, S)
       \/ AddCopies(r) \/ Commits(r) \/ Fails(r) \/ DeleteRuns(r)
       \/ \E e \in Exps : ConcludeLooks(r, e)
       \/ ConcludeWrites(r)
       \/ \E j \in Jobs : Cancel(r, j)
       \/ \E n \in Names : Again(r, n)
  \/ Returns
  \/ Work

Spec == Init /\ [][Next]_vars

(* the lane's loop never stops, and a call at a door goes on once begun *)
FairSpec ==
  /\ Spec
  /\ WF_vars(Work)
  /\ \A r \in Requests : WF_vars(AddCopies(r) \/ Commits(r) \/ DeleteRuns(r))

-----------------------------------------------------------------------------
(* What makes it correct *)

(* An aggregated experiment's report was computed over exactly the arms the
   experiment names, whatever was added, cancelled or revived while the
   report was being computed with nothing held. *)
AggregatedCoversItsArms ==
  \A e \in Exps : status[e] = "aggregated" => report[e] = arms[e]

InFlight == UNION {door[r].names : r \in {q \in Requests : door[q].at \in {"copied", "undoing"}}}

(* Rows under a name belong to an experiment that names it or to a request
   that still has to commit or delete them: a start that failed leaves no
   copies to burn the names, but for a request cut off inside the copying. *)
NoOrphanedCopies ==
  \A n \in Names :
    rows[n] # "none" => n \in InFlight \cup cut \/ \E e \in Exps : n \in arms[e]

(* Two rejudges never share an arm: a copy refuses a name that has rows, and
   the deletion of one's copies never takes another's. *)
NoNameTwice ==
  \A e, f \in Exps :
    e # f /\ kind[e] = "rejudge" /\ kind[f] = "rejudge" => arms[e] \cap arms[f] = {}

JobsOf(e) == IF Judged(e) THEN arms[e] ELSE {e}

(* someone still works, or will work, on the experiment *)
Attended(e) == \E j \in JobsOf(e) : line[j] # "none" \/ run = j

(* An experiment is left `running` with no job to end it only if a job of one
   of its arms was cancelled or given up: retries, deaths, sweeps, arms added
   and failed starts never strand one. *)
StrandedOnlyIfHurt ==
  \A e \in Exps :
    status[e] = "running" => Attended(e) \/ JobsOf(e) \cap hurt # {}

(* No step moves a status against the table of transitions, but for the
   conclusion, which is written by id over whatever the row says by then. *)
KeepsTransitions ==
  [][\A e \in Exps :
       <<status[e], status'[e]>> \in
         {<<s, s>> : s \in {"none", "running", "aggregated", "concluded", "failed"}} \cup
         {<<"none", "running">>, <<"running", "aggregated">>, <<"running", "failed">>,
          <<"aggregated", "running">>, <<"failed", "running">>} \cup
         {<<s, "concluded">> : s \in {"aggregated", "running", "failed"}}]_vars

(* A rejudge never loses the rows of an arm: what a failed request deletes are
   copies that no rejudge names. *)
RowsOfArmsStay ==
  [][\A e \in Exps : kind[e] = "rejudge" =>
       \A n \in arms[e] : rows[n] # "none" => rows'[n] # "none"]_vars

(* Under the lane's loop an experiment none of whose jobs is cancelled or
   given up stops running: it is reported. *)
UnhurtIsReported ==
  \A e \in Exps :
    status[e] = "running" ~> (status[e] # "running" \/ JobsOf(e) \cap hurt # {})

(***************************************************************************)
(* An experiment, its arms and the copies it judges: a report covers the   *)
(* arms named, copies have an owner and one name, and a series is left     *)
(* running only where a job of it was cancelled or given up.               *)
(***************************************************************************)
SeriesHolds ==
  /\ TypeOK
  /\ AggregatedCoversItsArms
  /\ NoOrphanedCopies
  /\ NoNameTwice
  /\ StrandedOnlyIfHurt
(* No step moves a status or takes rows that its experiment still counts on. *)
StepsKeepTheSeries == KeepsTransitions /\ RowsOfArmsStay
=============================================================================
