------------------------------- MODULE Judging -------------------------------
(***************************************************************************)
(* The judge_answers passes over the rows of one run and over live answers:*)
(* what a row owes, the sweeps that come back for it, the batch live       *)
(* answers gather in, and the merge of a verdict taken outside the lock.   *)
(* Sources: app/job_handlers/judging.py, app/use_cases/judge_debts.py,     *)
(* app/passes.py, app/job_queue.py (judge_live), app/worker.py.            *)
(*                                                                         *)
(* Two axes: `settling` is faithfulness, the one that settles a row's      *)
(* outcome, and `control` the one a control sample may leave out.  A       *)
(* verdict is low (a score of 0) or high.  The stamp of an axis stands for *)
(* its entry in `metrics`, kept in another column than its score.  A live  *)
(* answer has no reference, so the control axis has no material on it.     *)
(***************************************************************************)
EXTENDS Naturals, FiniteSets, Sequences

CONSTANTS
  RunRows, LiveRows,   \* rows of the run, answered; rows of the chat
  Sample,              \* the rows the control sample draws
  Doubled,             \* rows a caller's own list names twice
  Width,               \* judge_width: rows in flight at once
  MaxTries,            \* MAX_JUDGE_ATTEMPTS
  MaxSweeps,           \* _MAX_SWEEPS
  MaxAttempts,         \* MAX_ATTEMPTS of the worker
  MaxJobs,             \* bound of the model: passes asked for and live answers
  MaxHalts             \* bound of the model: deaths, faults, exceptions, cancels

ASSUME JudgingAssumption ==
  /\ RunRows \cup LiveRows \subseteq Nat
  /\ RunRows \cap LiveRows = {} /\ Sample \subseteq RunRows /\ Doubled \subseteq RunRows
  /\ Width \in Nat \ {0} /\ MaxTries \in Nat \ {0} /\ MaxAttempts \in Nat \ {0}
  /\ MaxSweeps \in Nat /\ MaxJobs \in Nat /\ MaxHalts \in Nat

VARIABLES
  score, tries, stamp, skipped, settled,  \* each row, its axes
  asked,                                  \* live rows answered so far
  jobs,                                   \* judge_answers jobs by id
  at, run,                                \* the worker: place, job in hand
  owed, left, flying, wrote, why,         \* its pass: rows owed, items to walk, in flight
  failed,                                 \* the run's experiment was told it failed
  halts

row  == <<score, tries, stamp, skipped, settled>>
pass == <<owed, left, flying, wrote, why>>
vars == <<row, asked, jobs, at, run, pass, failed, halts>>

Rows == RunRows \cup LiveRows
Axes == {"settling", "control"}
Verdicts(a) == IF a = "settling" THEN {"low", "high"} ELSE {"high"}
Items == Rows \X {1, 2}
Job == [kind : {"run", "forced", "live"}, control : BOOLEAN, sweep : 0..MaxSweeps,
        attempts : 0..MaxAttempts, at : {"new", "running", "done", "error", "cancelled"},
        list : SUBSET Rows, walked : SUBSET Rows]

TypeOK ==
  /\ score \in [Rows -> [Axes -> {"none", "low", "high"}]]
  /\ tries \in [Rows -> [Axes -> Nat]] /\ stamp \in [Rows -> [Axes -> BOOLEAN]]
  /\ skipped \in [Rows -> BOOLEAN] /\ settled \in [Rows -> BOOLEAN]
  /\ asked \subseteq LiveRows /\ jobs \in Seq(Job)
  /\ at \in {"idle", "walking", "closing", "sweeping", "stopping"}
  /\ run \in 0..Len(jobs) /\ (run = 0 <=> at = "idle")
  /\ left \subseteq Items /\ wrote \in BOOLEAN /\ why \in {"", "final", "retry"}
  /\ Cardinality(flying) <= Width /\ owed \subseteq Rows
  /\ failed \in BOOLEAN /\ halts \in 0..MaxHalts

Init ==
  /\ score = [r \in Rows |-> [a \in Axes |-> "none"]]
  /\ tries = [r \in Rows |-> [a \in Axes |-> 0]]
  /\ stamp = [r \in Rows |-> [a \in Axes |-> FALSE]]
  /\ skipped = [r \in Rows |-> FALSE] /\ settled = [r \in Rows |-> FALSE]
  /\ asked = {} /\ jobs = <<>> /\ at = "idle" /\ run = 0
  /\ owed = {} /\ left = {} /\ flying = {} /\ wrote = FALSE /\ why = ""
  /\ failed = FALSE /\ halts = 0

Halts == halts < MaxHalts /\ halts' = halts + 1

(* still_to_judge, the sql of a debt: no score, attempts left, not skipped *)
Has(r) == IF r \in LiveRows THEN {"settling"} ELSE Axes
StillToJudge(r) ==
  \E a \in Has(r) : /\ score[r][a] = "none" /\ tries[r][a] < MaxTries
                  /\ ~(a = "control" /\ skipped[r])
Debts == {r \in RunRows : StillToJudge(r)}

(* _owed, its python side: no score and not among the axes this pass skips *)
OwedAgain(r, skip) == Has(r) \ skip
Owed(r, skip) == {a \in Has(r) \ skip : score[r][a] = "none"}

-----------------------------------------------------------------------------
(* The doors *)

NewJob(kind, control, list) ==
  [kind |-> kind, control |-> control, sweep |-> 0, attempts |-> 0, at |-> "new",
   list |-> list, walked |-> {}]
Doored == {j \in DOMAIN jobs : jobs[j].kind # "live" /\ jobs[j].sweep = 0}
Room == Cardinality(Doored) + Cardinality(asked) < MaxJobs

(* a judge asked for by name owes something; an arm's names a control sample *)
AsksForRun(control) ==
  /\ Room
  /\ Debts # {}
  /\ jobs' = Append(jobs, NewJob("run", control, {}))
  /\ UNCHANGED <<row, asked, at, run, pass, failed, halts>>

(* a list of the caller's own, which force judges past the cap *)
AsksForList ==
  /\ Room /\ Doubled # {}
  /\ jobs' = Append(jobs, NewJob("forced", FALSE, Doubled))
  /\ UNCHANGED <<row, asked, at, run, pass, failed, halts>>

Waits(j) == jobs[j].kind = "live" /\ jobs[j].at = "new"

(* judge_live: joins the oldest batch nobody has claimed, or starts one *)
JudgeLive(r) ==
  /\ r \notin asked /\ Room
  /\ asked' = asked \cup {r}
  /\ LET waiting == {j \in DOMAIN jobs : Waits(j)}
     IN  IF waiting = {} THEN jobs' = Append(jobs, NewJob("live", FALSE, {r}))
         ELSE \E j \in waiting : /\ \A i \in waiting : j <= i
                                 /\ jobs' = [jobs EXCEPT ![j].list = @ \cup {r}]
  /\ UNCHANGED <<row, at, run, pass, failed, halts>>

Cancels(j) ==
  /\ j \in DOMAIN jobs /\ jobs[j].at \in {"new", "running"} /\ Halts
  /\ jobs' = [jobs EXCEPT ![j].at = "cancelled"]
  /\ failed' = (failed \/ jobs[j].kind = "run")
  /\ UNCHANGED <<row, asked, at, run, pass>>

-----------------------------------------------------------------------------
(* The handler *)

Cancelled == jobs[run].at = "cancelled"
Forced == jobs[run].kind # "run"
Skip(r) == IF jobs[run].control /\ r \notin Sample THEN {"control"} ELSE {}

Lets == /\ at' = "idle" /\ run' = 0
        /\ owed' = {} /\ left' = {} /\ flying' = {} /\ wrote' = FALSE /\ why' = ""

(* a job given up fails the experiment that waits on its run *)
Ends(kind) ==
  /\ jobs' = IF Cancelled THEN jobs ELSE [jobs EXCEPT ![run].at = kind]
  /\ failed' = (failed \/ (kind = "error" /\ jobs[run].kind = "run"))
  /\ Lets

EndsInRetry ==
  IF jobs[run].attempts + 1 < MaxAttempts
  THEN /\ jobs' = IF Cancelled THEN jobs
                  ELSE [jobs EXCEPT ![run].at = "new", ![run].attempts = @ + 1]
       /\ Lets /\ UNCHANGED failed
  ELSE Ends("error")

(* the claim reads the options: the rows of a list, or what the run owes *)
Claims(j) ==
  /\ at = "idle" /\ j \in DOMAIN jobs /\ jobs[j].at = "new"
  /\ LET rows == IF jobs[j].kind = "run" THEN Debts ELSE jobs[j].list
     IN  /\ owed' = rows
         /\ left' = rows \X (IF jobs[j].kind = "forced" THEN {1, 2} ELSE {1})
  /\ jobs' = [jobs EXCEPT ![j].at = "running", ![j].walked = {}]
  /\ at' = "walking" /\ run' = j
  /\ failed' = (failed /\ jobs[j].kind # "run")
  /\ UNCHANGED <<row, asked, flying, wrote, why, halts>>

Calls(r) == {a \in Owed(r, Skip(r)) : Forced \/ tries[r][a] < MaxTries}

(* rows go in the order of the list; _judge_log reads the row and lets the *)
(* session go before it calls the judge                                    *)
Free == Cardinality(flying) < Width

Reads(i) ==
  /\ at = "walking" /\ i \in left /\ (\A k \in left : i[1] <= k[1]) /\ ~Cancelled /\ Free
  /\ left' = left \ {i}
  /\ flying' = flying \cup {[item |-> i, axes |-> Calls(i[1])]}
  /\ jobs' = [jobs EXCEPT ![run].walked = @ \cup {i[1]}]
  /\ UNCHANGED <<row, asked, at, run, owed, wrote, why, failed, halts>>

(* _mark_skipped, _apply_axis, _settle_outcome: under the row's lock, on what *)
(* it holds by now; `said` is a verdict or an error for each axis called      *)
Settled(r) == score'[r]["settling"] = "low"

Merge(r, said) ==
  LET still == Owed(r, Skip(r))
      applied == {a \in DOMAIN said : a \in still \/ Forced}
      given == {a \in applied : said[a] # "error"}
  IN  /\ score' = [score EXCEPT ![r] = [a \in Axes |-> IF a \in given THEN said[a] ELSE @[a]]]
      /\ stamp' = [stamp EXCEPT ![r] = [a \in Axes |-> @[a] \/ a \in given]]
      /\ tries' = [tries EXCEPT ![r] = [a \in Axes |->
                     IF a \in given THEN 0 ELSE IF a \in applied THEN @[a] + 1
                     ELSE IF a \in Skip(r) /\ score[r][a] = "none" THEN 0 ELSE @[a]]]
      /\ skipped' = [skipped EXCEPT ![r] =
                     IF Skip(r) # {} /\ score[r]["control"] = "none" THEN TRUE
                     ELSE @ /\ "control" \notin applied]
      /\ settled' = [settled EXCEPT ![r] = Settled(r)]
      /\ wrote' = (wrote \/ given # {})

Merges(f) ==
  LET r == f.item[1]
      Answers(a) == Verdicts(a) \cup {"error"}
  IN  /\ f \in flying
      /\ flying' = flying \ {f}
      /\ \/ /\ \E said \in [f.axes -> {"low", "high", "error"}] :
                 /\ \A a \in f.axes : said[a] \in Answers(a)
                 /\ Merge(r, said)
         \/ UNCHANGED <<row, wrote>>   \* judge.not_written: the lock did not come in time
      /\ UNCHANGED <<asked, jobs, at, run, owed, left, why, failed, halts>>

(* a row that broke before any axis ran still spends an attempt on each *)
CountsTheAttempt(f) ==
  LET r == f.item[1]
      due == Owed(r, Skip(r))
  IN  /\ at # "idle" /\ f \in flying /\ Halts
      /\ flying' = flying \ {f}
      /\ tries' = [tries EXCEPT ![r] = [a \in Axes |-> IF a \in due THEN @[a] + 1
                     ELSE IF a \in Skip(r) /\ score[r][a] = "none" THEN 0 ELSE @[a]]]
      /\ skipped' = [skipped EXCEPT ![r] = (@ /\ "control" \notin due)
                       \/ (Skip(r) # {} /\ score[r]["control"] = "none")]
      /\ UNCHANGED <<score, stamp, settled, asked, jobs, at, run, owed, left, wrote, why, failed>>

(* a StandFault in one thread: rows not begun are dropped, those in flight land *)
Faults(f, kind) ==
  /\ at = "walking" /\ f \in flying /\ Halts
  /\ flying' = flying \ {f}
  /\ at' = "stopping" /\ why' = kind /\ left' = {}
  /\ UNCHANGED <<row, asked, jobs, run, owed, wrote, failed>>

Stopping ==
  /\ at = "stopping" /\ flying = {}
  /\ IF why = "final" THEN Ends("error") ELSE EndsInRetry
  /\ UNCHANGED <<row, asked, halts>>

(* walk.close: a first pass that owed rows and wrote none is a fault *)
Closes ==
  /\ at = "walking" /\ flying = {} /\ (left = {} \/ Cancelled)
  /\ \/ /\ ~Cancelled /\ ~Forced /\ jobs[run].sweep = 0 /\ owed # {} /\ ~wrote
        /\ at' = "stopping" /\ why' = "final" /\ left' = {}
     \/ /\ Cancelled \/ Forced \/ jobs[run].sweep > 0 \/ owed = {} \/ wrote
        /\ at' = IF Cancelled \/ jobs[run].kind # "run" THEN "closing" ELSE "sweeping"
        /\ left' = {} /\ UNCHANGED why
  /\ UNCHANGED <<row, asked, jobs, run, owed, flying, wrote, failed, halts>>

LastSweep(n) == n >= MaxSweeps
NextSweep(j) == [NewJob("run", j.control, {}) EXCEPT !.sweep = j.sweep + 1]

SweepsQuietly ==
  /\ at = "sweeping"
  /\ at' = "closing"
  /\ jobs' = IF Debts = {} \/ LastSweep(jobs[run].sweep) THEN jobs ELSE Append(jobs, NextSweep(jobs[run]))
  /\ UNCHANGED <<row, asked, run, pass, failed, halts>>

(* _sweep_again_if_rows_are_still_owed: a new job, with the counter it carries *)
Sweeps ==
  /\ at = "sweeping"
  /\ \/ /\ at' = "closing"
        /\ IF Debts = {} THEN UNCHANGED <<jobs, failed>>
           ELSE IF LastSweep(jobs[run].sweep) THEN failed' = TRUE /\ UNCHANGED jobs
           ELSE jobs' = Append(jobs, NextSweep(jobs[run])) /\ UNCHANGED failed
        /\ UNCHANGED <<run, pass, halts>>
     \/ Halts /\ EndsInRetry
  /\ UNCHANGED <<row, asked>>

Completes ==
  /\ at = "closing"
  /\ Ends("done")
  /\ UNCHANGED <<row, asked, halts>>

Dies ==
  /\ at # "idle" /\ Halts
  /\ jobs' = IF Cancelled THEN jobs
             ELSE [jobs EXCEPT ![run].at = "new",
                     ![run].attempts = IF @ < MaxAttempts THEN @ + 1 ELSE @]
  /\ Lets
  /\ UNCHANGED <<row, asked, failed>>

Worker ==
  \/ \E j \in DOMAIN jobs : Claims(j)
  \/ \E i \in left : Reads(i)
  \/ \E f \in flying : \/ Merges(f) \/ CountsTheAttempt(f)
                       \/ \E kind \in {"final", "retry"} : Faults(f, kind)
  \/ Closes \/ Stopping \/ Sweeps \/ Completes
Doors ==
  \/ \E control \in BOOLEAN : AsksForRun(control)
  \/ AsksForList
  \/ \E r \in LiveRows : JudgeLive(r)
  \/ \E j \in DOMAIN jobs : Cancels(j)

Next == Worker \/ Doors \/ Dies
Spec == Init /\ [][Next]_vars

-----------------------------------------------------------------------------
(* Score, stamp and settled outcome live in different columns, written by    *)
(* passes that read the row before they called the judge: they still agree.  *)
ColumnsAgree ==
  \A r \in Rows :
    /\ \A a \in Axes : stamp[r][a] <=> score[r][a] # "none"
    /\ settled[r] <=> score[r]["settling"] = "low"

(* A verdict once written stands: only a forced pass, on a row its caller    *)
(* named twice, may put another in its place.                                *)
VerdictStands ==
  [][\A r \in Rows, a \in Axes : score[r][a] # "none" /\ score'[r][a] # score[r][a]
       => run # 0 /\ jobs[run].kind = "forced" /\ r \in Doubled]_vars

(* While a row of a judged run is owed, a pass is queued or at work for it,  *)
(* or its experiment was told it failed: sweeps end, and they end out loud.  *)
(* Rows a caller's own list judged are left out: an error there takes the    *)
(* skipped mark off a row, which owes again with no pass to come for it.     *)
Listed == UNION {jobs[j].list : j \in {k \in DOMAIN jobs : jobs[k].kind = "forced"}}
DebtIsFollowed ==
  (\E j \in DOMAIN jobs : jobs[j].kind = "run") /\ Debts \ Listed # {}
    => \/ failed
       \/ \E j \in DOMAIN jobs : jobs[j].kind = "run" /\ jobs[j].at \in {"new", "running", "cancelled"}

(* A live answer is in one batch, and a batch written done has walked each   *)
(* answer it lists: none joins a batch that has already read its list.       *)
LiveIsWalked ==
  /\ \A r \in asked : \E j \in DOMAIN jobs : jobs[j].kind = "live" /\ r \in jobs[j].list
  /\ \A j \in DOMAIN jobs : jobs[j].kind = "live" /\ jobs[j].at = "done" => jobs[j].walked = jobs[j].list

(* A pass with a control sample, its retries and its sweeps judge the        *)
(* control axis inside the sample alone.                                     *)
ControlInSample ==
  (\A j \in Doored : jobs[j].control) =>
    \A r \in RunRows \ Sample : score[r]["control"] = "none"

(* What a comment says and the code does not keep.                           *)
(* job_handlers/judging.py:628: "`_not_skipped` drops the row for ever, and  *)
(* only an explicit `log_ids` job reaches it".                               *)
SkippedIsDropped ==
  [][\A r \in Rows : skipped[r] /\ score'[r]["control"] # score[r]["control"]
       => jobs[run].kind = "forced"]_vars

(* job_handlers/judging.py:181: "a sweep after a cancellation queues the     *)
(* work again, which is the opposite of cancelling".                         *)
CancelQueuesNothing ==
  [][run # 0 /\ Len(jobs') > Len(jobs) /\ jobs'[Len(jobs')].sweep > 0 => ~Cancelled]_vars
(***************************************************************************)
(* The judge's passes: the two columns of a verdict agree, what is owed is *)
(* owed to a job, a live answer is walked, the control stays in its sample.*)
(***************************************************************************)
VerdictsHold == TypeOK /\ ColumnsAgree /\ DebtIsFollowed /\ LiveIsWalked /\ ControlInSample
=============================================================================
