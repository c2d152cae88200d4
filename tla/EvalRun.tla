------------------------------- MODULE EvalRun -------------------------------
(***************************************************************************)
(* One named evaluation run: the doors that queue it, the eval_run handler *)
(* and the runner that answers its questions, and the resume of a run that *)
(* a fault, a cancel or a dead worker stopped.                             *)
(* Sources: app/job_handlers/evaluation.py, app/evals/runner.py,           *)
(* app/use_cases/eval_runs.py, app/worker.py, app/job_queue.py.            *)
(*                                                                         *)
(* All jobs are eval_runs of the one name; they share the only `default`   *)
(* lane, so one worker has at most one in hand.  A row keeps what tells    *)
(* rows apart: its id, its question, if it is an answer or an error, the   *)
(* options it was answered with (named by the request that chose them), the *)
(* marks `resumed` and `resumed_from`, and whether a resuming attempt wrote *)
(* it (`again`, of the model alone).                                       *)
(***************************************************************************)
EXTENDS Naturals, FiniteSets, Sequences, SequencesExt

CONSTANTS
  Questions,            \* the target of the run: numbers, in the order of its list
  Jobs,                 \* requests, numbered in the order they are made
  Pipelines,            \* pipelines of the instance: "agent", "single_shot"
  None,
  MaxAttempts,          \* MAX_ATTEMPTS
  MaxReclaims,          \* MAX_RECLAIMS
  MaxHalts              \* bound of the model: deaths, faults, exceptions and cancels

VARIABLES
  pipeline,                 \* of the run: every job of the name has the same
  job, line,                \* jobs by request, and the inserted ones by id
  rows, next,               \* the run's rows in question_logs, the next id
  judges,                   \* if a judge_answers job of the run was queued
  at, run,                  \* the worker: place, job in hand
  resume, todo, held, since,\* its locals: texts left, rows to replace, start
  owed, answered, stopped, why,
  halts

table  == <<rows, next, judges>>
locals == <<resume, todo, held, since, owed, answered, stopped, why>>
vars   == <<pipeline, job, line, table, at, run, locals, halts>>

Row == [id : Nat, q : Questions, out : {"answer", "error"}, opts : Jobs,
        resumed : BOOLEAN, from : SUBSET Nat, again : BOOLEAN]
Active == {"new", "running"}
NoJob == [at |-> "none", resume |-> FALSE, opts |-> 0,
          attempts |-> 0, reclaims |-> 0]

TypeOK ==
  /\ pipeline \in Pipelines
  /\ job \in [Jobs -> [at : {"none", "asked", "new", "running", "done", "error", "cancelled"},
                       resume : BOOLEAN, opts : Jobs \cup {0},
                       attempts : 0..MaxAttempts + MaxHalts, reclaims : 0..MaxHalts]]
  /\ line \in Seq(Jobs) /\ IsInjective(line)
  /\ rows \subseteq Row /\ next \in Nat /\ judges \in BOOLEAN
  /\ at \in {"idle", "checking", "reading", "retrieving", "answering",
             "stopping", "marking", "judging", "completing"}
  /\ run \in Jobs \cup {None} /\ (run = None <=> at = "idle")
  /\ resume \in BOOLEAN /\ todo \subseteq Questions /\ held \subseteq Row
  /\ since \in 0..next /\ owed \in BOOLEAN /\ answered \in BOOLEAN
  /\ stopped \in BOOLEAN /\ why \in {"", "final", "retry"} /\ halts \in 0..MaxHalts

Init ==
  /\ pipeline \in Pipelines
  /\ job = [j \in Jobs |-> NoJob] /\ line = <<>>
  /\ rows = {} /\ next = 1 /\ judges = FALSE
  /\ at = "idle" /\ run = None
  /\ resume = FALSE /\ todo = {} /\ held = {} /\ since = 0
  /\ owed = FALSE /\ answered = FALSE /\ stopped = FALSE /\ why = ""
  /\ halts = 0

AnsweredOf(R) == {r.q : r \in {s \in R : s.out = "answer"}}
Halts == halts < MaxHalts /\ halts' = halts + 1
ErrorsOf(R, Q) == {r \in R : r.out = "error" /\ r.q \in Q}
Ids(R) == {r.id : r \in R}

-----------------------------------------------------------------------------
(* The doors: each looks in one transaction and inserts in a later step *)

Asks(j) == job[j].at = "none" /\ \A i \in Jobs : i < j => job[i].at # "none"

(* refuse_a_taken_run: a name with rows or with a job is refused *)
AsksNew(j) ==
  /\ Asks(j)
  /\ rows = {} /\ line = <<>>
  /\ job' = [job EXCEPT ![j].at = "asked", ![j].opts = j]
  /\ UNCHANGED <<pipeline, line, table, at, run, locals, halts>>

(* resumed_options: none of the name's jobs is active, and the options are *)
(* the latest job's without the worker's own keys                          *)
AsksAgain(j) ==
  /\ Asks(j)
  /\ line # <<>> /\ \A i \in Jobs : job[i].at \notin Active
  /\ job' = [job EXCEPT ![j] = [NoJob EXCEPT !.at = "asked", !.resume = TRUE,
                                             !.opts = job[Last(line)].opts]]
  /\ UNCHANGED <<pipeline, line, table, at, run, locals, halts>>

Queues(j) ==
  /\ job[j].at = "asked"
  /\ job' = [job EXCEPT ![j].at = "new"]
  /\ line' = Append(line, j)
  /\ UNCHANGED <<pipeline, table, at, run, locals, halts>>

Cancels(j) ==
  /\ job[j].at \in Active /\ Halts
  /\ job' = [job EXCEPT ![j].at = "cancelled"]
  /\ UNCHANGED <<pipeline, line, table, at, run, locals>>

-----------------------------------------------------------------------------
(* The end of an attempt: a job cancelled meanwhile stays cancelled *)

Cancelled == job[run].at = "cancelled"

Lets == /\ at' = "idle" /\ run' = None
        /\ resume' = FALSE /\ todo' = {} /\ held' = {} /\ since' = 0
        /\ owed' = FALSE /\ answered' = FALSE /\ stopped' = FALSE /\ why' = ""

Ends(kind) ==
  /\ job' = IF Cancelled THEN job ELSE [job EXCEPT ![run].at = kind]
  /\ Lets

(* any exception that is not Final: put back until MAX_ATTEMPTS *)
EndsInRetry ==
  IF job[run].attempts + 1 < MaxAttempts
  THEN /\ job' = IF Cancelled THEN job
                 ELSE [job EXCEPT ![run].at = "new", ![run].attempts = @ + 1]
       /\ Lets
  ELSE Ends("error")

-----------------------------------------------------------------------------
(* The handler *)

Claims(j) ==
  /\ at = "idle" /\ job[j].at = "new"
  /\ job' = [job EXCEPT ![j].at = "running"]
  /\ at' = "checking" /\ run' = j
  /\ UNCHANGED <<pipeline, line, table, locals, halts>>

Taken(j) ==
  \/ Range(line) \ {j} # {}
  \/ rows # {} /\ job[j].attempts = 0

(* _claims_on: without `resume` any other job of the name ends this one, and *)
(* so do rows unless an earlier attempt of this very job may have left them  *)
Checks ==
  /\ at = "checking"
  /\ \/ /\ ~job[run].resume /\ Taken(run)
        /\ Ends("error") /\ UNCHANGED halts
     \/ /\ job[run].resume \/ ~Taken(run)
        /\ resume' = (job[run].resume \/ rows # {})
        /\ at' = "reading"
        /\ UNCHANGED <<job, run, todo, held, since, owed, answered, stopped, why, halts>>
     \/ Halts /\ EndsInRetry
  /\ UNCHANGED <<pipeline, line, table>>

UnansweredOfNone(R) == Questions
UnansweredOf(R) == Questions \ AnsweredOf(R)

SettlesUntold(R) == R \ ErrorsOf(R, AnsweredOf(R))

(* _settle_left_behind: a question with an answer loses its error rows, and *)
(* the answer says which                                                    *)
Settles(R) ==
  LET left == ErrorsOf(R, AnsweredOf(R))
      From(q) == Ids({r \in left : r.q = q})
  IN  {IF From(r.q) = {} THEN r ELSE [r EXCEPT !.resumed = TRUE, !.from = From(r.q)]
         : r \in R \ left}

(* _still_to_answer, one transaction *)
Reads ==
  /\ at = "reading"
  /\ \/ /\ rows' = (IF resume THEN Settles(rows) ELSE rows)
        /\ todo' = IF resume THEN UnansweredOf(rows) ELSE Questions
        /\ owed' = (todo' # {})
        /\ held' = IF resume THEN ErrorsOf(rows, todo') ELSE {}
        /\ since' = next
        /\ at' = IF pipeline = "agent" THEN "answering" ELSE "retrieving"
        /\ UNCHANGED <<job, run, resume, answered, stopped, why, halts>>
     \/ Halts /\ EndsInRetry /\ UNCHANGED rows
  /\ UNCHANGED <<pipeline, line, next, judges>>

Stops(kind) ==
  /\ at' = "stopping" /\ why' = kind
  /\ UNCHANGED <<job, run, resume, todo, held, since, owed, answered, stopped>>

(* the phases before the generator: a batch or a search that fails drops its *)
(* questions, a rerank that throws ends the attempt, a cancel skips the rest *)
Retrieves ==
  /\ at = "retrieving"
  /\ \/ /\ Cancelled
        /\ at' = "marking" /\ stopped' = TRUE
        /\ UNCHANGED <<job, run, resume, todo, held, since, owed, answered, why, halts>>
     \/ /\ todo' \in SUBSET todo
        /\ at' = "answering"
        /\ UNCHANGED <<job, run, resume, held, since, owed, answered, stopped, why, halts>>
     \/ Halts /\ \E kind \in {"final", "retry"} : Stops(kind)
  /\ UNCHANGED <<pipeline, line, table>>

NewRow(q, out) == [id |-> next, q |-> q, out |-> out, opts |-> job[run].opts,
                   resumed |-> FALSE, from |-> {}, again |-> resume]

(* one question, read before it if the job is cancelled.  The agent writes an *)
(* error row of a hop that failed and returns normally; a single shot writes  *)
(* none; a row the base refused is logged, and its answer counts all the same *)
Answers(q) ==
  /\ at = "answering" /\ q \in todo /\ (\A p \in todo : q <= p) /\ ~Cancelled
  /\ todo' = todo \ {q}
  /\ \/ /\ rows' = rows \cup {NewRow(q, "answer")} /\ next' = next + 1
        /\ answered' = TRUE
     \/ /\ pipeline = "agent"
        /\ rows' = rows \cup {NewRow(q, "error")} /\ next' = next + 1
        /\ UNCHANGED answered
     \/ /\ answered' \in {answered, TRUE}
        /\ UNCHANGED <<rows, next>>
  /\ UNCHANGED <<pipeline, job, line, judges, at, run, resume, held, since, owed, stopped, why, halts>>

(* a StandFault is no row's failure: a moved seat, a spilled model, a broker gone *)
Faults ==
  /\ at = "answering" /\ todo # {} /\ ~Cancelled
  /\ Halts /\ Stops("final")
  /\ UNCHANGED <<pipeline, line, table>>

(* the walk is over: a cancel ends it quietly, and a walk that answered nothing *)
(* of what it owed is a fault, unless the job is cancelled by then               *)
Closes ==
  /\ at = "answering" /\ (todo = {} \/ Cancelled)
  /\ \/ /\ todo = {} /\ owed /\ ~answered /\ ~Cancelled
        /\ Stops("final")
     \/ /\ todo # {} \/ ~owed \/ answered \/ Cancelled
        /\ at' = "marking" /\ stopped' = (todo # {})
        /\ UNCHANGED <<job, run, resume, todo, held, since, owed, answered, why>>
  /\ UNCHANGED <<pipeline, line, table, halts>>

(* _mark_resumed: what this attempt wrote says so, and takes the place of the *)
(* error rows its questions had                                               *)
Marked(R) ==
  LET new == {r \in R : r.id >= since}
      gone == {r \in held : \E s \in new : s.q = r.q}
      Mark(r) == LET from == Ids({h \in held : h.q = r.q})
                 IN  [r EXCEPT !.resumed = TRUE, !.from = IF from = {} THEN @ ELSE from]
  IN  {IF r \in new THEN Mark(r) ELSE r : r \in R \ gone}

(* the exception on its way out: a mark that fails is logged, a fault replaces it *)
Stopping ==
  /\ at = "stopping"
  /\ \/ rows' = (IF resume THEN Marked(rows) ELSE rows)
     \/ resume /\ rows' = rows
  /\ IF why = "final" THEN Ends("error") ELSE EndsInRetry
  /\ UNCHANGED <<pipeline, line, next, judges, halts>>

Marks ==
  /\ at = "marking"
  /\ \/ /\ rows' = (IF resume THEN Marked(rows) ELSE rows)
        /\ at' = IF stopped THEN "completing" ELSE "judging"
        /\ UNCHANGED <<job, run, locals, halts>>
     \/ resume /\ Halts /\ EndsInRetry /\ UNCHANGED rows
  /\ UNCHANGED <<pipeline, line, next, judges>>

Judges ==
  /\ at = "judging"
  /\ \/ judges' = TRUE /\ at' = "completing" /\ UNCHANGED <<job, run, locals, halts>>
     \/ Halts /\ EndsInRetry /\ UNCHANGED judges
  /\ UNCHANGED <<pipeline, line, rows, next>>

Completes ==
  /\ at = "completing"
  /\ Ends("done")
  /\ UNCHANGED <<pipeline, line, table, halts>>

(* requeue_stale at the next start: a job still running is new again, with an *)
(* attempt more, until MAX_RECLAIMS; a cancelled one stays cancelled          *)
Dies ==
  /\ at # "idle" /\ Halts
  /\ job' = IF Cancelled THEN job
            ELSE [job EXCEPT ![run].at = IF @ = "running" /\ job[run].reclaims >= MaxReclaims
                                         THEN "error" ELSE "new",
                             ![run].attempts = @ + 1, ![run].reclaims = @ + 1]
  /\ Lets
  /\ UNCHANGED <<pipeline, line, table>>

Worker ==
  \/ \E j \in Jobs : Claims(j)
  \/ Checks \/ Reads \/ Retrieves \/ Faults \/ Closes
  \/ \E q \in Questions : Answers(q)
  \/ Stopping \/ Marks \/ Judges \/ Completes
Doors ==
  \E j \in Jobs : \/ AsksNew(j)
                  \/ AsksAgain(j) \/ Queues(j) \/ Cancels(j)

Next == Worker \/ Doors \/ Dies
Spec == Init /\ [][Next]_vars

-----------------------------------------------------------------------------
(* Whatever doors race, workers die and attempts are resumed, a question is *)
(* never answered twice under the run's name.                               *)
OneAnswerEach ==
  \A r, s \in rows : r.out = "answer" /\ s.out = "answer" /\ r.q = s.q => r = s

(* A run that reached its judge shows no question both as answered and as   *)
(* failed: whatever an earlier attempt left was settled or replaced.        *)
NothingLeftBehind ==
  at \in {"judging", "completing"} => ErrorsOf(rows, AnsweredOf(rows)) = {}

(* An error row goes only when a row of its question that stays says which  *)
(* rows it replaced; an answer never goes.                                  *)
ReplacedIsTold ==
  [][\A r \in rows : r.id \notin Ids(rows') =>
       /\ r.out = "error"
       /\ \E s \in rows' : s.q = r.q /\ s.resumed /\ r.id \in s.from]_vars

(* A run done without a cancel is judged: the judge's job is queued before  *)
(* the job is written done, and a failure to queue it is retried.           *)
DoneIsJudged == \A j \in Jobs : job[j].at = "done" => judges

(* Two jobs of one name may wait side by side only if both are resumes: of  *)
(* two fresh ones, each refuses itself over the other, so the answers of a  *)
(* run without resumes are all of one request.                              *)
OneFreshRun ==
  (\A j \in Jobs : ~job[j].resume) => \A r, s \in rows : r.opts = s.opts

(* What a comment says and the code does not keep.                          *)
(* evals/runner.py:526: "a resume is stopped again for the reasons it is    *)
(* resumed, and what it wrote by then still says so": once the run is done, *)
(* each row a resuming attempt wrote is marked.                             *)
Finished == /\ at = "idle"
            /\ \A j \in Jobs : job[j].at \notin Active
            /\ \E j \in Jobs : job[j].at = "done"
WhatItWroteSaysSo == Finished => \A r \in rows : r.again => r.resumed

(* use_cases/eval_runs.py:181 "a resumed run changes nothing".              *)
ResumedChangesNothing == \A r, s \in rows : r.opts = s.opts
(***************************************************************************)
(* A run of runner.py over its attempts, resumes and requests: one answer  *)
(* a question, nothing failed left behind a done job, the judge queued.    *)
(***************************************************************************)
RunHolds == TypeOK /\ OneAnswerEach /\ NothingLeftBehind /\ DoneIsJudged /\ OneFreshRun
=============================================================================
