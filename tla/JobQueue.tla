------------------------------ MODULE JobQueue ------------------------------
(***************************************************************************)
(* The jobs table of rag-lab, the worker process with one thread per lane, *)
(* and the clients that hold, resume and cancel jobs through the API.      *)
(* Sources: app/job_queue.py, app/worker.py, app/models/jobs.py and the    *)
(* ends of the handlers in app/evals/runner.py and                         *)
(* app/job_handlers/judging.py.                                            *)
(*                                                                         *)
(* A transaction that reads a row and writes it later without a lock is    *)
(* two steps here (CancelRead/CancelCommit, UpdateRead/UpdateCommit,       *)
(* ReclaimRead/ReclaimCommit); one that is a single statement or holds the *)
(* row's lock is one step (Claim, Pause, Resume).                          *)
(*                                                                         *)
(* Time is abstract: `due` says whether apply_since has passed, and a      *)
(* backoff ends at any moment.  Which claimable job of a lane goes first   *)
(* (the ORDER BY of the claim) is left open.                               *)
(***************************************************************************)
EXTENDS Integers, FiniteSets

CONSTANTS
  Jobs,         \* the ids of the table
  Lanes,        \* WORKER_QUEUES: one worker thread each
  LaneOf,       \* the lane of each job, a property of its type
  Runs,         \* the run names an experiment waits on
  RunOf,        \* options.run_name of each job, NoRun if it names none
  NoRun,
  EvalRuns,     \* the jobs of type eval_run
  Judges,       \* the jobs of type judge_answers
  Rejudged,     \* the runs of a rejudge: copied answers, a judge and no eval_run
  Queued,       \* the jobs an experiment is started with
  Clients,      \* API requests that may be cancelling at once
  Delays,       \* the delays a handler may ask for when it raises Deferred
  None,
  MaxAttempts, MaxDeferred, MaxReclaims,  \* the worker's three ceilings
  MaxCrashes,   \* bound of the model: how often the worker process dies
  MaxOutages    \* bound of the model: how often a write to the base raises

ASSUME BoundsAssumption ==
  /\ MaxAttempts \in Nat \ {0}
  /\ MaxDeferred \in Nat
  /\ MaxReclaims \in Nat
  /\ MaxCrashes \in Nat
  /\ MaxOutages \in Nat
  /\ Delays \subseteq Nat \ {0}

ASSUME TableAssumption ==
  /\ LaneOf \in [Jobs -> Lanes]
  /\ RunOf \in [Jobs -> Runs \cup {NoRun}]
  /\ NoRun \notin Runs
  /\ EvalRuns \subseteq Jobs
  /\ Judges \subseteq Jobs
  /\ EvalRuns \cap Judges = {}
  /\ None \notin Jobs
  /\ Rejudged \subseteq Runs
  (* the model has an id for the judge of every run *)
  /\ \A j \in EvalRuns : /\ RunOf[j] \in Runs \ Rejudged
                        /\ \E k \in Judges : RunOf[k] = RunOf[j]
  /\ EvalRuns \subseteq Queued
  /\ Queued \subseteq EvalRuns \cup {k \in Judges : RunOf[k] \in Rejudged}

(* an experiment waits on runs it was started with *)
ASSUME WaitAssumption == \A r \in Runs : \E j \in Queued : RunOf[j] = r

VARIABLES
  (* the jobs table *)
  status, options, due, why, spent,
  (* the experiment that waits on each run *)
  experiment,
  (* the worker process and its threads *)
  worker, pc, held, snap, verdict, sawCancel,
  (* requeue_stale, while the worker boots *)
  stale, died,
  (* the cancelling clients *)
  cpc, rows, unclaimed, untold,
  (* what an observer has seen *)
  announced, claims, crashes, outages

table   == <<status, options, due, why, spent>>
thread  == <<pc, held, snap, verdict, sawCancel>>
boot    == <<worker, stale, died>>
client  == <<cpc, rows, unclaimed, untold>>
faults  == <<crashes, outages>>
vars == <<table, experiment, thread, boot, client, announced, claims, faults>>

Active   == {"new", "paused", "running"}
Finished == {"done", "error", "cancelled"}
Statuses == {"absent"} \cup Active \cup Finished

(* FailKind; no_handler is an outcome of the same shape as refused *)
FailKinds == {"refused", "final", "exhausted", "deferred_out", "worker_died"}

(* how a thread means to leave its row; the last three fail the experiment *)
GivesBack  == {"retry", "defer"}
Strands    == {"final", "exhausted", "deferred_out"}
Verdicts   == {"none", "done", "refused"} \cup GivesBack \cup Strands

Options == [attempts: Nat, deferred: Nat, reclaims: Nat]
NoOptions == [attempts |-> 0, deferred |-> 0, reclaims |-> 0]

(* a thread owns its row from the claim to the last write of _update *)
Handling == {"handling", "judging"}   \* judging: a rejudge's experiment is revived
Owning == Handling \cup {"spending", "spent", "updating"}
ThreadStates == {"idle"} \cup Owning \cup {"failing", "announcing"}

ExperimentJobs == EvalRuns \cup Judges
Null == -1   \* jobs.tokens is NULL; k is the spend of k attempts, 0 is {}

TypeOK ==
  /\ status \in [Jobs -> Statuses]
  /\ options \in [Jobs -> Options]
  /\ due \in [Jobs -> BOOLEAN]
  /\ why \in [Jobs -> {"none"} \cup FailKinds]
  /\ spent \in [Jobs -> Int]
  /\ experiment \in [Runs -> {"running", "failed", "aggregated"}]
  /\ worker \in {"down", "reclaiming", "telling", "up"}
  /\ pc \in [Lanes -> ThreadStates]
  /\ held \in [Lanes -> Jobs \cup {None}]
  /\ snap \in [Lanes -> Options]
  /\ verdict \in [Lanes -> Verdicts]
  /\ sawCancel \in [Lanes -> BOOLEAN]
  /\ stale \in SUBSET Jobs
  /\ died \in SUBSET Jobs
  /\ cpc \in [Clients -> {"idle", "read", "telling"}]
  /\ rows \in [Clients -> SUBSET Jobs]
  /\ unclaimed \in [Clients -> SUBSET Jobs]
  /\ untold \in [Clients -> SUBSET Jobs]
  /\ announced \in [Jobs -> BOOLEAN]
  /\ claims \in [Jobs -> Nat]
  /\ crashes \in Nat
  /\ outages \in Nat

(* The first jobs of a running experiment are queued with it, every other    *)
(* row is still to be queued.  The worker process has not started.           *)
Init ==
  /\ status = [j \in Jobs |-> IF j \in Queued THEN "new" ELSE "absent"]
  /\ options = [j \in Jobs |-> NoOptions]
  /\ due = [j \in Jobs |-> TRUE]
  /\ why = [j \in Jobs |-> "none"]
  /\ spent = [j \in Jobs |-> Null]
  /\ experiment = [r \in Runs |-> "running"]
  /\ worker = "down"
  /\ pc = [l \in Lanes |-> "idle"]
  /\ held = [l \in Lanes |-> None]
  /\ snap = [l \in Lanes |-> NoOptions]
  /\ verdict = [l \in Lanes |-> "none"]
  /\ sawCancel = [l \in Lanes |-> FALSE]
  /\ stale = {}
  /\ died = {}
  /\ cpc = [c \in Clients |-> "idle"]
  /\ rows = [c \in Clients |-> {}]
  /\ unclaimed = [c \in Clients |-> {}]
  /\ untold = [c \in Clients |-> {}]
  /\ announced = [j \in Jobs |-> FALSE]
  /\ claims = [j \in Jobs |-> 0]
  /\ crashes = 0
  /\ outages = 0

-----------------------------------------------------------------------------
(* The doors: a job is queued, held and let go *)

Enqueue(j) ==
  /\ status[j] = "absent"
  /\ j \notin ExperimentJobs \/ RunOf[j] = NoRun
  /\ status' = [status EXCEPT ![j] = "new"]
  /\ UNCHANGED <<options, due, why, spent, experiment, thread, boot, client,
                 announced, claims, faults>>

(* apply_since passes *)
BackoffEnds(j) ==
  /\ ~due[j]
  /\ due' = [due EXCEPT ![j] = TRUE]
  /\ UNCHANGED <<status, options, why, spent, experiment, thread, boot, client,
                 announced, claims, faults>>

(* one guarded UPDATE: the row moves only from the status it is expected in *)
Move(j, was, to) ==
  /\ status[j] = was
  /\ status' = [status EXCEPT ![j] = to]
  /\ UNCHANGED <<options, due, why, spent, experiment, thread, boot, client,
                 announced, claims, faults>>

(* Mutants, here and below: the definition after one, with a plausible bug  *)
(* in it, that some property has to catch.                                  *)
PauseRunning(j) == Move(j, "new", "paused") \/ Move(j, "running", "paused")
ResumeAnything(j) == Move(j, "paused", "new") \/ Move(j, "cancelled", "new")

Pause(j) == Move(j, "new", "paused")
Resume(j) == Move(j, "paused", "new")

-----------------------------------------------------------------------------
(* cancel(ids): the rows and the judges of their runs are read, then written *)

TheirJudges(js) ==
  {k \in Judges : /\ status[k] \in Active
                  /\ RunOf[k] # NoRun
                  /\ \E j \in js \cap EvalRuns : RunOf[j] = RunOf[k]}

CancelRead(c, ids) ==
  LET asked == {j \in ids : status[j] \in Active}
      hit == asked \cup TheirJudges(asked)
      idle == {j \in hit : status[j] # "running"}
  IN /\ cpc[c] = "idle"
     /\ hit # {}
     /\ cpc' = [cpc EXCEPT ![c] = "read"]
     /\ rows' = [rows EXCEPT ![c] = hit]
     /\ unclaimed' = [unclaimed EXCEPT ![c] = idle]
     /\ untold' = [untold EXCEPT ![c] = {j \in idle : spent[j] = Null}]
     /\ UNCHANGED <<table, experiment, thread, boot, announced, claims, faults>>

StrandedBy(js) == {RunOf[j] : j \in js \cap ExperimentJobs} \cap Runs

(* fail_running_on: guarded on `running`, so an aggregated row is left alone *)
FailRunningOn(rs) ==
  experiment' = [r \in Runs |->
    IF r \in rs /\ experiment[r] = "running" THEN "failed" ELSE experiment[r]]

(* one commit; the experiments fail under a savepoint, so an update of them *)
(* that raises leaves the cancel standing                                   *)
CancelCommit(c) ==
  /\ cpc[c] = "read"
  /\ cpc' = [cpc EXCEPT ![c] = "telling"]
  /\ status' = [j \in Jobs |-> IF j \in rows[c] THEN "cancelled" ELSE status[j]]
  /\ spent' = [j \in Jobs |-> IF j \in untold[c] THEN 0 ELSE spent[j]]
  /\ \/ FailRunningOn(StrandedBy(rows[c])) /\ UNCHANGED outages
     \/ /\ outages < MaxOutages
        /\ outages' = outages + 1
        /\ UNCHANGED experiment
  /\ UNCHANGED <<options, due, why, thread, boot, rows, unclaimed, untold,
                 announced, claims, crashes>>

(* announce_finished: the notice is sent for the rows that read as finished *)
Announce(js) ==
  announced' = [j \in Jobs |-> announced[j] \/ (j \in js /\ status[j] \in Finished)]

CancelTells(c) ==
  /\ cpc[c] = "telling"
  /\ Announce(unclaimed[c])
  /\ cpc' = [cpc EXCEPT ![c] = "idle"]
  /\ rows' = [rows EXCEPT ![c] = {}]
  /\ unclaimed' = [unclaimed EXCEPT ![c] = {}]
  /\ untold' = [untold EXCEPT ![c] = {}]
  /\ UNCHANGED <<table, experiment, thread, boot, claims, faults>>

-----------------------------------------------------------------------------
(* The worker process: it boots, takes back what an earlier one left, dies *)

ReclaimNothing ==
  /\ worker = "down"
  /\ worker' = "reclaiming"
  /\ UNCHANGED <<table, experiment, thread, stale, died, client, announced, claims,
                 faults>>

ReclaimRead ==
  /\ worker = "down"
  /\ worker' = "reclaiming"
  /\ stale' = {j \in Jobs : status[j] = "running"}
  /\ UNCHANGED <<table, experiment, thread, died, client, announced, claims, faults>>

(* a restart is an attempt *)
Reclaimed(o) ==
  [attempts |-> o.attempts + 1, deferred |-> o.deferred, reclaims |-> o.reclaims + 1]

WornOut == {j \in stale : Reclaimed(options[j]).reclaims > MaxReclaims}

(* the statuses read by ReclaimRead are not read again *)
ReclaimCommit ==
  /\ worker = "reclaiming"
  /\ worker' = "telling"
  /\ options' = [j \in Jobs |->
       IF j \in stale THEN Reclaimed(options[j]) ELSE options[j]]
  /\ status' = [j \in Jobs |->
       IF j \in WornOut THEN "error" ELSE IF j \in stale THEN "new" ELSE status[j]]
  /\ why' = [j \in Jobs |-> IF j \in WornOut THEN "worker_died" ELSE why[j]]
  /\ died' = WornOut
  /\ stale' = {}
  /\ UNCHANGED <<due, spent, experiment, thread, client, announced, claims, faults>>

ReclaimTells ==
  /\ worker = "telling"
  /\ worker' = "up"
  /\ Announce(died)
  /\ died' = {}
  /\ UNCHANGED <<table, experiment, thread, stale, client, claims, faults>>

(* a crash, a kill or a restart: the threads' state is gone, the rows stay *)
Crash ==
  /\ worker # "down"
  /\ crashes < MaxCrashes
  /\ crashes' = crashes + 1
  /\ worker' = "down"
  /\ pc' = [l \in Lanes |-> "idle"]
  /\ held' = [l \in Lanes |-> None]
  /\ snap' = [l \in Lanes |-> NoOptions]
  /\ verdict' = [l \in Lanes |-> "none"]
  /\ sawCancel' = [l \in Lanes |-> FALSE]
  /\ stale' = {}
  /\ died' = {}
  /\ UNCHANGED <<table, experiment, client, announced, claims, outages>>

-----------------------------------------------------------------------------
(* A thread: claim, run the handler, record the spend, write the row *)

Claim(l, j) ==
  /\ worker = "up"
  /\ pc[l] = "idle"
  /\ LaneOf[j] = l
  /\ status[j] = "new"
  /\ due[j]
  /\ status' = [status EXCEPT ![j] = "running"]
  /\ claims' = [claims EXCEPT ![j] = @ + 1]
  /\ pc' = [pc EXCEPT ![l] = "handling"]
  /\ held' = [held EXCEPT ![l] = j]
  /\ snap' = [snap EXCEPT ![l] = options[j]]
  /\ UNCHANGED <<options, due, why, spent, experiment, verdict, sawCancel, boot,
                 client, announced, faults>>

EndsUncounted(l, v, opts) ==
  /\ pc[l] \in Handling
  /\ pc' = [pc EXCEPT ![l] = "spent"]
  /\ verdict' = [verdict EXCEPT ![l] = v]
  /\ snap' = [snap EXCEPT ![l] = opts]
  /\ UNCHANGED <<held, sawCancel>>

(* the thread's own variables when its handler has ended with verdict v *)
Ends(l, v, opts) ==
  /\ pc[l] \in Handling
  /\ pc' = [pc EXCEPT ![l] = "spending"]
  /\ verdict' = [verdict EXCEPT ![l] = v]
  /\ snap' = [snap EXCEPT ![l] = opts]
  /\ UNCHANGED <<held, sawCancel>>

(* no handler for the type, or options its spec refuses: nothing was called *)
HandlerRefused(l) ==
  /\ pc[l] = "handling"
  /\ Ends(l, "refused", snap[l])
  /\ UNCHANGED <<table, experiment, boot, client, announced, claims, faults>>

QueuesJudge(r) ==
  \E k \in Judges : /\ status[k] = "absent"
                    /\ RunOf[k] = r
                    /\ status' = [status EXCEPT ![k] = "new"]

NoJudgeLeft(r) == \A k \in Judges : RunOf[k] = r => status[k] # "absent"

(* the handler may have read the cancel between two rows and stopped early *)
SawCancel(l) == status[held[l]] = "cancelled"

(* The judge is queued unless the run saw its cancel; the ids of Judges    *)
(* bound how many a run may queue.                                         *)
EvalRunDone(l) ==
  /\ held[l] \in EvalRuns
  /\ Ends(l, "done", snap[l])
  /\ \/ QueuesJudge(RunOf[held[l]])
     \/ SawCancel(l) /\ UNCHANGED status
     \/ NoJudgeLeft(RunOf[held[l]]) /\ UNCHANGED status
  /\ UNCHANGED <<options, due, why, spent, experiment, boot, client, announced,
                 claims, faults>>

(* a judge's first write: a rejudge that failed runs again *)
Revive(l) ==
  LET r == RunOf[held[l]]
  IN /\ pc[l] = "handling"
     /\ held[l] \in Judges
     /\ r \in Rejudged
     /\ experiment' = [experiment EXCEPT ![r] = IF @ = "failed" THEN "running" ELSE @]
     /\ pc' = [pc EXCEPT ![l] = "judging"]
     /\ UNCHANGED <<table, held, snap, verdict, sawCancel, boot, client, announced,
                    claims, faults>>

(* every row judged: the report is recorded; rows owed: another sweep is   *)
(* queued, or none is left and the experiment fails                        *)
JudgeDone(l) ==
  LET r == RunOf[held[l]]
  IN /\ held[l] \in Judges
     /\ r \in Rejudged => pc[l] = "judging"
     /\ Ends(l, "done", snap[l])
     /\ \/ SawCancel(l) /\ UNCHANGED <<status, experiment>>
        \/ r = NoRun /\ UNCHANGED <<status, experiment>>
        \/ /\ r \in Runs
           /\ experiment' = [experiment EXCEPT ![r] = "aggregated"]
           /\ UNCHANGED status
        \/ QueuesJudge(r) /\ UNCHANGED experiment
        \/ FailRunningOn({r}) /\ UNCHANGED status
     /\ UNCHANGED <<options, due, why, spent, boot, client, announced, claims, faults>>

OtherDone(l) ==
  /\ held[l] \notin ExperimentJobs
  /\ Ends(l, "done", snap[l])
  /\ UNCHANGED <<table, experiment, boot, client, announced, claims, faults>>

(* what it waits for never arrived: the wait has a ceiling of its own *)
HandlerDefers(l, d) ==
  LET waited == snap[l].deferred + d
  IN /\ Ends(l, IF waited > MaxDeferred THEN "deferred_out" ELSE "defer",
             [snap[l] EXCEPT !.deferred = waited])
     /\ UNCHANGED <<table, experiment, boot, client, announced, claims, faults>>

TriedUncounted(o) == o
Tried(o) == [o EXCEPT !.attempts = @ + 1]
RetryOf(o) == IF Tried(o).attempts < MaxAttempts THEN "retry" ELSE "exhausted"

HandlerRaises(l) ==
  /\ \/ Ends(l, RetryOf(snap[l]), Tried(snap[l]))
     \/ Ends(l, "final", Tried(snap[l]))
  /\ UNCHANGED <<table, experiment, boot, client, announced, claims, faults>>

(* add_tokens: merged into what earlier attempts spent, on every way out *)
RecordSpend(l) ==
  LET j == held[l]
      had == IF spent[j] = Null THEN 0 ELSE spent[j]
  IN /\ pc[l] = "spending"
     /\ spent' = [spent EXCEPT ![j] = IF verdict[l] = "refused" THEN had ELSE had + 1]
     /\ pc' = [pc EXCEPT ![l] = "spent"]
     /\ UNCHANGED <<status, options, due, why, experiment, held, snap, verdict,
                    sawCancel, boot, client, announced, claims, faults>>

(* _update, the read: is the row cancelled by now? *)
UpdateRead(l) ==
  /\ pc[l] = "spent"
  /\ sawCancel' = [sawCancel EXCEPT ![l] = (status[held[l]] = "cancelled")]
  /\ pc' = [pc EXCEPT ![l] = "updating"]
  /\ UNCHANGED <<table, experiment, held, snap, verdict, boot, client, announced,
                 claims, faults>>

AfterUpdateOfARun(l) ==
  IF verdict[l] \in Strands /\ held[l] \in EvalRuns
  THEN "failing" ELSE "announcing"

AfterUpdate(l) ==
  IF verdict[l] \in Strands /\ held[l] \in ExperimentJobs /\ RunOf[held[l]] # NoRun
  THEN "failing" ELSE "announcing"

WriteRow(j, v, opts) ==
  /\ status' = [status EXCEPT ![j] =
       IF v \in GivesBack THEN "new" ELSE IF v = "done" THEN "done" ELSE "error"]
  /\ options' = IF v \in GivesBack THEN [options EXCEPT ![j] = opts] ELSE options
  /\ due' = IF v \in GivesBack THEN [due EXCEPT ![j] = FALSE] ELSE due
  /\ why' = IF v \in FailKinds THEN [why EXCEPT ![j] = v] ELSE why

UpdateOverCancel(l) ==
  /\ pc[l] = "updating"
  /\ WriteRow(held[l], verdict[l], snap[l])
  /\ pc' = [pc EXCEPT ![l] = AfterUpdate(l)]
  /\ UNCHANGED <<spent, experiment, held, snap, verdict, sawCancel, boot, client,
                 announced, claims, faults>>

(* _update, the write: complete, fail or reschedule *)
UpdateCommit(l) ==
  /\ pc[l] = "updating"
  /\ IF sawCancel[l]
     THEN UNCHANGED <<status, options, due, why>>
     ELSE WriteRow(held[l], verdict[l], snap[l])
  /\ pc' = [pc EXCEPT ![l] = AfterUpdate(l)]
  /\ UNCHANGED <<spent, experiment, held, snap, verdict, sawCancel, boot, client,
                 announced, claims, faults>>

Rest(l) ==
  /\ pc' = [pc EXCEPT ![l] = "idle"]
  /\ held' = [held EXCEPT ![l] = None]
  /\ snap' = [snap EXCEPT ![l] = NoOptions]
  /\ verdict' = [verdict EXCEPT ![l] = "none"]
  /\ sawCancel' = [sawCancel EXCEPT ![l] = FALSE]

(* The base refuses what the thread asks of it.  A spend, a failed         *)
(* experiment or a notice that cannot be written is logged and passed by.  *)
(* A complete that raises is caught as a failed attempt, and the spend is  *)
(* recorded again on that way out; any other write that raises leaves _run *)
(* with the row as it was, `running` and with no thread on it.             *)
BaseFails(l) ==
  /\ outages < MaxOutages
  /\ outages' = outages + 1
  /\ \/ /\ pc[l] = "spending" /\ verdict[l] # "refused"
        /\ pc' = [pc EXCEPT ![l] = "spent"]
        /\ UNCHANGED <<held, snap, verdict, sawCancel>>
     \/ /\ pc[l] \in {"spent", "updating"} /\ verdict[l] = "done"
        /\ pc' = [pc EXCEPT ![l] = "spending"]
        /\ verdict' = [verdict EXCEPT ![l] = RetryOf(snap[l])]
        /\ snap' = [snap EXCEPT ![l] = Tried(snap[l])]
        /\ UNCHANGED <<held, sawCancel>>
     \/ /\ \/ pc[l] = "spending" /\ verdict[l] = "refused"
           \/ pc[l] \in {"spent", "updating"} /\ verdict[l] # "done"
           \/ pc[l] = "failing"
        /\ pc' = [pc EXCEPT ![l] = "announcing"]
        /\ UNCHANGED <<held, snap, verdict, sawCancel>>
     \/ pc[l] = "announcing" /\ Rest(l)
  /\ UNCHANGED <<table, experiment, boot, client, announced, claims, crashes>>

(* _fail_the_experiment_waiting_on *)
FailExperiment(l) ==
  /\ pc[l] = "failing"
  /\ FailRunningOn({RunOf[held[l]]})
  /\ pc' = [pc EXCEPT ![l] = "announcing"]
  /\ UNCHANGED <<table, held, snap, verdict, sawCancel, boot, client, announced,
                 claims, faults>>

WorkerTells(l) ==
  /\ pc[l] = "announcing"
  /\ Announce({held[l]})
  /\ Rest(l)
  /\ UNCHANGED <<table, experiment, boot, client, claims, faults>>

-----------------------------------------------------------------------------

HandlerEnds(l) ==
  \/ HandlerRefused(l)
  \/ EvalRunDone(l)
  \/ JudgeDone(l)
  \/ OtherDone(l)
  \/ \E d \in Delays : HandlerDefers(l, d)
  \/ HandlerRaises(l)

ThreadStep(l) ==
  \/ Revive(l)
  \/ HandlerEnds(l)
  \/ RecordSpend(l)
  \/ UpdateRead(l)
  \/ UpdateCommit(l)
  \/ FailExperiment(l)
  \/ WorkerTells(l)

BootStep == ReclaimRead \/ ReclaimCommit \/ ReclaimTells

ClientStep(c) ==
  \/ \E ids \in SUBSET Jobs : CancelRead(c, ids)
  \/ CancelCommit(c)
  \/ CancelTells(c)

Next ==
  \/ \E j \in Jobs : Enqueue(j) \/ BackoffEnds(j) \/ Pause(j) \/ Resume(j)
  \/ \E c \in Clients : ClientStep(c)
  \/ BootStep
  \/ \E l \in Lanes : \/ \E j \in Jobs : Claim(l, j)
                      \/ ThreadStep(l)
                      \/ BaseFails(l)
  \/ Crash

Spec == Init /\ [][Next]_vars

(* The worker process is restarted by its supervisor and its loops never   *)
(* stop; each handler is assumed to return.  Clients owe nothing.          *)
FairSpec ==
  /\ Spec
  /\ WF_vars(BootStep)
  /\ \A l \in Lanes : /\ WF_vars(\E j \in Jobs : Claim(l, j))
                      /\ WF_vars(ThreadStep(l))
  /\ \A j \in Jobs : WF_vars(BackoffEnds(j))
  /\ \A c \in Clients : WF_vars(CancelCommit(c)) /\ WF_vars(CancelTells(c))

-----------------------------------------------------------------------------
(* Properties *)

Works(l, j) == pc[l] \in Owning /\ held[l] = j

(* A row on which nobody is about to write: no thread, no boot, no client. *)
Settled(j) ==
  /\ \A l \in Lanes : held[l] # j
  /\ j \notin stale \cup died
  /\ \A c \in Clients : j \notin rows[c]

(* While a thread has a job, from the claim to its last write, the row     *)
(* stays that thread's: nobody pauses, requeues or re-claims it, only a    *)
(* cancel may mark it.  What the single-statement pause and the            *)
(* requeue-before-the-loops order are for.                                 *)
HandlerOwnsRow ==
  \A l \in Lanes : pc[l] \in Owning =>
    /\ status[held[l]] \in {"running", "cancelled"}
    /\ held[l] \notin stale
    /\ \A m \in Lanes \ {l} : held[m] # held[l]

MaxTurns == MaxAttempts + MaxDeferred + MaxReclaims

(* No job is begun more often than its three ceilings allow together,      *)
(* whatever mix of failures, deferrals, crashes and cancels it meets: a    *)
(* job that kills its worker or waits for ever cannot hold its lane.       *)
ClaimsBounded == \A j \in Jobs : claims[j] <= MaxTurns

(* A retry, a deferral and a reclaim each write the options back whole     *)
(* from a copy; none of them may hand the job a used-up budget again.      *)
TriesOnlyGrow ==
  [][\A j \in Jobs : /\ options'[j].attempts >= options[j].attempts
                     /\ options'[j].deferred >= options[j].deferred
                     /\ options'[j].reclaims >= options[j].reclaims]_vars

(* A writer that read the row before the cancel and writes it after.       *)
Racing(j) ==
  \/ j \in stale
  \/ \E l \in Lanes : pc[l] = "updating" /\ held[l] = j /\ ~sawCancel[l]

(* A cancel stands for good, except against a write already under way.     *)
CancelStands ==
  [][\A j \in Jobs : status[j] = "cancelled" /\ ~Racing(j)
        => status'[j] = "cancelled"]_vars

(* The comment in _update without the exception: "a cancel is final".      *)
CancelIsFinal ==
  [][\A j \in Jobs : status[j] = "cancelled" => status'[j] = "cancelled"]_vars

(* A job its own worker ended (done or error) has had its notice sent by   *)
(* the time nobody is on it, unless a process or the base failed meanwhile.*)
EndedIsAnnounced ==
  \A j \in Jobs :
    /\ status[j] \in {"done", "error"}
    /\ Settled(j)
    /\ crashes + outages = 0
    => announced[j]

(* docs/api.md: the worker and the cancel announce each finished job.      *)
EachFinishedIsAnnounced ==
  \A j \in Jobs :
    status[j] \in Finished /\ Settled(j) /\ crashes + outages = 0 => announced[j]

(* A reader of a done job finds its spend recorded, by the worker or as {} *)
(* by a cancel, unless the base refused the record.                        *)
DoneHasSpend ==
  \A j \in Jobs : status[j] = "done" /\ outages = 0 => spent[j] # Null

(* The experiment of r waits and nothing that could end its wait is live.  *)
Stranded(r) ==
  LET its == {j \in ExperimentJobs : RunOf[j] = r}
  IN /\ experiment[r] = "running"
     /\ \A j \in its : status[j] \notin Active /\ Settled(j)

(* Every end of a run's jobs that the worker or a cancel reaches fails the *)
(* experiment waiting on it, but for options refused at the claim, which   *)
(* skip the call, and a rejudge revived after the cancel that failed it.   *)
(* A process or a base that fails between the two writes, or a row given   *)
(* up by requeue_stale, strands it as well.                                *)
StrandedOnlyWhereSkipped ==
  \A r \in Runs : Stranded(r) /\ crashes + outages = 0 =>
    \E j \in ExperimentJobs :
      /\ RunOf[j] = r
      /\ why[j] = "refused" \/ (r \in Rejudged /\ status[j] = "cancelled")

(* "Cancelling an arm does not leave its experiment running", a test says. *)
CancelEndsTheWait ==
  \A j \in ExperimentJobs :
    status[j] = "cancelled" /\ crashes + outages = 0 => ~Stranded(RunOf[j])

(* The comment over EXPERIMENT_JOBS and the one over mark_failed_for_run,  *)
(* for the death the queue itself declares: a run or a judge that          *)
(* requeue_stale gives up on leaves no experiment `running` for ever.      *)
DeathStrandsNothing ==
  \A j \in ExperimentJobs : why[j] = "worker_died" => ~Stranded(RunOf[j])

(* A waiting job is finished, or is being held, sooner or later.           *)
EveryJobSettles ==
  \A j \in Jobs : status[j] = "new" ~> status[j] \in Finished \cup {"paused"}

-----------------------------------------------------------------------------
(* Why they hold: the inductive invariant JobQueueProofs works with *)

(* who may write a row: a thread only of its own lane's rows, and only while *)
(* the process is up; a boot only of rows nobody has taken since             *)
Custody ==
  /\ \A l \in Lanes :
       /\ pc[l] # "idle" => worker = "up" /\ held[l] \in Jobs
       /\ held[l] # None => LaneOf[held[l]] = l
       /\ pc[l] \in Owning => status[held[l]] \in {"running", "cancelled"}
  /\ stale # {} => worker = "reclaiming"
  /\ \A j \in stale : status[j] \in {"running", "cancelled"}
  /\ \A c \in Clients : \A j \in rows[c] : status[j] # "absent"

(* the copy of the options a thread will write back is one step on from them *)
CopyIsFresh(l) ==
  LET o == options[held[l]]
      given(v) == pc[l] \notin Handling /\ verdict[l] = v
  IN /\ pc[l] \in Handling \/ verdict[l] = "done" => snap[l] = o
     /\ given("retry") => snap[l] = Tried(o) /\ snap[l].attempts < MaxAttempts
     /\ given("defer") => /\ snap[l] = [o EXCEPT !.deferred = snap[l].deferred]
                          /\ o.deferred < snap[l].deferred
                          /\ snap[l].deferred <= MaxDeferred

(* each claim of a job is paid for, at the latest by the write that gives   *)
(* the row back, and what can be paid has a ceiling                         *)
Paid(j) ==
  LET o == options[j]
  IN /\ o.attempts < MaxAttempts + o.reclaims
     /\ o.deferred <= MaxDeferred
     /\ o.reclaims <= MaxReclaims + 1
     /\ claims[j] <= o.attempts + o.deferred + 1
     /\ status[j] \in {"absent", "new", "paused"} =>
          claims[j] <= o.attempts + o.deferred
     /\ o.reclaims > MaxReclaims =>
          status[j] \in Finished /\ claims[j] <= o.attempts + o.deferred

Budget ==
  /\ \A j \in Jobs : Paid(j)
  /\ \A l \in Lanes : pc[l] \in Owning =>
       CopyIsFresh(l) /\ options[held[l]].reclaims <= MaxReclaims
  /\ \A j \in stale : options[j].reclaims <= MaxReclaims

IInv == TypeOK /\ Custody /\ Budget

-----------------------------------------------------------------------------
(* The promise, and the rows read as it *)

Phase(j) ==
  IF status[j] = "absent" THEN "absent"
  ELSE IF status[j] = "running" \/ j \in stale \/ (\E l \in Lanes : Works(l, j))
  THEN "taken"
  ELSE IF status[j] = "new" THEN "waiting"
  ELSE IF status[j] = "paused" THEN "held"
  ELSE "ended"

Lifecycle == INSTANCE JobLifecycle
  WITH phase <- [j \in Jobs |-> Phase(j)], turns <- claims

(* The table, its worker and its clients keep the life cycle: nothing that *)
(* ended is queued again by a late write, and turns stay within budget.    *)
KeepsLifecycle == Lifecycle!Spec
(* An ended job is announced with its spend, and fails the experiment that waits on it. *)
EndIsTold == EndedIsAnnounced /\ DoneHasSpend /\ StrandedOnlyWhereSkipped
=============================================================================
