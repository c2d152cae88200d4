# rag-lab: a verification project

TLA+ models of rag-lab, the TLC configurations that check them on small
instances, and TLAPS proofs about them for every size. The paths below are
relative to the repository's root.

    tlc -workers 2 -config JobQueue_queue.cfg MCJobQueue    # one run of the table below
    tlapm JobQueueProofs.tla                                # one module of proofs

`PROJECT.json` lists the runs, which lines of the source each definition
stands for, a mutant of the code for every property, the findings, the
hazards and the theorems.

## The system

rag-lab is a laboratory for retrieval-augmented answering. A FastAPI process
(`app/main.py`, `app/api/v1`, `app/mcp_ops.py`) takes requests and queues
jobs; one worker process (`app/worker.py`) runs them, one thread per lane
(`default` owns the GPU card and runs evaluations, judges, onboardings,
indexes, conversions and comparisons; `io` pulls and deletes models, checks
integrations and generates questions); both share a PostgreSQL base and the
model servers (ollama, vLLM, cloud brokers, converters). Nearly everything
that changes the base for long is a job.

| component | state it keeps | operations | what makes it hard | what makes it correct |
|---|---|---|---|---|
| job queue (`app/job_queue.py`) | the `jobs` table: status, options (attempts, deferred seconds, reclaims), tokens, error, `apply_since` | enqueue, claim, pause, resume, cancel, complete, fail, reschedule, reclaim, announce | API threads, worker threads and a booting worker write the same rows; some writes are one statement, some read first and write later | a row is its thread's from the claim to the last write; a cancel stands; tries are bounded and never handed out again; an ended job is announced; nothing waits for ever |
| worker (`app/worker.py`) | one thread per lane, the job it has, the options it claimed with | boot, claim, run the handler, every way out of `_run` | the process dies anywhere; the base refuses any write; a retry, a deferral and a reclaim write the options back from a copy | as above, and the spend is written before the status |
| experiments (`app/use_cases/experiment*.py`) | an experiment's status, its runs, its report | create, start, aggregate, add arms, revive, fail, conclude | aggregated from the judge's thread while the API adds arms or cancels | a report covers every arm; a dead arm does not leave it `running` |
| judging (`app/job_handlers/judging.py`, `app/passes.py`) | metrics, debts and attempts of every answer | judge a row by axes on several threads, count failures, sweep again | threads merge into one row; the seat or the card may move under a pass | each axis is judged or given up, never for ever; a verdict stands; a debt has a pass coming |
| eval runs (`app/evals/runner.py`, `app/job_handlers/evaluation.py`) | the rows of a run | answer each question, resume a stopped run, queue the judge | a crash leaves part of the rows, some of them errors | each question ends with one row, and an error that goes is named by its successor |
| guest judges (`app/job_handlers/judging.py`, `app/evals/guest_*.py`) | the guest's numbers | draw, score, sweep | a retry draws again | a row costs a bounded number of calls |
| rejudge copies (`app/use_cases/rejudge.py`) | copied runs | copy, delete, pair | two starts of the same names; a start that fails after the copy | no orphaned copy; a verdict says what gave it |
| GPU card (`app/engines/card.py`, `app/job_handlers/card.py`, `app/use_cases/card_wait.py`) | which engine holds the card (read from the servers), calls in flight, calls waiting | take for a call, hand over, sleep, wake, wait for the card | calls of many threads share the card; a handover is many calls to several servers, each of which may fail | the card is never taken under a call; the engine waited for gets its turn; a call has the card to itself |
| model calls (`app/llm.py`, `app/limits.py`) | tallies of tokens, the pace of a broker | chat, embed, score | threads, throttles, a stand that fails under a row | every answer is counted; a refusal is the row's or the stand's |
| weights (`app/engines/vllm.py`, `ollama.py`) | the host's cache, windowed tags | pull, delete, tag | a server downloads beside a pull | ready is said of whole weights |
| source intake (`app/use_cases/source_intake.py`, `source_gate.py`) | folders, declaration and knobs of a source | declare, take, accept, remove, turn a knob | doors look and commit in steps, beside the lane | no folder removed that a row names; a cut is of one run |
| onboarding (`app/job_handlers/onboard.py`) | `record.json` of the chain | read the next piece, resume | a crash between a piece and its record | no finished piece is lost |
| conversion (`app/job_handlers/convert.py`, `converters/supervisor.py`) | kept readings, parts; the converter's child | start, watch, let go | two stops at once; a child that neither answers nor dies | a kept piece is of its configuration; free means an empty card |
| markdown rules (`app/use_cases/route.py`, `reading.py`, `piece_join.py`, `heading_rules.py`) | none: pure | route, join, repair | edges of pages, pieces and levels | no text is lost or put under another section |
| index and search (`app/ingest.py`, `app/use_cases/index.py`, `app/corpus_search.py`) | chunks and vectors | cut, embed, fill, dedup, search | the role moves under a cut | a search meets vectors of its own model |
| answering agents (`app/orchestrators/graph.py`, `app/use_cases/agent.py`) | one answer's steps | hop, grade, admit, answer, replay | the model decides | hops are bounded; a row replays to itself |
| evaluation statistics (`app/evals`, `app/use_cases/retrieval_compare.py`) | records of comparisons, residencies | measure arms, read an instrument | the stand moves between two arms | an arm is of its own settings; one residency is one load |
| preregistration (`app/use_cases/prereg.py`) | promises | promise, close | two closes at once | a promise is closed once and on its own runs |
| MCP integrations (`app/use_cases/mcp_integration.py`) | server, tools, status | probe, put, delete | a probe answers late | what the row says the server it names told |
| model registry (`app/models/registry.py`, `app/job_handlers/model_ops.py`, `app/use_cases/model_acceptance.py`) | models, roles, seats | pull, accept, seat, remove | a seat moved beside a running pass; a pull cut off | ready means held; a later choice stands |
| converter's gold (`scripts/converter_gold.py`) | ledgers and folders of a draw | fetch, draw, cut, gold, page, score | commands in any order, for some documents only | a score is on the section its gold is of |

The interactions that matter: the doors **queue** jobs and **cancel** them;
the worker **claims** them and writes how they ended; the end of an
`eval_run` **queues** its judge; the end of a judge **aggregates** or fails
the experiment; a cancel **fails** it from the API's side; every handler that
calls a local model **takes the card**; an onboarding **fills a folder** that a
door accepts and an index cuts; the queue **announces** ended jobs on a
PostgreSQL channel.

`PROJECT.json` lists under `hazards` what in this code is hard to test, each
at its line, with the properties that would catch it.

## The modules

| module | models |
|---|---|
| `JobQueue`, abstract: `JobLifecycle` | the jobs table, the worker and its lanes, the clients that hold, resume and cancel; what is promised about one job |
| `Turns` | the card's lane as a line: whose turn it is, how age brings a job forward, the live judge's batch |
| `Card`, abstract: `CardGate` | the calls of the worker's threads, handovers, doors, the bootstrap; what the gate promises |
| `Experiment` | experiments from creation to conclusion over the lane that answers, judges and measures the arms |
| `Rejudges` | what a rejudge's copies carry and what its report pairs |
| `EvalRun`, `Judging`, `Guests` | one named run, the passes over its rows and over live answers, the guest's pass |
| `Residency`, `Compare` | which load of a judge scored a row; a grid of retrieval arms |
| `Agent` | a question through the answering graph and its replay |
| `Onboard`, `Intake`, `Knobs`, `Supervisor` | how a raw source is read, accepted, declared; the converter's children |
| `Convert`, `Markup`, `Cuts`, `Versions`, `Copies` | how a file becomes pieces, markdown, chunks and one copy of each text |
| `Vectors` | whose vectors a search meets |
| `Registry`, `Seats`, `Weights`, `Integrations`, `Prereg`, `Calls`, `Gold` | the components of those names |
| `MCJobQueue`, `MCCard`, `MCLane`, `MCJudging`, `MCSources`, `MCStand`, `MCWork`, `MCAgent` | the instances TLC checks |
| `JobQueueProofs`, `CardProofs`, `StandProofs`, `ExperimentProofs`, `PassesProofs`, `SourcesProofs`, `WorkProofs`, `MeasuresProofs` | the theorems |

The parts of an `MC` module share no variable: a behavior is of one part, named by
`which`, and the others rest in their initial states. Parts that do interact are
one module (`JobQueue` has worker, doors and experiments; `Experiment` has doors,
jobs and aggregation; `Card` has threads, doors and bootstrap) or an abstraction
of the other's effect inside it: `Judging` tells an experiment it failed by one
flag, `Card` takes a job from the queue in one step (`JobStarts` is the `Claim` of
`JobQueue`, `JobEnds` the write that ends the row).

### How the grain of an action is chosen

One statement of SQL, or a read that locks the row, is one step. Where the code
reads and writes later without a lock the two are two steps with anything in
between: `_update` (`UpdateRead`, `UpdateCommit`), `cancel`, `requeue_stale`, the
doors of `Intake`, a probe of `Integrations`, a close of `Prereg`, a batch of
`Vectors`, the fields of `Knobs` (one request past its look, the others and the jobs
going on beside it), the sweep of blobs in `Weights` (the age, then the unlink). A pass
of `Residency` is refused a second judge, waits for the card and reads the seat in three
steps. A request to a server is a step of its own with each failure it may meet, and in
`Calls` its reply is sent, and spent, before it is read. A row's work in a pass is a step that reads and a step that merges
(`Reads`, `Merges` of `Judging`). A death of the process may come between any two
steps and forgets every local variable.

`JobQueue`: `options` keeps the three counters the code keeps in the JSON of that
name. Each lane is a thread with a place (`pc`), the row it `held`s, the copy of
the options it claimed with (`snap`), the `verdict` it is about to write, and
whether `_update` saw a cancel. `_run` has one action per way out, then
`RecordSpend`, the update, `FailExperiment` where the code calls it, and
`WorkerTells`.

`Card`: nobody keeps a table of who has the card: `on_card` reads the servers, so
the state is the servers; `OnCard` is what `on_card` returns (a silence may hold
the card, a refused connection does not). A thread goes through `take_for_call`:
`WantsCall`, `Queues` or `Enters`, the handover `Asks`, `Faces`, `Releases` (once
per holder), `Takes`, `Checks`, then `calling` and `Ends`.

`Experiment`: a door reads, checks and inserts in the steps the code's awaits
make; `door` is a request on its way, `line` the lane's jobs, `work` the one in
hand. `copies` says who copied a run.

`EvalRun`, `Judging`, `Guests`: one job is in hand (`run`) at a place (`at`); the
handler's local variables are state and are forgotten at each end.

## The runs

| run | instance | asks | result |
|---|---|---|---|
| `queue` | a run, its judge and a pull; two attempts, a restart, a death or a refused write, one client; as a second part two arms of a rejudge over two questions | rows are their thread's, cancels stand, tries are bounded, ends are told, the life cycle is kept; a verdict of a rejudge is its own arm's | holds |
| `card_calls` | three threads, ollama, a vLLM, a converter, a door, one failing server, one death | the gate lets one engine in, counts are exact, no call is cut, a call has the card to itself, `CardGate` is implemented | holds |
| `lane` | two engines with the bootstrap; a line of three jobs with live answers; a rejudge's judge and its sweep over a cancel and a death; all under fairness | the engine waited for gets its turn, every live answer is judged, every job settles | holds |
| `experiment_arms` | two experiments of any kinds, three names, three requests, one sweep, one retry, one cut request | reports cover their arms, copies have an owner, an experiment is left running only after a cancel or a job given up | holds |
| `judging_passes` | two rows of a run and two live answers; a guest over three rows; a run of two questions with three requests | verdicts, debts, live batches, control samples; the guest's calls; the run's answers | holds |
| `sources` | two pieces and routes; an intake of two runs; two knobs; two stoppers | the folder, its row, its cut and its declaration speak of one run; stops keep pieces and end | holds |
| `stand` | two engines, doors, probers, closers, embedders; one fault | rows and weights, seats, integrations, promises, vectors | holds |
| `works` | three rows on two threads; two shards; files of up to four pages or five lines | calls are counted, pulls are whole, no text is lost | holds |
| `agent_replay` | two hops, two tools, every policy and fault; a grid of arms; two judged runs; two documents of the gold | a turn is bounded and its row replays; measures are of what they name | holds |
| `vectors_geometry` | | `OneGeometry` | violated |
| `residency_conversion` | | `ConversionEndsAResidency` | violated |
| `knob_rounds` | | `RoundsAreBounded` | violated |

Several properties are conjunctions of named parts, one question each:

| property | its parts |
|---|---|
| `JobQueue!EndIsTold` | `EndedIsAnnounced`, `DoneHasSpend`, `StrandedOnlyWhereSkipped` |
| `MCJobQueue!RecordsHold` | `Rejudges!RejudgesHold`: an arm's verdicts are by what it names, its report pairs one text |
| `Experiment!SeriesHolds` | `TypeOK`, `AggregatedCoversItsArms`, `NoOrphanedCopies`, `NoNameTwice`, `StrandedOnlyIfHurt` |
| `Experiment!StepsKeepTheSeries` | `KeepsTransitions`, `RowsOfArmsStay` |
| `Judging!VerdictsHold` | `TypeOK`, `ColumnsAgree`, `DebtIsFollowed`, `LiveIsWalked`, `ControlInSample` |
| `MCJudging!GuestsHold` | `WalksItsBudget`, `CallsBounded` and the types of `Guests` |
| `MCJudging!RunHolds` | `OneAnswerEach`, `NothingLeftBehind`, `DoneIsJudged`, `OneFreshRun` and the types of `EvalRun` |
| `MCSources!FoldersHold` | `ReportIsOfItsFiles` (`Onboard`), `CutIsWhole`, `AcceptedOnDisk`, `CurrentUnlessRaced` (`Intake`), `KnobsHold`, the types of the four |
| `MCSources!StopsKeepPieces` | `StopsLoseNothing`, `CancelBeginsNothing` |
| `MCStand!RegistryHolds` | `ReadyIsHeld`, `NoOrphanWeights`, `AvailableIsComing` |
| `MCStand!IntegrationsHold` | `StatusIsOfItsServer`, `ToolsAreOfTheUrl` |
| `MCStand!VectorsHold` | `LabelsTellTheMaker`, `SearchMeetsItsOwn` |
| `MCStand!ChoicesStand` | `SeatedStays` (`Registry`), `LaterChoiceStands`, `AskedIsSeated` (`Seats`), `DisabledStays` (`Integrations`) |
| `MCStand!PromiseStands` | `SettledStands`, `ClosedOnItsOwn`, `ClearedWhole` |
| `MCStand!CutsKeepTheirModel` | `UnmovedCutIsWhole`, `ReusedStaysPure`, `FillLeavesNone` |
| `MCWork!CallsHold` | `AnswersAreCounted`, `RefusalIsTheRuns` |
| `MCWork!TextIsKept` | `PagesHold`, `JoinsHold`, `HeadingsHold`, `CutsHold`, `VersionsHold`, `Copies!GapIsTold` |
| `MCWork!FilesAreKept` | `ReadyByIndex`, `SiblingKept` (`Weights`), `KeptStays` (`Convert`), `DropLosesNoText`, `OneCopy` (`Copies`) |
| `Agent!TurnHolds` | `NeverRunsAway`, `OutsideNeedsEmptyCorpus`, `GradedOutIsNeverRead`, `EveryCallIsAnswered`, `SpansAddressTheRow`, `FailedIsNotAnswered` |
| `MCAgent!MeasuresHold` | `CompareHolds`, `ResidencyHolds`, `GoldHolds` |

### The bounds, and why they are enough

* A run and its judge are the smallest instance in which one job queues another
  and two share an experiment; the pull is there for the other kind of job and
  is followed alone (`OneFault`). Two attempts let a retry be followed by a last
  one, one reclaim reaches the row `requeue_stale` gives up on.
* One client that cancels any set of jobs races every step. A second could only
  race the first, and both write the same status.
* Three threads on three engines let two wait for different engines while the
  third is out. `BootIsAlone` has the bootstrap pass while nobody calls; beside
  callers it is in `lane`. `Threads` is a symmetry set of `card_calls`, which
  checks no liveness and whose threads all work for one lane.
* Two experiments and three names let names clash, and `Requests` has a third
  door for the arms added later. A name is either copied or swept there; what
  happens to a name that is both is told below.
* `Judging` has a sampled row and one outside the sample, a doubled one, and two
  live rows for a batch that is joined and one that is missed; one halt (death,
  fault, exception or cancel) at any step. `EvalRun` has two halts or three
  requests (`HaltsOrRequests`): a third request meets a run that halted once.
* `stand` has two of everything that races. `MaxHalts` is 1: a second fault finds
  the states the first one leaves, which the theorems take for any number.
* Text properties are checked over all inputs of the stated length: four pages,
  five lines, three rows of an outline, where the rules look at most at two
  neighbours.
* Two runs of up to two verdicts each, up to three jobs of any kind, and one move amiss (of the
  seat, of the card, or a job put back): a verdict of a run's second judge needs a first one
  there, and an inherited residency a load between.
* `Onboard` edits the origin twice, the fewest that bring a file back to what it was.
  `Weights` has two faults, a pull's and a server's. `Calls` turns its server once; what
  refuses a single call comes at any time besides.
* `Markup` has headings to the third level, the fewest where a section's own heading, its
  sub-heading and one that would reach a chapter's level differ; levels past six are
  text there as in `_HEADING`.
* The gold has one book and one site, one newer release of each, one request for
  one document only or cut off, at a fetch, between two sections of a cut, or between a
  site's files and its ledger.
* Runs over systems that may stop (all jobs ended, no request to come) do not
  check for deadlock; that of the card does.

### Fairness

`lane` assumes of the card each thread's steps at the gate, in the handover and at
the end of a call: every wait in the handover has a ceiling (`WAIT_CEILING`, the
requests' timeouts), and a call has its client's. No server owes a recovery, no job
owes a call. Under this **an engine** gets its turn; **a thread** need not, since a
`threading.Condition` wakes everybody and promises no order. Of the queue: boot, the
lane's loop and each handler go on (`run_once` is called for ever), a backoff ends
because `apply_since` is a moment, a request that has read goes on to its commit.
Nothing is assumed of new requests, deaths or faults. Weak fairness is enough: the
lane is free while it waits.

`experiment_arms` assumes of the worker's steps and of the requests already begun
the same. `StopEnds` (`sources`) assumes that the supervisor's threads go on and
that a killed child exits unless it is stuck.

## Where the code does not keep what is said of it

Three runs show it:

1. `vectors_geometry`: the check before the write asks only a cut that reused
   vectors. One that reused nothing and whose role moved between two batches is
   committed with vectors of two models (`use_cases/index.py:75`).
2. `residency_conversion`: a conversion takes the card from the ollama judge, but
   `LOADS` says it loads nothing; a pass after it inherits the residency before
   (`job_specs.py:490`).
3. `knob_rounds`: a raw source's folder is named by the hash of its settings files
   alone, so runs met by route knobs share one folder and count as one round
   (`use_cases/source_intake.py:163`).

Four modules have properties that hold but for a window of the code; the window is
in the model, and what a step in it reached is left out of the property by a ghost:

* `Residency!RunIsOneEngine` is of the verdicts whose judge is of the engine the refusal
  of a second judge saw (`judging.py:121`). The seat may move while the pass waits for
  the card (`:123`), before it reads the seat (`:151`), and between a row's check and
  its stamp; and a pass that names its rows is not refused at all (`:120`).
* `Knobs!ReadUnderOne` and `CutAsGuessed` leave out (`met`) the jobs queued between a
  door's look (`source_intake.py:193`, `:148`) and its commit (`api/v1/source.py:155`,
  `:133`): what such a job reads may be of two declarations.
* `Onboard!ReportIsOfItsFiles` leaves out (`torn`) a piece whose text an attempt wrote
  before it died or its record was refused (`onboard.py:114`, `:408`): when the file
  then goes back to the version of the row, the row vouches for the other text.
* `Weights!SiblingKept` leaves out a blob a server takes up between the look at its age
  and the unlink (`vllm.py:422`, `:426`).

`Calls!RefusalIsTheRuns` is of the refusals `llm.py:96` calls the run's: a connection
error, a timeout, a 404 or any other 4xx is a row's failure there, on a cloud too, and
`score_pairs` reads any refusal as the row's.

The modules state further ones, each with its comment, that no run of the project
checks: put the name under INVARIANT (or PROPERTY) of the run that has the module
as a part and TLC finds the trace.

| definition | what happens |
|---|---|
| `JobQueue!CancelIsFinal` (`job_queue.py:461`) | `_update` reads with no lock; a cancel committed before its write is overwritten. `CancelStands` is the form that holds |
| `JobQueue!EachFinishedIsAnnounced` (`docs/api.md:156`) | a client that read the job as running leaves the notice to the worker; a retry puts the row back into the line first, and nobody announces it |
| `JobQueue!DeathStrandsNothing` (`job_queue.py:323`) | `requeue_stale` gives a row up without failing the experiment that waits on it |
| `JobQueue!CancelEndsTheWait` (`tests/evals/test_experiment.py:449`) | a cancel between the claim of a rejudge's judge and `revive_for_run` fails the experiment, the judge revives it and skips the aggregation |
| `Card!NoSleepUnderAPass` (`bootstrap.py:46`) | the bootstrap looks at the lane once; a job claimed after that look has its vLLM put to sleep under it |
| `Card!NeverSleptMidRequest` with `LaneOf <- MCTwoLanes` (`card.py:96`) | `take` asks neither `_calls` nor `_in_flight`; a `generate_questions` whose writer sits on a local engine is cut by a job of the other lane |
| `EvalRun!WhatItWroteSaysSo` (`runner.py:528`), `ResumedChangesNothing` (`eval_runs.py:181`) | a mark that fails on the way out is logged; a resume answers under its own request's options |
| `Judging!SkippedIsDropped` (`judging.py:628`), `CancelQueuesNothing` (`:181`) | a full pass judges a skipped control axis again; a cancel seen after the sweep's check queues one all the same |
| `Guests!BudgetHolds` (`judging.py:263`, `:266`) | a retry draws again and puts other rows to the guest |
| `Rejudges!SettledIsItsOwn` (`rejudge.py:43`, `:130`, `judging.py:702`), `ControlReproduces` (`rejudge.py:225`) | what the source's judge settled is copied with the row and stays where the arm's judge gives no faithfulness; the judge is looked up at the door and again when a row is judged, so a control may be another judge's |
| `Residency!OneResidencyOneModel` (`compare.py:425`) | a pass of another model on the same ollama inherits the id, and compare never compares the models |
| `Compare!CountsAreOfTheCorpus` (`:461`) | the corpus is counted at the last arm, and a source may have been off and on again between |
| `Intake!ReplacedReadsMoved` (`source_intake.py:79`), `Onboard!ReadUnderItsRoute` (`onboard.py:350`, `:271`), `Supervisor!FreeMeansFree` (`supervisor.py:1`) | a variant cut from a run that was replaced may read as current; a piece read under another route is kept; free is told beside a child that lives |
| `Agent!ReasonReplays` | a branch decided by an answer the row does not hold is taken otherwise by a replay |
| `Vectors!BootSkipsNoForeign` (`bootstrap.py:330`), `Registry!RowStays` (`model_ops.py:119`), `Seats!LaterChoiceNeverUndone` (`model_acceptance.py:143`), `SecondAskIsAnswered` (`model_role.py:71`) | a running fill whose list is of the model before answers the boot; a row made again after a delete's door is deleted by the job of the row before it; a choice away and back again is undone by a late probe; a second ask is answered by a job that refuses for a choice made before it |
| `Integrations!ToolsNeverOfAnother` (`api/v1/mcp_integration.py:203`), `OnlyDisabledIsDeleted` (`:283`), `Prereg!ClosesOnce` (`prereg.py:359`), `LookIsKept` (`:347`) | a probe, an update, a delete or a close writes over a row that moved since it was read |
| `Weights!ReadyIsWhole` (`vllm.py:427`), `Convert!TargetIsOfRecord`, `PiecesOfOneInput`, `CacheIsOfItsKey` (`convert.py:254`, `:112`, `:230`, `converting.py:175`) | without an index a cut file passes for whole; a record keeps the first input's hash for every later one |
| `Cuts!LeftOutIsNamed` (`base.py:242`), `NoForeignSubheading` (`ingest.py:365`), `Markup!NoneSwallowed` (`piece_join.py:23`), `RelevelSparesCode` (`heading_rules.py:112`), `Copies!TextIsSomewhere`, `KeepersStayNamed` (`dedup.py:53`, `:79`) | a tiny section is left out with the matter it was joined to; text stands under a sliver's heading; a block of `~~~` is closed by another fence, and a comment in it becomes a heading; a keeper is cut anew without a text its loser no longer holds, and a later drop forgets who kept it |
| `Gold!RevisionIsOfItsGold` (`converter_gold.py:1241`, `:935`), `SiteIsOfItsRelease` (`:1305`), `NeverStumbles` (`:1597`) | a fetch and a gold after a page row rewrite the gold and not the row; pages are saved once; a gold of a name no draw has any more is looked up in the draw |

Also seen while reading, and kept in the models as the code does it: a conclusion
of an experiment is written by id over `running` and `failed`; a cancel of a waiting
`compare_retrieval` strands its experiment; a request cut at
`await to_thread(copy_runs)` leaves copies nobody owns (they stay until asked
again); two doors of `Knobs` lose one of two writes of `declaration` or `raw`;
`score_pairs` reads any refusal as the row's; a row insert the base refuses is logged
and its answer counted; `cut --only` after a new draw leaves the old draw's cuts
under the same names.

## What is proved

For every value of the constants that satisfies the assumptions the modules name
(`ASSUME`), TLAPS checks the theorems `PROJECT.json` lists. Where a run checks the
property too, the run is the small instance of the theorem.

**`JobQueueProofs`** (any jobs, lanes, clients, runs and ceilings): `Inductive`,
`TypeCorrect`, `Ownership`, `ClaimsAreBounded`, `CancelsStand`, `TriesGrow`;
`Implements`: the queue implements `JobLifecycle` under the mapping of `Phase`;
`EndInductive`, `EndsAreHeard`, `StrandedWhereSkipped`; and over `MCJobQueue`, for any
questions, arms and faults, `RecordsAreOfTheirArms`.
`ClaimsBounded` is not inductive: claims are counted when a job begins, the counters
that bound them when it is given back, and between the two the thread has the only
up-to-date copy. `Budget` therefore says that every claim is paid for by the
counters or by the copy its thread will write, and that copy is fresh only because
nobody else writes the row meanwhile (`Custody`). `IInv == TypeOK /\ Custody /\
Budget`, one lemma per action and part. `Implements` needs one fact per action about
the phases it may move. For the end of a job `EndInv` adds that the spend is written
before the status (`SpendIsFirst`) and, where no process and no base failed, that
what a thread or a client has seen of a row is still so when it writes (`CalmInv`:
`EndsAreTold`, `RefusedIsOver`, `SeenCancelStays`, `CancelFails`, `Waited`).
`RecordsAreOfTheirArms` needs to know, of a record in the making, which verdicts came
with the copy and which an arm's judge gave since, and that the source was not answered
anew between the two copies a report pairs.

**`CardProofs`** (any engines, threads, lanes, doors, bounds): `Inductive`,
`TypeCorrect`, `CountsHold`, `GateIsExclusive`, `WaitIsHonest`, `ImplementsGate`,
and, with every calling thread in the card's lane and no second bootstrap,
`NeverSlept` and `CallsAreAlone`; over `MCLane`, for any names of jobs and counts,
`LaneStrandsWhereSkipped`. `OneEngineAtATime` needs that the count is exact
and that from the moment a thread passes the gate until it is counted no other
engine has a call out: `Turns` says both, and that no wait is left while the gate is
held (which `ImplementsGate` needs), with `Custody` for who holds which lock at which
place. `CallsAreAlone` follows what a handover has yet to release (`Cleared`): while
no server failed, that is all that shares the card. Without the two hypotheses the
properties are false: see `NoSleepUnderAPass` and `MCTwoLanes` above. `card_calls`
and `lane` check the gate beside a bootstrap; two lanes are covered by the proofs of
the gate alone.

**`StandProofs`** (over `MCStand`, any engines, models, askers, servers, closers,
texts and bounds): `StandInductive`, `RegistryStands`, `IntegrationsStand`,
`VectorsStand`, `ChoicesAreKept`, `PromisesAreKept`, `CutsAreKept`. Each part has an
inductive invariant kept by its own steps and framed by the others'. The
registry's says that one job runs in the io lane, that weights under no row have an
end coming (a pull, a delete or a boot that will see them), and that only a delete
under no row removes weights; the others say what a probe, a close, a batch or a
search that is under way has read, and how the row may have moved since.

**`ExperimentProofs`** (any experiments, names, requests, kinds and bounds):
`SeriesInductive`, `SeriesSteps`, and `SeriesStands` for disjoint `Copied` and
`Swept`. `SeriesInv` says who holds which row, whose copies are whose, what waits in
line and what the worker has in hand. `OwedInv` adds the debts: every arm of a
running experiment that nobody failed has been judged or has a job that will
(`SeenInv`), and a request that returned has put its names in order (`DebtInv`). The
hypothesis is needed: `copy_runs` looks only at rows (`rejudge.py:122`), so a name
asked both for a copy and for a sweep may end as two jobs of one run, one of which
empties what the other judged, and strands an experiment with nobody hurt.

**`PassesProofs`** (over `MCJudging`, any rows, questions, requests, sweeps and
bounds): `PassesInductive`, `VerdictsStand`, `VerdictsAreKept`, `GuestsStand`,
`RunStands`, `AnswersAreTold`. The three kinds of work each keep an invariant, framed
by the others' steps. `VerdictsInv` says of a pass what the row's lock alone would not
give: what is in flight is of the job in hand and of rows that job owed; a pass that is
not forced has each row out once and calls only for axes without a score (`PassOnce`),
so a merge over a score is a forced one; what is owed when a pass closes has another
job or a failed experiment (`OthersFollow`); and a pass without a control has a door
that chose so (`JobsHold`). `GuestInv` pays for each call with an attempt on the row, a
score or a lost answer. `AnswersInv` relates the rows to the walk (`Walking`): the
held rows are exactly the errors older than the attempt, an old answer has no old
error beside it, a new row is alone but for those errors, and an open question has
nothing else; a mark then leaves no error behind, and without resumes every row is of
the request in hand (`FreshHolds`). What a settlement or a mark does to the rows, for
any set of them, are the lemmas `SettlesKeeps` and `MarkedKeeps`.

**`SourcesProofs`** (over `MCSources`, any pieces, routes, fingerprints, rows,
children, knobs and bounds): `SourcesInductive`, `SourcesStand`, `FreeIsEmpty`,
`PiecesAreKept`. `OnboardInv` says that the text beside a row of the record is of the row's
version unless the piece is torn, and what an attempt has passed is of the version it
reads; which piece is torn is known only where an attempt ends (`Torn`).
`IntakeInv` has three layers. `RowsStand` holds whatever races: what a request or a
job in flight has seen of a row is its past (`PastOf`), and a row made since is a
bare declaration. `FoldersStand` holds while no writer acted on an old look: prints
grow from run to run and name the folder of every run after an accepted one
(`Follows`), so no two runs of a row meet in a folder, and what a door or a job may
clear is older than what the row names or another reads. `MarkStands` adds, while no
accept crossed an index, that the lane cuts the run the row names. `SupervisorInv`
says that, with one child and no crossing, a live process is a known child and one
that any wait waits for. `KnobsInv` follows a run's number, so a row names a run from
the time it is raw, and the declaration under a job is the row's own unless the job
was queued while a request was past its look (`met`).

**`WorkProofs`** (over `MCWork`, any rows, threads, shards, parts, sources, texts and
bounds): `EveryReplyIsCounted`, `TagHoldsThePenalty`, `KeptPiecesAreOfTheRecord`,
`GapsAreTold`, `FilesOfAJobAreKept`. `RefusalIsTheRuns` is not inductive: a throttle is
the stand's only while the pace has turns left, so `ThrottleIsMet` relates the turns a
pace has lifted to the tries of every thread that waits, and `FailedIsOfTheRow` says what
a failed row may then have met. For the count, `InHand` ties a reply that is in and not
read yet to its thread's row and to what the server counts of it. That a drop leaves one copy of a text is shown from the
order in which the sources are walked: the keeper is the least of those that hold it.

**`MeasuresProofs`** (over `MCAgent`, any books and sites of the gold, files, tools and
bounds; the names of judges and questions and the two releases of a document are the
model's): `TurnIsBounded`, by `AgInv`. `Within` says how many of a hop's five
super-steps are ahead at each node, so the limit of six a hop is never met, live or
replayed, whatever a script hands back. `Outside` follows a search that gave nothing
from its calls (`DryCalls`) to its spans (`Dry`): between the two the grader may throw
pieces out and the gate drop a weak context, and neither may pass for the other. The
replay is left out of that half: the turns it is handed are a filter of a transcript,
and what a filter returns is an induction.

`MeasuresAreHeld` is by one inductive invariant per part. `CmpInv`: the switches are the
stand's unless an arm is inside, and then the arm's, so whatever breaks an arm, the next
one starts from the stand. `GdInv`: a step a document is not behind in holds what it
would make today of the step before it, for all steps at once, since each reads what
another wrote. `RsInv` says, while jobs run in order and only jobs move the card, that
each verdict is of the load on the card or a job of a later id has evicted its judge
(`Since`). That is word for word what `_loaded_since` asks of the queue, so a residency
still lent is the load that is there; the rest of `RsLoads` says who is on the card at
which step of a pass. `Since` fails as soon as one of its premises goes: see
`ToldOneLoad` in `Residency`. `RunIsOneEngine` needs that what a pass was let in for
(`vetted`) is the engine of every verdict its run then had, and that one pass is at work
at a time; the windows after that refusal are told above.

## What is only model-checked

* Liveness (`EngineGetsItsTurn`, `EveryAnswerIsJudged`, `EveryJobSettles`,
  `UnhurtIsReported`, `StopEnds`): fairness and ENABLED are beyond the prover.
* `TextIsKept` (`works`) but for `GapIsTold`, `ReplayedAlike` (`agent_replay`), and of
  `TurnHolds` the parts `TurnIsBounded` does not state: recursive functions and folds over
  data, whose induction the prover cannot do.

## What the models leave out

* **Order and time.** How long anything takes: a backoff, a ceiling or a timeout may
  run out at any moment. Which job goes first is `Turns`.
* **The death of the API process**: a client that dies after its read has done
  nothing, one that dies after its commit loses only its notice. `Experiment` has the
  cut request, whose copies outlive it.
* **Two reads of one request are one step** where nothing between them can be told
  apart: the two SELECTs of `cancel`, the several GETs of `on_card`.
* **Inside one server**: which models an ollama has loaded, a spill, the windows. The
  card holds one model in `Residency`.
* **A door that looked before a job took the card** loads its ollama beside the job's
  engine; the code has no rule for it, and `AloneOnTheCard` leaves it out.
* **Numbers and wording**: metrics, intervals and corrections, the judge's prompts,
  samplers, the report's figures; one score of an axis is low or high.
* **Of the agent**: an exception the replay itself meets, the rounding of a topic's score (`run_snapshot.py:250`),
  `exhausted` against `no_answer`, `fallback_reason`, `react.py` and the direct chat
  path; a chunk stands for its file.
* **Of the sources**: the fetch, `_proxy`, the figures of the gate, cancels of running
  io jobs, rows of a vLLM, the patch and load doors, authentication.
* **Of the gold**: prepare, raster and layer; how a fragment becomes markdown; an html
  walk cut off later than its first page; a site's quota of pages.
* **Of the text rules**: fences of a converter, leader spans, the repairs of words,
  code lines and characters.
* Balances of paid engines, version stamps, logging, question sets, `preflight_grid`
  and the other scripts, configuration, the schema's history.
* Hazards seen and not listed, for each is of a kind a listed one covers:
  `job_queue.py:214`, `worker.py:95`, `:148`, `graph.py:237`, `bootstrap.py:47`,
  `card_wait.py:70`, `card.py:103`, `:109`, `eval_runs.py:191`, `chat.py:372`,
  `experiment.py:123`, `:304`, `judging.py:181`, `:628`, `onboard.py:350`,
  `source_intake.py:171`.

## The plan

1. Proofs: the fairness-free parts of `Turns` (the order of a line).
2. Models still to write: question sets (generation, acceptance, removal against a
   run that reads them), the direct chat path and `react.py`, `preflight_grid`, the
   boot of engines, the fetch of a source.
