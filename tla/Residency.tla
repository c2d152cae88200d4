------------------------------- MODULE Residency -----------------------------
(***************************************************************************)
(* Which instrument scored a row, and what a reader of two runs is told of *)
(* it (app/passes.py, app/job_handlers/judging.py, app/evals/compare.py).  *)
(* A pass keeps to the seat it began with, its rows are stamped with the   *)
(* engine and with a residency, the name of one load of the judge: an      *)
(* ollama says only what is loaded now, so a pass inherits the last name   *)
(* unless the queue or another engine's verdicts show the judge was        *)
(* evicted; a vLLM says when its process began.  The card holds one model. *)
(***************************************************************************)
EXTENDS FiniteSets, Naturals, Sequences, SequencesExt

CONSTANTS
  Seats, Named, Generator, Converter,
  MaxRows,   \* bound of the model: verdicts of a run
  MaxJobs,   \* bound of the model: jobs
  MaxAmiss   \* bound of the model: their returns to the line, and what else moves the seat and the card

(* a model is <<engine, name>>; "v" is the engine of a vLLM, every other one an ollama *)
Judged == {"run1", "run2"}
Role == <<"the role">>
Nothing == <<"nothing">>
NoId == 0

VARIABLES
  seat,      \* the model of the judging role
  card,      \* the model on the card
  load,      \* ghost: how many times a model came onto the card
  began,     \* how many times the vLLM's process began
  jobs,      \* the queue, by id: what each does, over which run, the judge it names, its status
  pass,      \* the running job's id, its step, the judge its refusal saw (a ghost), the seat it began
             \* with, its residency, the call made
  rows,      \* the verdicts, in the order they were written
  orderly,   \* ghost: jobs ran once each and by id, nothing but jobs moved the card, the seat stood
  shifts
rsvars == <<seat, card, load, began, jobs, pass, rows, orderly, shifts>>

NoPass == [job |-> 0, step |-> "none", vetted |-> Nothing, seated |-> Nothing, id |-> NoId, whole |-> FALSE, at |-> 0]
Engine(m) == m[1]
(* resolve_for: the judge a job answers with, its override or the role's seat today *)
Resolve(j) == IF jobs[j].model = Role THEN seat ELSE jobs[j].model
Of(run) == {i \in DOMAIN rows : rows[i].run = run}
Latest(S) == CHOOSE i \in S : \A k \in S : k <= i

(* mutant: a job is thought to evict where it names the judge itself *)
EvictsByKind(j, judge) == jobs[j].kind = "run" /\ Resolve(j) = judge
(* _puts_another_model_on_the_card, evicts_the_judge: by the roles as they are seated today *)
Evicts(j, judge) ==
  CASE jobs[j].kind = "run" -> TRUE
    [] jobs[j].kind = "convert" -> FALSE  \* LOADS declares no role for a conversion, though it takes the card
    [] OTHER -> Resolve(j) # judge
(* _loaded_since: a job of a later id that left the line *)
LoadedSince(prev, j, judge) ==
  \E k \in DOMAIN jobs \ {j} : k > prev /\ jobs[k].status # "new" /\ Evicts(k, judge)
(* _last_residency: the last verdict of the engine that names one *)
Lenders(engine) == {i \in DOMAIN rows : /\ rows[i].id # NoId /\ rows[i].engine = engine
                                        /\ IF engine = "v" THEN rows[i].began = began ELSE rows[i].whole}
(* _card_changed_hands: another engine's verdict since *)
ChangedHands(i) == \E k \in DOMAIN rows : k > i /\ rows[k].engine # rows[i].engine

(* residency_of: the id a pass stamps, and whether it found its judge whole on the card *)
ResidencyOf(j) ==
  LET judge == Resolve(j)
      lent == Lenders(Engine(judge))
      last == Latest(lent)
  IN  CASE Engine(judge) = "v" -> [id |-> IF lent = {} THEN j ELSE rows[last].id, whole |-> TRUE]
        [] Engine(judge) # "v" /\ card # judge -> [id |-> j, whole |-> FALSE]
        [] OTHER -> [id |-> IF lent = {} \/ LoadedSince(rows[last].id, j, judge) \/ ChangedHands(last)
                              THEN j ELSE rows[last].id,
                     whole |-> TRUE]

(* mutant: only a pass that names its judge is looked at *)
SecondJudgeNamed(j) == jobs[j].model # Role /\ \E i \in Of(jobs[j].run) : rows[i].engine # Engine(Resolve(j))
(* _refuse_a_second_judge: by the engines the run's verdicts name *)
SecondJudge(j) == \E i \in Of(jobs[j].run) : rows[i].engine # Engine(Resolve(j))

(* the jobs are queued from the start: which runs next is any of them all the same; *)
(* a "named" one judges the rows its log_ids name, judged already or not             *)
Queued(kind, run, model) == [kind |-> kind, run |-> run, model |-> model, status |-> "new", starts |-> 0]
RsInit ==
  /\ seat \in Seats /\ card = Nothing /\ load = 0 /\ began = 1 /\ pass = NoPass /\ rows = <<>>
  /\ \E n \in 1..MaxJobs :
       jobs \in [1..n -> {Queued("judge", "run2", model) : model \in Named \cup {Role}}
                           \cup {Queued(kind, "run1", Role) : kind \in {"judge", "named", "run", "convert"}}]
  /\ jobs[1].run = "run1"  \* a bound of the model
  /\ orderly = TRUE /\ shifts = 0

Loads(m) == IF card = m THEN UNCHANGED <<card, load>> ELSE card' = m /\ load' = load + 1
Ends(j, status) == pass' = NoPass /\ jobs' = [jobs EXCEPT ![j].status = status]

(* what the queue's order does not tell of *)
Amiss == shifts < MaxAmiss /\ shifts' = shifts + 1 /\ orderly' = FALSE

(* a job leaves the line: its turn depends on its rank, its pause and its delay, so any may be next; *)
(* a pass that names no rows is refused here, before it waits for the card                            *)
StartsJob(j) ==
  /\ pass.job = 0 /\ jobs[j].status = "new"
  /\ CASE jobs[j].kind \in {"run", "convert"} ->
            /\ Loads(IF jobs[j].kind = "run" THEN Generator ELSE Converter) /\ pass' = NoPass
            /\ \E s \in {"ended", "new"} : jobs' = [jobs EXCEPT ![j].status = s, ![j].starts = @ + 1]
       [] jobs[j].kind = "judge" /\ SecondJudge(j) ->
            /\ jobs' = [jobs EXCEPT ![j].status = "ended", ![j].starts = @ + 1] /\ pass' = NoPass
            /\ UNCHANGED <<card, load>>
       [] OTHER ->
            /\ jobs' = [jobs EXCEPT ![j].status = "running", ![j].starts = @ + 1]
            /\ pass' = [NoPass EXCEPT !.job = j, !.step = "card",
                                      !.vetted = IF jobs[j].kind = "judge" THEN Resolve(j) ELSE Nothing]
            /\ UNCHANGED <<card, load>>
  /\ IF jobs'[j].status = "new" THEN Amiss
     ELSE /\ orderly' = (orderly /\ jobs[j].starts = 0 /\ \A k \in DOMAIN jobs : k > j => jobs[k].starts = 0)
          /\ UNCHANGED shifts
  /\ UNCHANGED <<seat, began, rows>>

(* require_card: the judge seated by now comes onto the card, or the job fails or goes back in line *)
TakesCard ==
  /\ pass.step = "card"
  /\ \/ Loads(Resolve(pass.job)) /\ pass' = [pass EXCEPT !.step = "seat"] /\ UNCHANGED <<jobs, orderly, shifts>>
     \/ Ends(pass.job, "ended") /\ UNCHANGED <<card, load, orderly, shifts>>
     \/ Ends(pass.job, "new") /\ Amiss /\ UNCHANGED <<card, load>>
  /\ UNCHANGED <<seat, began, rows>>

(* Pass: the seat the rows are held to is read only now *)
TakesSeat ==
  /\ pass.step = "seat" /\ pass' = [pass EXCEPT !.step = "row", !.seated = Resolve(pass.job)]
  /\ UNCHANGED <<seat, card, load, began, jobs, rows, orderly, shifts>>

(* the verdicts the next one is written after: a row owed has none, a row named may lose the one it has *)
Left(j) == (IF Cardinality(Of(jobs[j].run)) < MaxRows THEN {rows} ELSE {})
             \cup (IF jobs[j].kind = "named" THEN {RemoveAt(rows, i) : i \in Of(jobs[j].run)} ELSE {})

(* before_row: a cancel, a moved seat or the end of the rows ends the pass; a fault puts the job back *)
Checks ==
  /\ pass.step = "row"
  /\ LET j == pass.job IN
     \/ /\ Resolve(j) = pass.seated /\ Left(j) # {}
        /\ pass' = [pass EXCEPT !.step = "call"] /\ UNCHANGED <<jobs, orderly, shifts>>
     \/ Ends(j, "ended") /\ UNCHANGED <<orderly, shifts>>
     \/ Ends(j, "new") /\ Amiss
  /\ UNCHANGED <<seat, card, load, began, rows>>

(* the row's calls: the judge resolved again comes onto the card and answers; a vLLM woken from *)
(* its sleep holds what its process loaded (_by_process_start) *)
Calls ==
  /\ pass.step = "call" /\ Loads(Resolve(pass.job))
  /\ pass' = [pass EXCEPT !.step = "stamp", !.at = IF Engine(Resolve(pass.job)) = "v" THEN began ELSE load']
  /\ UNCHANGED <<seat, began, jobs, rows, orderly, shifts>>

(* stamp_of and the write: the residency is read once a pass, after its first calls *)
Stamps ==
  /\ pass.step = "stamp"
  /\ LET j == pass.job
         read == IF pass.id # NoId THEN [id |-> pass.id, whole |-> pass.whole] ELSE ResidencyOf(j)
     IN  /\ \E left \in Left(j) :
              rows' = Append(left, [run |-> jobs[j].run, engine |-> Engine(Resolve(j)), model |-> Resolve(j),
                                    id |-> read.id, whole |-> read.whole, began |-> began, vetted |-> pass.vetted,
                                    load |-> pass.at])
         /\ pass' = [pass EXCEPT !.step = "row", !.id = read.id, !.whole = read.whole]
  /\ UNCHANGED <<seat, card, load, began, jobs, orderly, shifts>>

(* what else moves the seat and the card: an operator, a chat answered beside the queue, a server *)
Shifts ==
  /\ Amiss
  /\ \/ seat' \in Seats \ {seat} /\ UNCHANGED <<card, load, began>>
     \/ Loads(Generator) /\ UNCHANGED <<seat, began>>
     \/ began' = began + 1 /\ card' = (IF Engine(card) = "v" THEN Nothing ELSE card) /\ UNCHANGED <<seat, load>>
  /\ UNCHANGED <<jobs, pass, rows>>

RsNext == (\E j \in DOMAIN jobs : StartsJob(j)) \/ TakesCard \/ TakesSeat \/ Checks \/ Calls \/ Stamps \/ Shifts
RsSpec == RsInit /\ [][RsNext]_rsvars

(***************************************************************************)
(* What compare says of two runs.  A reading is TRUE, FALSE or unknown.    *)
(***************************************************************************)
(* _all_agree: silence is not a match *)
AllAgree(values) ==
  IF \E r \in Judged : values[r] = {} THEN "unknown"
  ELSE IF Cardinality(UNION {values[r] : r \in Judged}) = 1 THEN "one" ELSE "many"

OneResidency == AllAgree([r \in Judged |-> {rows[i].id : i \in {k \in Of(r) : rows[k].id # NoId}}])
OneEngineName == AllAgree([r \in Judged |-> {rows[i].engine : i \in Of(r)}])
(* compare and _what_to_read_first: what the report opens with *)
Says == IF OneEngineName = "many" THEN "refused"
        ELSE IF OneResidency = "many" THEN "reloaded"
        ELSE IF OneResidency = "unknown" THEN "cannot be said"
        ELSE "one residency"

RsTypeOK ==
  /\ seat \in Seats /\ card \in Seats \cup Named \cup {Generator, Converter, Nothing}
  /\ pass.step \in {"none", "card", "seat", "row", "call", "stamp"} /\ pass.job = 0 <=> pass.step = "none"

ToldOneLoad == Says = "one residency" =>
  \A i, k \in Of("run1") \cup Of("run2") : rows[i].model = rows[k].model => rows[i].load = rows[k].load

(* Where jobs ran in the order of their ids, none of them a conversion, and only jobs moved the card, *)
(* two runs a reader is told have one residency were judged by each model in one load (judging.py:453). *)
OneReadingOneLoad ==
  (orderly /\ \A j \in DOMAIN jobs : jobs[j].kind = "convert" => jobs[j].starts = 0) => ToldOneLoad

(* The verdicts of a run that are of the engine their pass was let in for are of one engine, however    *)
(* its passes and the seat interleave (judging.py:81).  Another engine's verdict can only be of a pass   *)
(* that named its rows (:120), or of one the seat moved under after the refusal: while it waited for the *)
(* card (:123), before it read the seat (:151), or between a row's check and its stamp.                  *)
AsVetted(run) == {i \in Of(run) : rows[i].engine = Engine(rows[i].vetted)}
RunIsOneEngine ==
  \A r \in Judged : \A i, k \in AsVetted(r) : rows[i].engine = rows[k].engine

(* A run nobody judged is never read as agreeing with one that was (compare.py:394). *)
SilenceIsNoMatch == Says \in {"one residency", "reloaded"} => Of("run1") # {} /\ Of("run2") # {}

ResidencyHolds == RsTypeOK /\ OneReadingOneLoad /\ RunIsOneEngine /\ SilenceIsNoMatch

(* Violated: "any other model on the card evicts" (judging.py:482), and a residency is *)
(* "one load of the model" (docs/api.md:290); but LOADS declares no role for a conversion         *)
(* (job_specs.py:490), so the pass after one inherits the name of the load it ended.               *)
ConversionEndsAResidency == orderly => ToldOneLoad

(* Not run, violated: a reader told of one residency reads one instrument (compare.py:425).  A pass *)
(* of another model on the same ollama inherits the id, and compare never compares the models. *)
OneResidencyOneModel == Says = "one residency" =>
  \A i, k \in Of("run1") \cup Of("run2") : rows[i].model = rows[k].model
(* ToldOneLoad itself, without the order, is violated too: a job of an earlier id, one put back in *)
(* line, the retry of the pass itself and a chat all evict the judge where no query looks (judging.py:469). *)
=============================================================================
