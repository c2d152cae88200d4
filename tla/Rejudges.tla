------------------------------ MODULE Rejudges ------------------------------
(***************************************************************************)
(* A rejudge (app/use_cases/rejudge.py, app/use_cases/experiment_setup.py): *)
(* the answers of a source run are copied under a name per arm with their  *)
(* verdicts cleared, each copy is judged by what its arm names and by the  *)
(* stand's own judge and prompts where it names nothing, and the report    *)
(* pairs the copies.  Meanwhile the judge is reseated, a prompt is made    *)
(* active and the source run answers anew the question that failed.        *)
(***************************************************************************)
EXTENDS FiniteSets, Naturals

CONSTANTS Questions, ArmsOf, MaxArms, MaxRjMoves, MaxFails  \* bounds on the arms, on what moves meanwhile and on rows given up

(* an arm is the values it moves: a judge's model, a prompt version of an axis, or nothing (repeat); *)
(* ArmsOf are the arms an instance may be asked for *)
Axes == {"faithfulness", "relevance"}
Source == [source |-> "run"]
Unset == "none"
NoVerdict == [model |-> Unset, version |-> Unset, of |-> Source, score |-> Unset]
Unjudged == [axis \in Axes |-> NoVerdict]

VARIABLES
  seat, active,  \* the judge's model in its role, the active prompt version of each axis
  rows,          \* the rows of each run, by question: the answer, its verdicts, the outcome settled
  asked,         \* the request at the door: its arms and what it passed so far
  exp,           \* the experiment: its arms, its status, its control sample, if it is unpaired
  report,
  moved, moves   \* ghost: what moved since a door looked; how often it did

rjvars == <<seat, active, rows, asked, exp, report, moved, moves>>

Named(arm, x) == IF x \in DOMAIN arm THEN arm[x] ELSE Unset
ArmRun(arm) == arm
Has(q, run) == q \in DOMAIN rows[run]
Scored(run, axis) == {q \in DOMAIN rows[run] : rows[run][q].ver[axis] # NoVerdict}

(* a verdict says what gave it; "of" is the run it was given for, of the model alone *)
Verdict(model, version, of, score) == [model |-> model, version |-> version, of |-> of, score |-> score]
Row(text, ver, settled) == [text |-> text, ver |-> ver, settled |-> settled, failed |-> {}, skipped |-> {}]

(* _judged_by: what the rows of a run say scored them *)
Versions(run, axis) == {rows[run][q].ver[axis].version : q \in Scored(run, axis)}
Models(run) == UNION {{rows[run][q].ver[axis].model : q \in Scored(run, axis)} : axis \in Axes}

(* _effective_judge: what an arm would be judged by now *)
Effective(arm, axis) == [model |-> IF Named(arm, "model") = Unset THEN seat ELSE arm.model,
                         version |-> IF Named(arm, axis) = Unset THEN active[axis] ELSE arm[axis]]
(* _reproduces: over the axes the source names one version of *)
Reproduces(arm) == \A axis \in Axes : Versions(Source, axis) # {} =>
  /\ Models(Source) = {Effective(arm, axis).model} /\ Versions(Source, axis) = {Effective(arm, axis).version}
(* refuse_unpaired_rejudge *)
Paired(arms) ==
  IF Models(Source) = {} THEN \E a \in arms : "repeat" \in DOMAIN a
  ELSE /\ \A axis \in Axes : Cardinality(Versions(Source, axis)) <= 1
       /\ \E a \in arms : Reproduces(a)

(* mutant: the columns cleared and the metrics carried *)
CopyOfColumns(run) == [q \in DOMAIN rows[Source] |->
  [rows[Source][q] EXCEPT !.ver["relevance"] = NoVerdict, !.failed = {}, !.skipped = {}]]

(* copy_statement: verdicts, their stamps and the judge's names are stripped; the settled outcome stays *)
Copy(run) == [q \in DOMAIN rows[Source] |-> [rows[Source][q] EXCEPT !.ver = Unjudged, !.failed = {}, !.skipped = {}]]
(* _settle_outcome: only where faithfulness has a verdict, by it *)
Settle(row, run) == IF row.ver["faithfulness"] = NoVerdict THEN row.settled
                    ELSE IF row.ver["faithfulness"].score = "low" THEN {run} ELSE {}

NoRequest == [step |-> "none", arms |-> {}, control |-> FALSE, unpaired |-> FALSE]
NoReport == [arms |-> {}]
(* a source nobody judged, judged by one version, or by two; one question may have failed *)
SourceRows(judged, low, error) ==
  LET Scores(q) == IF low /\ q = 1 THEN "low" ELSE "high"
      Version(q) == IF judged = "mixed" /\ q = 1 THEN "v2" ELSE "v1"
  IN  [q \in Questions |->
        IF q = error THEN Row("error", Unjudged, {})
        ELSE IF judged = "no" THEN Row("answer", Unjudged, {})
        ELSE Row("answer", [axis \in Axes |-> Verdict("m1", Version(q), Source, Scores(q))],
                 IF Scores(q) = "low" THEN {Source} ELSE {})]
RjInit ==
  /\ seat = "m1" /\ active = [axis \in Axes |-> "v1"]
  /\ \E judged \in {"no", "clean", "mixed"}, low \in BOOLEAN, error \in Questions \cup {0} :
       /\ low => judged # "no"
       /\ rows = [run \in {Source} |-> SourceRows(judged, low, error)]
  /\ asked = NoRequest /\ exp = [arms |-> {}, status |-> "none", control |-> FALSE, unpaired |-> FALSE]
  /\ report = NoReport /\ moved = {} /\ moves = 0

(* create and add_arms, up to the copies: the arms are checked against the record as it is now, *)
(* and an unpaired rejudge is one whose caller says so *)
Looks ==
  /\ asked.step = "none" /\ exp.status \in {"none", "aggregated"}
  /\ \E arms \in SUBSET ArmsOf, control \in BOOLEAN : LET unpaired == ~Paired(arms \cup exp.arms) IN
       /\ arms # {} /\ arms \cap exp.arms = {} /\ Cardinality(arms \cup exp.arms) <= MaxArms
       /\ exp.status = "aggregated" => control = exp.control
       /\ asked' = [step |-> "looked", arms |-> arms, control |-> control, unpaired |-> unpaired \/ exp.unpaired]
  /\ moved' = IF exp.status = "none" THEN {} ELSE moved
  /\ UNCHANGED <<seat, active, rows, exp, report, moves>>

(* copy_runs and the commit: every copy or none, and the experiment with its jobs *)
Makes ==
  /\ asked.step = "looked" /\ asked' = NoRequest
  /\ LET copies == {ArmRun(a) : a \in asked.arms}
     IN  rows' = [r \in DOMAIN rows \cup copies |-> IF r \in copies THEN Copy(r) ELSE rows[r]]
  /\ exp' = [arms |-> exp.arms \cup asked.arms, status |-> "running", control |-> asked.control,
             unpaired |-> asked.unpaired]
  /\ UNCHANGED <<seat, active, report, moved, moves>>

(* arm_options: an axis the arm does not move is its control, judged on a sample of the answered rows: the first *)
Controls(arm) == {axis \in Axes : Named(arm, axis) = Unset}
Answered(run) == {q \in DOMAIN rows[run] : rows[run][q].text # "error"}
Sample(run) == {q \in Answered(run) : \A p \in Answered(run) : q <= p}
SkippedOf(arm, q) == IF exp.control /\ q \notin Sample(ArmRun(arm)) THEN Controls(arm) ELSE {}
Owed(arm, q) == LET row == rows[ArmRun(arm)][q]
                IN  {axis \in Axes : row.text # "error" /\ row.ver[axis] = NoVerdict /\ axis \notin row.failed \cup row.skipped}

(* a row of an arm's pass, one pass after another: the axes owed, each by the arm's bench, answered *)
(* or given up *)
OwedRows == {p \in exp.arms \X Questions : Has(p[2], ArmRun(p[1])) /\ Owed(p[1], p[2]) # {}}
GivenUp == Cardinality({p \in exp.arms \X Questions : Has(p[2], ArmRun(p[1])) /\ rows[ArmRun(p[1])][p[2]].failed # {}})
JudgesArm(arm, q) ==
  /\ exp.status = "running" /\ OwedRows # {} /\ <<arm, q>> = CHOOSE p \in OwedRows : TRUE
  /\ LET run == ArmRun(arm)
         skip == SkippedOf(arm, q)
         takes == Owed(arm, q) \ skip
         row == rows[run][q]
         Given(fails, score) == [axis \in Axes |-> IF axis \in takes \ fails
           THEN Verdict(Effective(arm, axis).model, Effective(arm, axis).version, run, score) ELSE row.ver[axis]]
     IN  \E fails \in SUBSET takes, score \in {"low", "high"} :
           /\ fails = {} \/ GivenUp < MaxFails
           /\ "faithfulness" \in takes \ fails \/ score = "high"
           /\ LET judged == [row EXCEPT !.ver = Given(fails, score), !.failed = @ \cup fails, !.skipped = @ \cup skip]
              IN  rows' = [rows EXCEPT ![run][q] = [judged EXCEPT !.settled = Settle(judged, run)]]
  /\ UNCHANGED <<seat, active, asked, exp, report, moved, moves>>

(* answers_digest, _same_answers: over the rows a pair and the source share *)
Shared(a, b) == DOMAIN rows[a] \cap DOMAIN rows[b]
Digest(run, ids) == [q \in ids \cap DOMAIN rows[run] |-> rows[run][q].text]
SameAnswers(a, b) ==
  Shared(a, b) # {} /\ Digest(a, Shared(a, b)) = Digest(b, Shared(a, b)) /\ Digest(b, Shared(a, b)) = Digest(Source, Shared(a, b))

(* compute_results: the source joins the arms where it carries verdicts; each pair on each axis *)
Compared == {ArmRun(a) : a \in exp.arms} \cup (IF \E axis \in Axes : Scored(Source, axis) # {} THEN {Source} ELSE {})
Results == [arms |-> exp.arms,
  deltas |-> [c \in {p \in Compared \X Compared : p[1] # p[2]} |->
    [paired |-> [axis \in Axes |-> {[q |-> q, a |-> rows[c[1]][q].text, b |-> rows[c[2]][q].text] :
                                     q \in Scored(c[1], axis) \cap Scored(c[2], axis)}],
     texts |-> <<Digest(c[1], Questions), Digest(c[2], Questions)>>,
     same |-> SameAnswers(c[1], c[2])]]]

(* try_aggregate_for_run: once no row of an arm is owed a verdict *)
Aggregates ==
  /\ exp.status = "running" /\ OwedRows = {}
  /\ exp' = [exp EXCEPT !.status = "aggregated"] /\ report' = Results
  /\ UNCHANGED <<seat, active, rows, asked, moved, moves>>

(* what others do meanwhile: a reseated judge, a prompt made active, a failed question answered anew *)
Moves ==
  /\ moves < MaxRjMoves /\ moves' = moves + 1
  /\ \/ seat' = (IF seat = "m1" THEN "m2" ELSE "m1") /\ moved' = moved \cup {"judge"} /\ UNCHANGED <<active, rows>>
     \/ \E axis \in Axes : active' = [active EXCEPT ![axis] = IF @ = "v1" THEN "v2" ELSE "v1"]
          /\ moved' = moved \cup {"judge"} /\ UNCHANGED <<seat, rows>>
     \/ \E q \in Questions : rows[Source][q].text = "error"
          /\ rows' = [rows EXCEPT ![Source][q] = Row("answer", Unjudged, {})]
          /\ moved' = moved \cup {"source"} /\ UNCHANGED <<seat, active>>
  /\ UNCHANGED <<asked, exp, report>>

RjNext == Looks \/ Makes \/ Aggregates \/ Moves \/ \E a \in ArmsOf, q \in Questions : JudgesArm(a, q)
RjSpec == RjInit /\ [][RjNext]_rjvars

RowsOf(arm) == {q \in Questions : Has(q, ArmRun(arm))}
RjTypeOK ==
  /\ seat \in {"m1", "m2"} /\ active \in [Axes -> {"v1", "v2"}] /\ moves \in 0..MaxRjMoves
  /\ exp.arms \subseteq ArmsOf /\ DOMAIN rows = {Source} \cup {ArmRun(a) : a \in exp.arms}

(* A copy is unjudged until its own pass: every verdict on it was given for it, by the model and *)
(* the versions its arm names, though the seat and the prompts move under the pass. *)
ArmIsAsNamed == \A a \in exp.arms : \A q \in RowsOf(a) : \A axis \in Axes :
  LET v == rows[ArmRun(a)][q].ver[axis]
  IN  v # NoVerdict => /\ v.of = ArmRun(a)
                       /\ Named(a, "model") # Unset => v.model = a.model
                       /\ Named(a, axis) # Unset => v.version = a[axis]

(* An arm that moves an axis is judged on it whole, a control sample or not: only what the judge *)
(* gave up on is missing where the report says n. *)
MovedAxisIsWhole == exp.status = "aggregated" => \A a \in exp.arms : \A q \in RowsOf(a) : \A axis \in Axes \ Controls(a) :
  rows[ArmRun(a)][q].text = "error" \/ rows[ArmRun(a)][q].ver[axis] # NoVerdict \/ axis \in rows[ArmRun(a)][q].failed

(* The controls of two arms over one source are judged on the same questions, an arm added later *)
(* too, so a control's delta pairs its whole sample: where the source answered nothing anew since, *)
(* for the sample is drawn from what is answered when an arm is judged (judging.py:66). *)
ControlsMeet == exp.status = "aggregated" /\ exp.control /\ "source" \notin moved => \A a, b \in exp.arms :
  \A axis \in Controls(a) \cap Controls(b) : \A q \in {p \in Questions : rows[ArmRun(a)][p].text = rows[ArmRun(b)][p].text} :
    axis \in rows[ArmRun(a)][q].skipped <=> axis \in rows[ArmRun(b)][q].skipped

(* A delta pairs verdicts of one text, though the source answered anew between two copies of it; *)
(* and where it says the answers are the same, the judge alone is what the arms differ by. *)
PairsAreOfOneText == report # NoReport => \A c \in DOMAIN report.deltas : LET d == report.deltas[c] IN
  /\ \A axis \in Axes : \A p \in d.paired[axis] : p.a = p.b
  /\ d.same => \A q \in Questions : Has(q, c[1]) /\ Has(q, c[2]) => d.texts[1][q] = d.texts[2][q]

(* The outcome a faithfulness verdict settles is settled by the last one of that row. *)
SettledByItsVerdict == \A run \in DOMAIN rows : \A q \in DOMAIN rows[run] :
  LET row == rows[run][q]
  IN  row.ver["faithfulness"] # NoVerdict => row.settled = IF row.ver["faithfulness"].score = "low" THEN {run} ELSE {}

(* A paired rejudge nothing moved under holds an arm that reproduces its source. *)
ControlStands == exp.status # "none" /\ ~exp.unpaired /\ moved = {} /\ Models(Source) # {} =>
  \E a \in exp.arms : Reproduces(a)

RejudgesHold == RjTypeOK /\ ArmIsAsNamed /\ MovedAxisIsWhole /\ ControlsMeet /\ PairsAreOfOneText /\ SettledByItsVerdict /\ ControlStands

(* Violated: "one run's answers under a new name, verdicts cleared" (rejudge.py:43).  What the     *)
(* judge of the source settled is copied with the row, and stays where the arm's judge gives no    *)
(* faithfulness: a row outside the control sample, or one the judge gave up on.                    *)
SettledIsItsOwn == \A a \in exp.arms : \A q \in RowsOf(a) : rows[ArmRun(a)][q].settled \subseteq {ArmRun(a)}

(* Not run, violated: a report that is not unpaired holds a control its source's judge reproduced *)
(* (rejudge.py:279).  The judge is looked up at the door, and again when the row is judged.       *)
ControlReproduces == report # NoReport /\ ~exp.unpaired /\ Models(Source) # {} /\ "source" \notin moved =>
  \E a \in exp.arms : \A axis \in Axes :
    Versions(ArmRun(a), axis) \subseteq Versions(Source, axis) /\ Models(ArmRun(a)) \subseteq Models(Source)
=============================================================================
