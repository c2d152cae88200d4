------------------------------- MODULE Compare ------------------------------
(***************************************************************************)
(* A comparison of retrieval arms (app/use_cases/retrieval_compare.py): a  *)
(* grid of settings is measured arm by arm over one set of questions, each *)
(* arm under keyword switches put into the process's configuration for its *)
(* measuring, and every arm is compared with the one that differs from it  *)
(* in the axis of record.  Meanwhile the set is edited, sources are turned *)
(* on and off and the job is cancelled.                                    *)
(***************************************************************************)
EXTENDS FiniteSets, Naturals

CONSTANTS Questions, PairOf, HalfOf, MaxCmpMoves, MaxCmpTries

(* the values each axis of the model may take; the rest of the axes are of these kinds *)
Values == [keyword_query |-> {"and", "or"}, max_term_share |-> {"0", "share"},
           ef_search |-> {"40", "200"}, variant |-> {"v1", "v2"}, rerank_top |-> {"0", "many"}, source |-> {"s1", "s2"}]
Axes == DOMAIN Values
(* the axis values of the configuration itself *)
Stand == [keyword_query |-> "and", max_term_share |-> "0"]
(* KEYWORD_AXES and AXIS_FIELD: the axes that are switches of the process, and the field an axis is *)
Switches == DOMAIN Stand
FieldOf(axis) == IF axis \in Switches THEN "keyword" ELSE IF axis = "ef_search" THEN "search" ELSE axis

VARIABLES
  axes,       \* the experiment's grid: the values of each axis, the first one its reference
  param,      \* the axis of record
  fixed,      \* the questions fixed by the experiment, {} for a whole set
  settings,   \* the process's keyword switches
  set,        \* the questions a run may read now
  corpus, counted, \* the live chunks of search, and those the term shares were counted over
  cancelled,
  step, arm, measured, shortfall, results, tries, moves

cvars == <<axes, param, fixed, settings, set, corpus, counted, cancelled,
           step, arm, measured, shortfall, results, tries, moves>>
given == <<axes, param, fixed>>
stand == <<set, corpus, counted, cancelled, moves>>

(* arms: the product of the axes; an axis is given as [first, all] *)
Arms == {a \in [DOMAIN axes -> UNION {Values[x] : x \in Axes}] : \A x \in DOMAIN axes : a[x] \in axes[x].all}

(* what run() refuses before it measures: no axes, an axis of record that is none, or the source *)
Refused == param \notin DOMAIN axes \/ param = "source"

(* keyword_settings: the switches while an arm is measured *)
Put(a) == [x \in Switches |-> IF x \in DOMAIN a THEN a[x] ELSE settings[x]]

(* depth_of and the other settings of an arm that are not switches, by their defaults *)
At(a, x, default) == IF x \in DOMAIN a THEN a[x] ELSE default

(* questions and measure: what an arm reads, a source axis keeping its own; ids win over the set *)
Reads(a) == LET chosen == IF fixed = {} THEN set ELSE fixed \cap set
            IN  {q \in chosen : "source" \in DOMAIN a => q[2] = a.source}

(* _reference_for: the same arm at the first value of the axis of record *)
HasReference(a) == a[param] # axes[param].first
Reference(a) == [a EXCEPT ![param] = axes[param].first]

(* arm_procedure: the fields a comparison is refused or admitted by, as they are when it is asked; *)
(* two cuts of the corpus differ in their variant anyway, and it is not among them                 *)
Procedure(a) == [search |-> At(a, "ef_search", "40"), rerank_top |-> At(a, "rerank_top", "0"),
                 keyword |-> Put(a), questions |-> measured[a].questions]

(* comparable: the fields two arms differ in, the axis of record's own left out *)
NotComparable(a, b) == {f \in {"search", "rerank_top", "keyword", "questions"} \ {FieldOf(param)} :
                          Procedure(a)[f] # Procedure(b)[f]}

(* paired_delta, half_of, half_ids: over what both arms carry; a half is drawn by the pair *)
Shared(a, b) == measured[a].questions \cap measured[b].questions
Half(a, b, which) == {q \in Shared(a, b) : HalfOf[PairOf[q]] = which}

(* _term_counts: an arm of a rare cut needs shares counted over what is served now *)
StaleCounts(a) == Put(a).max_term_share # "0" /\ counted # corpus

Delta(a) == LET b == Reference(a) IN
  [against |-> b, apart |-> NotComparable(b, a), paired |-> Shared(b, a),
   halves |-> [w \in {"A", "B"} |-> Half(b, a, w)]]
Results == [arms |-> measured, deltas |-> [a \in {x \in Arms : HasReference(x)} |-> Delta(a)],
            shortfall |-> shortfall, procedure |-> [a \in Arms |-> Procedure(a)]]

NoArm == <<>>
NoResults == <<>>
CmpInit ==
  /\ \E names \in {{"keyword_query", "max_term_share"}, {"variant", "ef_search"}, {"rerank_top", "source"}} :
       /\ axes \in [names -> UNION {[first : Values[x], all : {Values[x]}] : x \in names}]
       /\ \A x \in names : axes[x].all = Values[x] /\ axes[x].first \in Values[x]
       /\ param \in names
  /\ fixed \in {{}, Questions}
  /\ settings = Stand /\ set = Questions \ {CHOOSE q \in Questions : TRUE} /\ corpus = 1 /\ counted = 1
  /\ cancelled = FALSE /\ step = "waits" /\ arm = NoArm /\ measured = <<>> /\ shortfall = {}
  /\ results = NoResults /\ tries = 0 /\ moves = 0

(* mutant: the switches put back only where the arm was measured *)
FailUnrestored == step' = "failed" /\ arm' = NoArm /\ UNCHANGED settings
Fail == step' = "failed" /\ arm' = NoArm /\ settings' = Stand

(* run, up to its first arm: the request is checked and the process's lists are emptied *)
Starts ==
  /\ step \in {"waits", "failed"} /\ tries < MaxCmpTries /\ tries' = tries + 1
  /\ IF Refused \/ cancelled
       THEN step' = "failed" /\ UNCHANGED <<measured, shortfall>>
       ELSE step' = "arms" /\ measured' = <<>> /\ shortfall' = {}
  /\ UNCHANGED <<given, stand, settings, arm, results>>

(* one arm begins: a cancel is seen between arms, and the switches are put *)
Enters ==
  /\ step = "arms" /\ DOMAIN measured # Arms
  /\ LET a == CHOOSE x \in Arms \ DOMAIN measured : TRUE
     IN  IF cancelled THEN Fail
           ELSE step' = "inside" /\ arm' = a /\ settings' = Put(a)
  /\ UNCHANGED <<given, stand, measured, shortfall, results, tries>>

(* measure: a pool may come back short of what was asked; the switches are put back *)
Measures ==
  /\ step = "inside"
  /\ measured' = [a \in DOMAIN measured \cup {arm} |->
       IF a = arm THEN [questions |-> Reads(arm), under |-> settings, corpus |-> corpus] ELSE measured[a]]
  /\ \E short \in {{}, Reads(arm)} : shortfall' = shortfall \cup {<<arm, q>> : q \in short}
  /\ settings' = Stand /\ arm' = NoArm /\ step' = "arms"
  /\ UNCHANGED <<given, stand, results, tries>>

(* measure raises in the middle of an arm: a refused scope, a model's server, the base *)
Breaks ==
  /\ step = "inside" /\ Fail
  /\ \E short \in {{}, Reads(arm)} : shortfall' = shortfall \cup {<<arm, q>> : q \in short}
  /\ UNCHANGED <<given, stand, measured, results, tries>>

(* the deltas and the record, after every arm *)
Reports ==
  /\ step = "arms" /\ DOMAIN measured = Arms
  /\ IF \E a \in Arms : StaleCounts(a)
       THEN step' = "failed" /\ UNCHANGED results
       ELSE step' = "done" /\ results' = Results
  /\ UNCHANGED <<given, stand, settings, arm, measured, shortfall, tries>>

(* what others do meanwhile *)
Moves ==
  /\ moves < MaxCmpMoves /\ moves' = moves + 1
  /\ \/ \E q \in Questions : set' = (set \cup {q}) \ (set \cap {q}) /\ UNCHANGED <<corpus, counted, cancelled>>
     \/ corpus' = 3 - corpus /\ UNCHANGED <<set, counted, cancelled>>
     \/ counted' = corpus /\ counted # corpus /\ step \in {"waits", "failed"}
          /\ UNCHANGED <<set, corpus, cancelled>>
     \/ ~cancelled /\ cancelled' = TRUE /\ UNCHANGED <<set, corpus, counted>>
  /\ UNCHANGED <<given, settings, step, arm, measured, shortfall, results, tries>>

CmpNext == Starts \/ Enters \/ Measures \/ Breaks \/ Reports \/ Moves
CmpSpec == CmpInit /\ [][CmpNext]_cvars

CmpTypeOK ==
  /\ step \in {"waits", "arms", "inside", "done", "failed"}
  /\ settings \in [Switches -> {"and", "or", "0", "share"}] /\ set \subseteq Questions
  /\ DOMAIN measured \subseteq Arms /\ tries \in 0..MaxCmpTries /\ moves \in 0..MaxCmpMoves

(* Whatever ends an arm, an answer, a refusal or a cancel, the process searches under the *)
(* stand's own switches again: the source gate and the next job read the same object. *)
SettingsComeBack == step # "inside" => settings = Stand

(* An arm is measured under its own switches, whichever arms were measured before it, and its *)
(* record names the switches it was measured under. *)
ArmsUnderTheirOwn == \A a \in DOMAIN measured :
  /\ \A x \in Switches : measured[a].under[x] = At(a, x, Stand[x])
  /\ results # NoResults => results.procedure[a].keyword = measured[a].under

(* A delta nothing is held against compares one set of questions, measured under switches that *)
(* differ in the axis of record alone, though the set is edited and arms fail in between.      *)
QuietDeltasDifferInOneAxis == results # NoResults => \A a \in DOMAIN results.deltas :
  LET d == results.deltas[a]
  IN  d.apart = {} => /\ results.arms[a].questions = results.arms[d.against].questions
                      /\ \A x \in Switches \ {param} : results.arms[a].under[x] = results.arms[d.against].under[x]

(* The winner is chosen on one half and told on the other: the halves part what was paired, and *)
(* the two languages of a pair are on one side. *)
HalvesPart == results # NoResults => \A a \in DOMAIN results.deltas :
  LET d == results.deltas[a]
  IN  /\ d.halves["A"] \cup d.halves["B"] = d.paired
      /\ \A p \in d.halves["A"], q \in d.halves["B"] : PairOf[p] # PairOf[q]

(* A short pool is told of the attempt that met it: the list is the process's, a retry empties it. *)
ShortfallIsOfTheRun == results # NoResults =>
  \A s \in results.shortfall : s[2] \in results.arms[s[1]].questions

CompareHolds ==
  CmpTypeOK /\ SettingsComeBack /\ ArmsUnderTheirOwn /\ QuietDeltasDifferInOneAxis /\ HalvesPart /\ ShortfallIsOfTheRun

(* Not run, violated: a rare cut is measured over the corpus its shares were counted over (line *)
(* 461); they are compared after the last arm, and a source may be off and on again between. *)
CountsAreOfTheCorpus == results # NoResults =>
  \A a \in DOMAIN measured : measured[a].under.max_term_share # "0" => measured[a].corpus = counted
=============================================================================
