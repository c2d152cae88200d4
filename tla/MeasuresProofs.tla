---------------------------- MODULE MeasuresProofs ----------------------------
(***************************************************************************)
(* Theorems about how the stand answers and what it makes of the answers:  *)
(* the turns of the answering graph, whatever its doors hand back; the     *)
(* comparison of retrieval arms, however the corpus, the settings and the  *)
(* grid move under it; the gold a converter is scored by, for any          *)
(* documents of books and sites; and the instrument that scored two runs,  *)
(* for any number of jobs and verdicts.                                    *)
(***************************************************************************)
EXTENDS MCAgent, FiniteSetTheorems, SequenceTheorems, WellFoundedInduction, TLAPS

-----------------------------------------------------------------------------
(* Compare *)

(* an arm is measured under its own settings, and the stand's come back whenever no arm is inside *)
CmpMeasured ==
  /\ DOMAIN measured \subseteq C!Arms
  /\ \A a \in DOMAIN measured :
       /\ measured[a].questions \subseteq Questions
       /\ measured[a].under = [x \in C!Switches |-> C!At(a, x, C!Stand[x])]
(* a question falls short only of an arm that was asked it *)
CmpShort == \A s \in shortfall : s[1] \in DOMAIN measured /\ s[2] \in measured[s[1]].questions
(* inside an arm the switches are the arm's, outside they are the stand's *)
CmpSwitches ==
  /\ step # "inside" => settings = C!Stand
  /\ step = "inside" => /\ arm \in C!Arms \ DOMAIN measured
                        /\ settings = [x \in C!Switches |-> C!At(arm, x, C!Stand[x])]
(* what the grid says stays of the axes it declares *)
CmpGrid ==
  /\ DOMAIN axes \subseteq C!Axes /\ param \in DOMAIN axes
  /\ \A x \in DOMAIN axes : axes[x].all = C!Values[x] /\ axes[x].first \in C!Values[x]
  /\ fixed \subseteq Questions /\ set \subseteq Questions
(* results, once written, are what the measured arms say *)
CmpInv ==
  /\ CmpGrid /\ CmpMeasured /\ CmpSwitches
  /\ step \in {"waits", "arms", "inside", "done", "failed"}
  /\ tries \in 0..MaxCmpTries /\ moves \in 0..MaxCmpMoves
  /\ step \in {"arms", "inside", "done"} => CmpShort
  /\ results # C!NoResults => step = "done" /\ DOMAIN measured = C!Arms /\ results = C!Results

LEMMA CmpStarts == ASSUME C!CmpInit PROVE CmpInv
PROOF
<1>1. CmpGrid
  BY SMTT(60) DEF C!CmpInit, CmpGrid, C!Axes, C!Values
<1>2. settings = C!Stand /\ step = "waits" /\ measured = <<>> /\ results = C!NoResults
  BY DEF C!CmpInit
<1>3. DOMAIN measured = {}
  BY <1>2
<1>4. CmpMeasured /\ CmpSwitches
  BY <1>2, <1>3 DEF CmpMeasured, CmpSwitches
<1>5. tries \in 0..MaxCmpTries /\ moves \in 0..MaxCmpMoves
  BY MeasuresAssumption DEF C!CmpInit
<1>. QED
  BY <1>1, <1>2, <1>4, <1>5 DEF CmpInv

(* a step that leaves the arms, the switches and what was measured alone leaves the results alone *)
LEMMA SameResults ==
  ASSUME axes' = axes, param' = param, settings' = settings, measured' = measured, shortfall' = shortfall
  PROVE  C!Results' = C!Results /\ C!Arms' = C!Arms
PROOF
<1>1. C!Arms' = C!Arms /\ \A a : C!HasReference(a)' = C!HasReference(a)
  BY DEF C!Arms, C!HasReference
<1>2. \A a : C!Procedure(a)' = C!Procedure(a)
  BY Zenon DEF C!Procedure, C!At, C!Put
<1>3. \A a : C!Reference(a)' = C!Reference(a)
  BY Zenon DEF C!Reference
<1>4. \A a, b : C!NotComparable(a, b)' = C!NotComparable(a, b)
  BY <1>2, Zenon DEF C!NotComparable, C!FieldOf
<1>5. \A a, b, w : C!Shared(a, b)' = C!Shared(a, b) /\ C!Half(a, b, w)' = C!Half(a, b, w)
  BY Zenon DEF C!Shared, C!Half
<1>6. \A a : C!Delta(a)' = C!Delta(a)
  BY <1>3, <1>4, <1>5, Zenon DEF C!Delta
<1>7. [a \in {x \in C!Arms : C!HasReference(x)} |-> C!Delta(a)]' = [a \in {x \in C!Arms : C!HasReference(x)} |-> C!Delta(a)]
  BY <1>1, <1>6, Zenon
<1>8. [a \in C!Arms |-> C!Procedure(a)]' = [a \in C!Arms |-> C!Procedure(a)]
  BY <1>1, <1>2, Zenon
<1>. QED
  BY <1>1, <1>7, <1>8, Zenon DEF C!Results

LEMMA ReferenceIsAnArm == ASSUME CmpGrid, NEW a \in C!Arms PROVE C!Reference(a) \in C!Arms
PROOF
<1>1. param \in DOMAIN axes /\ axes[param].first \in axes[param].all
  BY DEF CmpGrid
<1>2. axes[param].first \in UNION {C!Values[x] : x \in C!Axes}
  BY DEF CmpGrid
<1>. QED
  BY <1>1, <1>2 DEF C!Reference, C!Arms

LEMMA CmpStartsAgain == ASSUME CmpInv, C!Starts PROVE CmpInv'
PROOF
<1>1. CmpGrid'
  BY DEF CmpInv, C!Starts, C!given, C!stand, CmpGrid
<1>2. CmpMeasured' /\ CmpSwitches'
  <2>1. CASE measured' = measured
    BY <2>1 DEF CmpInv, C!Starts, CmpMeasured, CmpSwitches, C!Arms, C!At, C!given, C!stand
  <2>2. CASE measured' = <<>>
    <3>1. DOMAIN measured' = {}
      BY <2>2
    <3>. QED
      BY <3>1, <2>2 DEF CmpInv, C!Starts, CmpMeasured, CmpSwitches, C!Arms, C!At, C!given, C!stand
  <2>. QED
    BY <2>1, <2>2 DEF C!Starts
<1>3. step' \in {"arms", "failed"} /\ results' = results /\ tries' \in 0..MaxCmpTries /\ moves' = moves
  BY MeasuresAssumption DEF CmpInv, C!Starts, C!stand
<1>4. results = C!NoResults
  BY DEF CmpInv, C!Starts
<1>5. step' = "arms" => CmpShort'
  BY DEF C!Starts, CmpShort
<1>. QED
  BY <1>1, <1>2, <1>3, <1>4, <1>5 DEF CmpInv, C!NoResults

LEMMA CmpEnters == ASSUME CmpInv, C!Enters PROVE CmpInv'
PROOF
<1>1. CmpGrid' /\ CmpMeasured' /\ (step = "arms" => CmpShort')
  BY DEF CmpInv, C!Enters, C!given, C!stand, CmpGrid, CmpMeasured, CmpShort, C!Arms, C!At
<1>2. results' = results /\ tries' = tries /\ moves' = moves /\ step = "arms" /\ results = C!NoResults /\ C!Arms' = C!Arms
  BY DEF CmpInv, C!Enters, C!stand, C!given, C!Arms
<1>3. CmpSwitches' /\ step' \in {"inside", "failed"}
  <2>1. CASE cancelled
    BY <2>1 DEF C!Enters, C!Fail, CmpSwitches
  <2>2. CASE ~cancelled
    <3>1. \E x \in C!Arms \ DOMAIN measured : TRUE
      BY DEF CmpInv, CmpMeasured, C!Enters
    <3>2. step' = "inside" /\ arm' \in C!Arms \ DOMAIN measured /\ settings' = C!Put(arm')
      BY <2>2, <3>1 DEF C!Enters
    <3>3. settings = C!Stand /\ measured' = measured
      BY DEF C!Enters, CmpInv, CmpSwitches
    <3>4. settings' = [x \in C!Switches |-> C!At(arm', x, C!Stand[x])]
      BY <3>2, <3>3 DEF C!Put, C!At
    <3>. QED
      BY <3>2, <3>3, <3>4, <1>2 DEF CmpSwitches, C!At
  <2>. QED
    BY <2>1, <2>2
<1>. QED
  BY <1>1, <1>2, <1>3 DEF CmpInv, C!NoResults

LEMMA ReadsTheSet == ASSUME CmpGrid PROVE \A a : C!Reads(a) \subseteq Questions
PROOF
  BY DEF CmpGrid, C!Reads

LEMMA CmpMeasures == ASSUME CmpInv, C!Measures PROVE CmpInv'
PROOF
<1>0. C!Arms' = C!Arms /\ CmpGrid' /\ step = "inside" /\ step' = "arms" /\ settings' = C!Stand
  BY DEF CmpInv, C!Measures, C!given, C!stand, CmpGrid, C!Arms
<1>1. results' = results /\ tries' = tries /\ moves' = moves /\ results = C!NoResults
  BY DEF CmpInv, C!Measures, C!stand
<1>2. /\ DOMAIN measured' = DOMAIN measured \cup {arm} /\ arm \in C!Arms \ DOMAIN measured
      /\ measured'[arm].questions = C!Reads(arm) /\ measured'[arm].under = settings
      /\ \A a \in DOMAIN measured : measured'[a] = measured[a]
  BY DEF CmpInv, C!Measures, CmpSwitches
<1>3. CmpMeasured'
  <2>1. SUFFICES ASSUME NEW a \in DOMAIN measured'
        PROVE /\ a \in C!Arms /\ measured'[a].questions \subseteq Questions
              /\ measured'[a].under = [x \in C!Switches |-> C!At(a, x, C!Stand[x])]
    BY <2>1, <1>0 DEF CmpMeasured, C!At
  <2>2. CASE a = arm
    BY <2>2, <1>2, ReadsTheSet DEF CmpInv, CmpSwitches, C!Measures
  <2>3. CASE a # arm
    BY <2>3, <1>2 DEF CmpInv, CmpMeasured
  <2>. QED
    BY <2>2, <2>3
<1>4. CmpShort'
  <2>1. SUFFICES ASSUME NEW s \in shortfall' PROVE s[1] \in DOMAIN measured' /\ s[2] \in measured'[s[1]].questions
    BY <2>1 DEF CmpShort
  <2>2. CASE s \in shortfall
    BY <2>2, <1>2, <1>0 DEF CmpInv, CmpShort
  <2>3. CASE s \notin shortfall
    <3>1. PICK q \in C!Reads(arm) : s = <<arm, q>>
      BY <2>3 DEF C!Measures
    <3>. QED
      BY <3>1, <1>2
  <2>. QED
    BY <2>2, <2>3
<1>. QED
  BY <1>0, <1>1, <1>3, <1>4 DEF CmpInv, CmpSwitches, C!NoResults

LEMMA CmpBreaks == ASSUME CmpInv, C!Breaks PROVE CmpInv'
PROOF
<1>1. CmpGrid' /\ CmpMeasured' /\ CmpSwitches'
  BY DEF CmpInv, C!Breaks, C!Fail, C!given, C!stand, CmpGrid, CmpMeasured, CmpSwitches, C!Arms, C!At
<1>2. results' = results /\ tries' = tries /\ moves' = moves /\ results = C!NoResults /\ step' = "failed"
  BY DEF CmpInv, C!Breaks, C!Fail, C!stand
<1>. QED
  BY <1>1, <1>2 DEF CmpInv, C!NoResults

LEMMA CmpReports == ASSUME CmpInv, C!Reports PROVE CmpInv'
PROOF
<1>1. CmpGrid' /\ CmpMeasured' /\ CmpSwitches' /\ CmpShort'
  BY DEF CmpInv, C!Reports, C!given, C!stand, CmpGrid, CmpMeasured, CmpSwitches, CmpShort, C!Arms, C!At
<1>2. tries' = tries /\ moves' = moves /\ C!Arms' = C!Arms /\ measured' = measured /\ DOMAIN measured = C!Arms
  BY DEF C!Reports, C!stand, C!given, C!Arms
<1>3. CASE step' = "failed" /\ results' = results
  BY <1>1, <1>2, <1>3 DEF CmpInv, C!NoResults, C!Reports
<1>4. CASE step' = "done" /\ results' = C!Results
  <2>1. C!Results' = C!Results
    BY SameResults DEF C!Reports, C!given
  <2>. QED
    BY <1>1, <1>2, <1>4, <2>1 DEF CmpInv
<1>. QED
  BY <1>3, <1>4 DEF C!Reports

LEMMA CmpMoves == ASSUME CmpInv, C!Moves PROVE CmpInv'
PROOF
<1>1. CmpGrid'
  BY DEF CmpInv, C!Moves, C!given, CmpGrid
<1>2. CmpMeasured' /\ CmpSwitches' /\ (CmpShort <=> CmpShort')
  BY DEF CmpInv, C!Moves, C!given, CmpMeasured, CmpSwitches, CmpShort, C!Arms, C!At
<1>3. moves' \in 0..MaxCmpMoves /\ tries' = tries /\ step' = step /\ results' = results /\ measured' = measured
  BY MeasuresAssumption DEF CmpInv, C!Moves
<1>4. C!Arms' = C!Arms
  BY DEF C!Moves, C!given, C!Arms
<1>5. C!Results' = C!Results
  BY SameResults DEF C!Moves, C!given
<1>. QED
  BY <1>1, <1>2, <1>3, <1>4, <1>5 DEF CmpInv, C!NoResults

LEMMA CmpStep == ASSUME CmpInv, C!CmpNext \/ UNCHANGED comparison PROVE CmpInv'
PROOF
<1>1. CASE UNCHANGED comparison
  <2>1. C!Results' = C!Results /\ C!Arms' = C!Arms
    BY <1>1, SameResults DEF comparison
  <2>. QED
    BY <1>1, <2>1 DEF comparison, CmpInv, CmpGrid, CmpMeasured, CmpSwitches, CmpShort, C!At, C!NoResults
<1>. QED
  BY <1>1, CmpStartsAgain, CmpEnters, CmpMeasures, CmpBreaks, CmpReports, CmpMoves DEF C!CmpNext

(* what compare reports follows: the deltas, the reference and the shortfall are of one set and one arm *)
LEMMA CompareIsHeld == ASSUME CmpInv PROVE C!CompareHolds
PROOF
<1>1. C!CmpTypeOK
  <2>1. settings \in [C!Switches -> {"and", "or", "0", "share"}]
    <3>1. C!Switches = {"keyword_query", "max_term_share"} /\ C!Stand \in [C!Switches -> {"and", "or", "0", "share"}]
      BY DEF C!Switches, C!Stand
    <3>2. CASE step # "inside"
      BY <3>1, <3>2 DEF CmpInv, CmpSwitches
    <3>3. CASE step = "inside"
      <4>1. \A x \in C!Switches : x \in DOMAIN arm => arm[x] \in {"and", "or", "0", "share"}
        <5>1. \A x \in C!Switches : C!Values[x] \subseteq {"and", "or", "0", "share"}
          BY <3>1 DEF C!Values
        <5>. QED
          BY <5>1, <3>3 DEF CmpInv, CmpSwitches, CmpGrid, C!Arms
      <4>. QED
        BY <4>1, <3>1, <3>3 DEF CmpInv, CmpSwitches, C!At
    <3>. QED
      BY <3>2, <3>3
  <2>. QED
    BY <2>1 DEF CmpInv, CmpGrid, CmpMeasured, C!CmpTypeOK
<1>2. C!SettingsComeBack
  BY DEF CmpInv, CmpSwitches, C!SettingsComeBack
<1>3. /\ C!Results.procedure = [a \in C!Arms |-> C!Procedure(a)] /\ C!Results.arms = measured
      /\ C!Results.deltas = [a \in {x \in C!Arms : C!HasReference(x)} |-> C!Delta(a)]
      /\ C!Results.shortfall = shortfall
  BY DEF C!Results
<1>4. ASSUME NEW a \in C!Arms, step = "done" PROVE C!Procedure(a).keyword = [x \in C!Switches |-> C!At(a, x, C!Stand[x])]
  <2>1. settings = C!Stand
    BY <1>4 DEF CmpInv, CmpSwitches
  <2>2. C!Procedure(a).keyword = C!Put(a)
    BY DEF C!Procedure
  <2>. QED
    BY <2>1, <2>2 DEF C!Put, C!At
<1>5. C!ArmsUnderTheirOwn
  <2>1. \A a \in DOMAIN measured : measured[a].under = [x \in C!Switches |-> C!At(a, x, C!Stand[x])]
    BY DEF CmpInv, CmpMeasured
  <2>2. ASSUME results # C!NoResults, NEW a \in DOMAIN measured PROVE results.procedure[a].keyword = measured[a].under
    <3>1. a \in C!Arms /\ step = "done" /\ results = C!Results
      BY <2>2 DEF CmpInv, CmpMeasured
    <3>2. results.procedure[a] = C!Procedure(a)
      BY <3>1, <1>3
    <3>. QED
      BY <3>1, <3>2, <2>1, <1>4
  <2>. QED
    BY <2>1, <2>2 DEF C!ArmsUnderTheirOwn
<1>6. ASSUME results # C!NoResults, NEW a \in DOMAIN results.deltas
      PROVE /\ a \in C!Arms /\ C!Reference(a) \in C!Arms /\ a \in DOMAIN measured /\ C!Reference(a) \in DOMAIN measured
            /\ results.deltas[a] = C!Delta(a) /\ results.arms = measured /\ results.shortfall = shortfall /\ step = "done"
  <2>1. results = C!Results /\ step = "done" /\ DOMAIN measured = C!Arms
    BY <1>6 DEF CmpInv
  <2>. QED
    BY <2>1, <1>3, ReferenceIsAnArm DEF CmpInv
<1>7. \A a : /\ C!Delta(a).against = C!Reference(a) /\ C!Delta(a).apart = C!NotComparable(C!Reference(a), a)
             /\ C!Delta(a).paired = C!Shared(C!Reference(a), a)
             /\ C!Delta(a).halves["A"] = C!Half(C!Reference(a), a, "A")
             /\ C!Delta(a).halves["B"] = C!Half(C!Reference(a), a, "B")
  BY DEF C!Delta
<1>8. C!QuietDeltasDifferInOneAxis
  <2>1. ASSUME results # C!NoResults, NEW a \in DOMAIN results.deltas, results.deltas[a].apart = {}
        PROVE /\ results.arms[a].questions = results.arms[results.deltas[a].against].questions
              /\ \A x \in C!Switches \ {param} :
                   results.arms[a].under[x] = results.arms[results.deltas[a].against].under[x]
    <3>1. C!NotComparable(C!Reference(a), a) = {} /\ results.deltas[a].against = C!Reference(a) /\ results.arms = measured
      BY <2>1, <1>6, <1>7
    <3>2. C!FieldOf(param) # "questions"
      BY DEF CmpInv, CmpGrid, C!FieldOf, C!Axes, C!Values
    <3>3. C!Procedure(C!Reference(a))["questions"] = C!Procedure(a)["questions"]
      BY <3>1, <3>2 DEF C!NotComparable
    <3>4. measured[a].questions = measured[C!Reference(a)].questions
      BY <3>3 DEF C!Procedure
    <3>5. ASSUME NEW x \in C!Switches \ {param} PROVE C!At(a, x, C!Stand[x]) = C!At(C!Reference(a), x, C!Stand[x])
      BY <1>6, <2>1 DEF C!At, C!Reference, C!Arms
    <3>6. \A b \in DOMAIN measured, x \in C!Switches : measured[b].under[x] = C!At(b, x, C!Stand[x])
      BY DEF CmpInv, CmpMeasured
    <3>7. a \in DOMAIN measured /\ C!Reference(a) \in DOMAIN measured
      BY <1>6, <2>1
    <3>. QED
      BY <3>1, <3>4, <3>5, <3>6, <3>7
  <2>. QED
    BY <2>1 DEF C!QuietDeltasDifferInOneAxis
<1>9. C!HalvesPart
  <2>1. ASSUME results # C!NoResults, NEW a \in DOMAIN results.deltas
        PROVE /\ results.deltas[a].halves["A"] \cup results.deltas[a].halves["B"] = results.deltas[a].paired
              /\ \A p \in results.deltas[a].halves["A"], q \in results.deltas[a].halves["B"] : PairOf[p] # PairOf[q]
    <3>1. C!Shared(C!Reference(a), a) \subseteq Questions
      BY <2>1, <1>6 DEF CmpInv, CmpMeasured, C!Shared
    <3>2. \A q \in Questions : HalfOf[PairOf[q]] \in {"A", "B"}
      BY DEF Questions, HalfOf, PairOf
    <3>3. /\ C!Half(C!Reference(a), a, "A") \cup C!Half(C!Reference(a), a, "B") = C!Shared(C!Reference(a), a)
          /\ \A p \in C!Half(C!Reference(a), a, "A"), q \in C!Half(C!Reference(a), a, "B") : PairOf[p] # PairOf[q]
      BY <3>1, <3>2 DEF C!Half
    <3>. QED
      BY <2>1, <1>6, <1>7, <3>3
  <2>. QED
    BY <2>1 DEF C!HalvesPart
<1>10. C!ShortfallIsOfTheRun
  <2>1. ASSUME results # C!NoResults
        PROVE results.shortfall = shortfall /\ results.arms = measured /\ step = "done"
    BY <2>1, <1>3 DEF CmpInv
  <2>. QED
    BY <2>1 DEF CmpInv, CmpShort, C!ShortfallIsOfTheRun
<1>. QED
  BY <1>1, <1>2, <1>5, <1>8, <1>9, <1>10 DEF C!CompareHolds

-----------------------------------------------------------------------------
(* Gold *)

IndexShape ==
  DOMAIN index = G!Docs /\ \A d \in G!Docs : index[d] = [ver |-> index[d].ver, of |-> index[d].of, saved |-> index[d].saved]
GdShapes ==
  /\ upstream \in [G!Docs -> 1..2] /\ disk \in [G!Docs -> 0..2] /\ ledger \in [G!Docs -> [ver : 0..2, pair : 0..2]]
  /\ drawn \in [G!Docs -> {G!DrawOf(v) : v \in 0..2}] /\ behind \in [G!Docs -> SUBSET G!Steps]
  /\ DOMAIN html = G!Docs /\ DOMAIN pageGold = G!Docs /\ IndexShape /\ pages = [written |-> pages.written, of |-> pages.of]
  /\ torn \subseteq (G!Docs \X {"fetch"}) \cup (G!Docs \X {"walk"})
(* a document fetched whole has the ledger's row of the text on disk *)
GdFetched == \A d \in G!Whole("fetch") : ledger[d].ver = disk[d] /\ ledger[d].pair \in {0, ledger[d].ver}
(* a step the document is not behind in holds what the step makes of its input today; the clause of one *)
(* step reads the output of another, so that the claims about scores need all of them together          *)
GdDoneOf(d) ==
  /\ "draw" \notin behind[d] => drawn[d] = G!DrawOf(disk[d])
  /\ \A p \in G!Drawn(d) :
       /\ "gold" \notin behind[d] => golds[d][p] = G!GoldOf(d, p)
       /\ "cut" \notin behind[d] => cuts[d][p] = G!PagesOf(drawn[d][p], disk[d])
       /\ "convert" \notin behind[d] => out[d][p] = cuts[d][p]
       /\ "site" \notin behind[d] /\ d \in Sites /\ index[d].of[p] # G!Nothing =>
            index[d].of[p].title = drawn[d][p].title
GdDone == \A d \in G!Docs : GdDoneOf(d)
(* nothing a command was not asked for was spoilt *)
GdInv == GdShapes /\ GdFetched /\ GdDone /\ G!PagesAreTheirOwn /\ spoilt = {}

(* a draw of a release has its sections in the places of the model *)
LEMMA TitlesAre ==
  /\ Len(Titles) = 2 /\ DOMAIN Titles = 1..2
  /\ \A v \in 1..2 : DOMAIN Titles[v] \subseteq G!Places
  /\ \A v \in 0..2 : Len(G!DrawOf(v)) <= 2 /\ DOMAIN G!DrawOf(v) \subseteq G!Places
PROOF
<1>1. Len(Titles) = 2 /\ DOMAIN Titles = 1..2 /\ Titles[1] = <<"s1", "s2">> /\ Titles[2] = <<"s2">>
  BY DEF Titles
<1>2. G!DrawOf(1) = <<G!Section("s1", 1), G!Section("s2", 1)>>
  BY <1>1 DEF G!DrawOf
<1>3. G!DrawOf(2) = <<G!Section("s2", 2)>> /\ G!DrawOf(0) = <<>>
  BY <1>1 DEF G!DrawOf
<1>4. \A v \in 0..2 : v = 0 \/ v = 1 \/ v = 2
  OBVIOUS
<1>5. \A v \in 0..2 : Len(G!DrawOf(v)) <= 2 /\ DOMAIN G!DrawOf(v) \subseteq G!Places
  <2>1. \A v \in {0, 1, 2} : Len(G!DrawOf(v)) <= 2 /\ DOMAIN G!DrawOf(v) \subseteq 1..2
    <3>1. Len(G!DrawOf(1)) <= 2 /\ DOMAIN G!DrawOf(1) \subseteq 1..2
      <4>1. Len(G!DrawOf(1)) = 2 /\ DOMAIN G!DrawOf(1) = 1..2
        BY <1>2
      <4>2. Len(G!DrawOf(1)) <= 2
        <5>1. 2 <= 2
          OBVIOUS
        <5>. QED
          BY <4>1, <5>1, Zenon
      <4>3. DOMAIN G!DrawOf(1) \subseteq 1..2
        BY <4>1
      <4>. QED
        BY <4>2, <4>3
    <3>2. Len(G!DrawOf(2)) <= 2 /\ DOMAIN G!DrawOf(2) \subseteq 1..2
      <4>1. Len(G!DrawOf(2)) = 1 /\ DOMAIN G!DrawOf(2) = 1..1
        BY <1>3
      <4>2. Len(G!DrawOf(2)) <= 2
        BY <4>1
      <4>3. DOMAIN G!DrawOf(2) \subseteq 1..2
        BY <4>1
      <4>. QED
        BY <4>2, <4>3
    <3>3. Len(G!DrawOf(0)) <= 2 /\ DOMAIN G!DrawOf(0) \subseteq 1..2
      BY <1>3
    <3>4. SUFFICES ASSUME NEW v \in {0, 1, 2} PROVE Len(G!DrawOf(v)) <= 2 /\ DOMAIN G!DrawOf(v) \subseteq 1..2
      BY <3>4
    <3>5. CASE v = 0
      BY <3>3, <3>5, Zenon
    <3>6. CASE v = 1
      BY <3>1, <3>6, Zenon
    <3>7. CASE v = 2
      BY <3>2, <3>7, Zenon
    <3>. QED
      BY <3>5, <3>6, <3>7
  <2>. QED
    BY <2>1, <1>4 DEF G!Places
<1>. QED
  BY <1>1, <1>4, <1>5 DEF G!Places

LEMMA GdStarts == ASSUME G!GdInit PROVE GdInv
PROOF
<1>1. GdShapes
  BY SMTT(60) DEF G!GdInit, GdShapes, IndexShape, G!DrawOf
<1>2. torn = {} /\ spoilt = {} /\ \A d \in G!Docs : behind[d] = G!Steps
  BY DEF G!GdInit
<1>3. GdFetched
  BY DEF G!GdInit, GdFetched, G!Whole
<1>4. GdDone
  BY <1>2 DEF GdDone, GdDoneOf, G!Steps
<1>5. G!PagesAreTheirOwn
  <2>1. \A d \in G!Docs : DOMAIN pages.of[d] = {}
    BY DEF G!GdInit
  <2>. QED
    BY <2>1 DEF G!PagesAreTheirOwn, G!Whole
<1>. QED
  BY <1>1, <1>2, <1>3, <1>4, <1>5 DEF GdInv

(* what a converter is scored by follows *)
LEMMA GoldIsHeld == ASSUME GdInv PROVE G!GoldHolds
PROOF
<1>1. G!GdTypeOK
  BY TitlesAre DEF GdInv, GdShapes, IndexShape, G!GdTypeOK, G!Docs
<1>2. G!PairIsOfItsFiles /\ G!OthersStay /\ G!PagesAreTheirOwn
  BY DEF GdInv, GdFetched, G!PairIsOfItsFiles, G!OthersStay
<1>3. G!ScoredOnItsOwn
  <2>1. SUFFICES ASSUME NEW r \in G!Score, r.fresh
        PROVE r.found /\ r.gold.title = r.section.title /\ (r.doc \in Books => r.gold.ver = r.out.ver)
    BY <2>1 DEF G!ScoredOnItsOwn
  <2>2. PICK k \in G!Keys : ~G!Stumbles /\ r = G!ScoreRow(k[1], k[2])
    BY DEF G!Score
  <2>. DEFINE d == k[1]  p == k[2]
  <2>3. d \in G!Docs /\ p \in G!Drawn(d) /\ out[d][p] # G!Nothing /\ golds[d][p] # G!Nothing
    BY <2>2 DEF G!Keys, G!Stumbles
  <2>4. /\ r.doc = d /\ r.section = drawn[d][p] /\ r.gold = golds[d][p] /\ r.out = out[d][p]
        /\ out[d][p].title = drawn[d][p].title => r.found
        /\ r.fresh => behind[d] \ (IF d \in Books THEN {"site"} ELSE {}) = {}
    BY <2>2 DEF G!ScoreRow
  <2>5. /\ "draw" \notin behind[d] /\ "gold" \notin behind[d] /\ "cut" \notin behind[d] /\ "convert" \notin behind[d]
        /\ d \notin Books => "site" \notin behind[d]
    BY <2>1, <2>4
  <2>6. /\ drawn[d] = G!DrawOf(disk[d]) /\ golds[d][p] = G!GoldOf(d, p)
        /\ out[d][p] = G!PagesOf(drawn[d][p], disk[d])
    BY <2>3, <2>5 DEF GdInv, GdDone, GdDoneOf
  <2>7. drawn[d][p].ver = disk[d]
    BY <2>3, <2>6 DEF G!DrawOf, G!Drawn, G!Section
  <2>8. out[d][p] = drawn[d][p]
    BY <2>6, <2>7 DEF G!PagesOf
  <2>9. CASE d \in Books
    <3>1. golds[d][p] = G!Section(drawn[d][p].title, disk[d])
      BY <2>3, <2>6, <2>9, MeasuresAssumption DEF G!GoldOf
    <3>. QED
      BY <3>1, <2>4, <2>7, <2>8, <2>9 DEF G!Section
  <2>10. CASE d \notin Books
    <3>1. d \in Sites /\ golds[d][p] = index[d].of[p]
      BY <2>3, <2>6, <2>10 DEF G!GoldOf, G!Docs
    <3>2. golds[d][p].title = drawn[d][p].title
      BY <3>1, <2>3, <2>5, <2>10 DEF GdInv, GdDone, GdDoneOf
    <3>. QED
      BY <3>2, <2>4, <2>8, <2>10
  <2>. QED
    BY <2>9, <2>10
<1>. QED
  BY <1>1, <1>2, <1>3 DEF G!GoldHolds

(* a document no command touched keeps the gold of its drawn places *)
LEMMA RowsStay ==
  \A d : /\ drawn'[d] = drawn[d] /\ pages'.of[d] = pages.of[d] /\ ledger'[d] = ledger[d]
         /\ \A p \in DOMAIN drawn[d] : cuts'[d][p] = cuts[d][p] /\ golds'[d][p] = golds[d][p]
         => G!Kept(d)' = G!Kept(d)
PROOF
<1>1. SUFFICES ASSUME NEW d, drawn'[d] = drawn[d], pages'.of[d] = pages.of[d], ledger'[d] = ledger[d],
                      \A p \in DOMAIN drawn[d] : cuts'[d][p] = cuts[d][p] /\ golds'[d][p] = golds[d][p]
               PROVE G!Kept(d)' = G!Kept(d)
  BY <1>1, Zenon
<1>2. G!Drawn(d)' = G!Drawn(d)
  BY <1>1 DEF G!Drawn
<1>3. /\ [p \in G!Drawn(d) |-> cuts[d][p]]' = [p \in G!Drawn(d) |-> cuts[d][p]]
      /\ [p \in G!Drawn(d) |-> golds[d][p]]' = [p \in G!Drawn(d) |-> golds[d][p]]
  BY <1>1, <1>2 DEF G!Drawn
<1>. QED
  BY <1>1, <1>3 DEF G!Kept

LEMMA GdPublishes == ASSUME GdInv, \E d \in G!Docs : G!Publishes(d) PROVE GdInv'
PROOF
<1>1. PICK d \in G!Docs : G!Publishes(d)
  OBVIOUS
<1>2. /\ upstream' = [upstream EXCEPT ![d] = @ + 1] /\ upstream[d] < 2
      /\ UNCHANGED <<disk, ledger, drawn, cuts, index, golds, pages, html, pageGold, out, behind, spoilt, odd, torn>>
  BY <1>1, TitlesAre DEF G!Publishes
<1>3. GdShapes'
  BY <1>2 DEF GdInv, GdShapes, IndexShape
<1>4. GdFetched' /\ GdDone' /\ G!PagesAreTheirOwn' /\ spoilt' = {}
  BY <1>2 DEF GdInv, GdFetched, GdDone, GdDoneOf, G!Whole, G!Drawn, G!GoldOf, G!PagesAreTheirOwn
<1>. QED
  BY <1>3, <1>4 DEF GdInv

LEMMA GdFetches == ASSUME GdInv, \E only : G!Fetch(only) PROVE GdInv'
PROOF
<1>1. PICK only : G!Fetch(only)
  OBVIOUS
<1>. DEFINE S == G!Scope(only)
<1>2. /\ disk' = [d \in G!Docs |-> IF d \in S THEN upstream[d] ELSE disk[d]]
      /\ ledger' = [d \in G!Docs |-> IF d \in S THEN [ver |-> upstream[d], pair |-> 0] ELSE ledger[d]]
      /\ torn' = torn \ (S \X {"fetch"})
      /\ UNCHANGED <<upstream, drawn, cuts, index, golds, pages, html, pageGold, out>>
      /\ behind' = [d \in G!Docs |-> IF d \in S THEN (behind[d] \ {}) \cup G!Steps ELSE behind[d]]
      /\ spoilt' = spoilt \cup {d \in G!Docs \ S : G!Kept(d) # G!Kept(d)'}
  BY <1>1 DEF G!Fetch, G!Tells, G!Record
<1>3. GdShapes'
  BY <1>2 DEF GdInv, GdShapes, IndexShape
<1>4. GdFetched'
  BY <1>2 DEF GdInv, GdShapes, IndexShape, GdFetched, G!Whole
<1>5. GdDone'
  <2>1. SUFFICES ASSUME NEW d \in G!Docs PROVE GdDoneOf(d)'
    BY <2>1 DEF GdDone
  <2>2. CASE d \in S
    BY <2>2, <1>2 DEF G!Steps, GdDoneOf
  <2>3. CASE d \notin S
    <3>1. disk'[d] = disk[d] /\ behind'[d] = behind[d]
      BY <2>3, <1>2
    <3>. QED
      BY <3>1, <1>2 DEF GdInv, GdDone, GdDoneOf, G!Drawn, G!GoldOf
  <2>. QED
    BY <2>2, <2>3
<1>6. G!PagesAreTheirOwn'
  BY <1>2 DEF GdInv, G!PagesAreTheirOwn, G!Whole
<1>7. spoilt' = {}
  <2>1. ASSUME NEW d \in G!Docs \ S PROVE G!Kept(d)' = G!Kept(d)
    BY <1>2, RowsStay
  <2>. QED
    BY <2>1, <1>2 DEF GdInv
<1>. QED
  BY <1>3, <1>4, <1>5, <1>6, <1>7 DEF GdInv

LEMMA GdFetchesInPart == ASSUME GdInv, \E d \in G!Docs : G!FetchCutOff(d) PROVE GdInv'
PROOF
<1>1. PICK e \in G!Docs : G!FetchCutOff(e)
  OBVIOUS
<1>2. /\ disk' = [disk EXCEPT ![e] = upstream[e]] /\ torn' = torn \cup {<<e, "fetch">>}
      /\ UNCHANGED <<upstream, ledger, drawn, cuts, index, golds, pages, html, pageGold, out>>
      /\ behind' = [d \in G!Docs |-> IF d \in {e} THEN (behind[d] \ {}) \cup G!Steps ELSE behind[d]]
      /\ spoilt' = spoilt \cup {d \in G!Docs \ {e} : G!Kept(d) # G!Kept(d)'}
  BY <1>1 DEF G!FetchCutOff, G!Tells, G!Scope
<1>3. GdShapes'
  BY <1>2 DEF GdInv, GdShapes, IndexShape
<1>4. GdFetched'
  BY <1>2 DEF GdInv, GdShapes, IndexShape, GdFetched, G!Whole
<1>5. GdDone'
  <2>1. SUFFICES ASSUME NEW d \in G!Docs PROVE GdDoneOf(d)'
    BY <2>1 DEF GdDone
  <2>2. CASE d = e
    BY <2>2, <1>2 DEF G!Steps, GdDoneOf
  <2>3. CASE d # e
    <3>1. disk'[d] = disk[d] /\ behind'[d] = behind[d]
      BY <2>3, <1>2 DEF GdInv, GdShapes, IndexShape
    <3>. QED
      BY <3>1, <1>2 DEF GdInv, GdDone, GdDoneOf, G!Drawn, G!GoldOf
  <2>. QED
    BY <2>2, <2>3
<1>6. G!PagesAreTheirOwn'
  BY <1>2 DEF GdInv, G!PagesAreTheirOwn, G!Whole
<1>7. spoilt' = {}
  BY <1>2, RowsStay DEF GdInv
<1>. QED
  BY <1>3, <1>4, <1>5, <1>6, <1>7 DEF GdInv

LEMMA GdPairs == ASSUME GdInv, \E only : G!Pairs(only) PROVE GdInv'
PROOF
<1>1. PICK only : G!Pairs(only)
  OBVIOUS
<1>. DEFINE S == G!Scope(only)
<1>2. /\ ledger' = [d \in G!Docs |-> IF d \in S \cap Books /\ disk[d] # 0 THEN [ledger[d] EXCEPT !.pair = disk[d]]
                                     ELSE ledger[d]]
      /\ UNCHANGED <<upstream, disk, drawn, cuts, index, golds, pages, html, pageGold, out, torn>>
      /\ behind' = [d \in G!Docs |-> IF d \in S THEN (behind[d] \ {}) \cup {} ELSE behind[d]]
      /\ spoilt' = spoilt \cup {d \in G!Docs \ S : G!Kept(d) # G!Kept(d)'}
  BY <1>1 DEF G!Pairs, G!Tells
<1>3. GdShapes'
  BY <1>2 DEF GdInv, GdShapes, IndexShape
<1>4. GdFetched'
  BY <1>2 DEF GdInv, GdShapes, IndexShape, GdFetched, G!Whole
<1>5. GdDone'
  <2>1. behind' = behind
    BY <1>2 DEF GdInv, GdShapes, IndexShape
  <2>. QED
    BY <2>1, <1>2 DEF GdInv, GdDone, GdDoneOf, G!Drawn, G!GoldOf
<1>6. G!PagesAreTheirOwn'
  BY <1>2 DEF GdInv, G!PagesAreTheirOwn, G!Whole
<1>7. spoilt' = {}
  <2>1. ASSUME NEW d \in G!Docs \ S PROVE G!Kept(d)' = G!Kept(d)
    BY <1>2, RowsStay
  <2>. QED
    BY <2>1, <1>2 DEF GdInv
<1>. QED
  BY <1>3, <1>4, <1>5, <1>6, <1>7 DEF GdInv

LEMMA GdDraws == ASSUME GdInv, \E only : G!Draw(only) PROVE GdInv'
PROOF
<1>1. PICK only : G!Draw(only)
  OBVIOUS
<1>. DEFINE S == G!Scope(only)
<1>2. /\ drawn' = [d \in G!Docs |-> IF d \in S THEN G!DrawOf(disk[d]) ELSE drawn[d]]
      /\ UNCHANGED <<upstream, disk, ledger, cuts, index, golds, pages, html, pageGold, out, torn>>
      /\ behind' = [d \in G!Docs |-> IF d \in S THEN (behind[d] \ {"draw"}) \cup {"site", "cut", "gold", "convert"}
                                     ELSE behind[d]]
      /\ spoilt' = spoilt \cup {d \in G!Docs \ S : G!Kept(d) # G!Kept(d)'}
  BY <1>1 DEF G!Draw, G!Redrawn, G!DrawnBeside, G!Tells
<1>3. GdShapes'
  BY <1>2 DEF GdInv, GdShapes, IndexShape, G!Steps
<1>4. GdFetched'
  BY <1>2 DEF GdInv, GdShapes, IndexShape, GdFetched, G!Whole
<1>5. GdDone'
  <2>1. SUFFICES ASSUME NEW d \in G!Docs PROVE GdDoneOf(d)'
    BY <2>1 DEF GdDone
  <2>2. CASE d \in S
    BY <2>2, <1>2 DEF GdDoneOf
  <2>3. CASE d \notin S
    <3>1. drawn'[d] = drawn[d] /\ behind'[d] = behind[d]
      BY <2>3, <1>2
    <3>. QED
      BY <3>1, <1>2 DEF GdInv, GdDone, GdDoneOf, G!Drawn, G!GoldOf
  <2>. QED
    BY <2>2, <2>3
<1>6. G!PagesAreTheirOwn'
  BY <1>2 DEF GdInv, G!PagesAreTheirOwn, G!Whole
<1>7. spoilt' = {}
  <2>1. ASSUME NEW d \in G!Docs \ S PROVE G!Kept(d)' = G!Kept(d)
    BY <1>2, RowsStay
  <2>. QED
    BY <2>1, <1>2 DEF GdInv
<1>. QED
  BY <1>3, <1>4, <1>5, <1>6, <1>7 DEF GdInv

LEMMA GdCuts == ASSUME GdInv, \E only : G!Cut(only) PROVE GdInv'
PROOF
<1>1. PICK only : G!Cut(only)
  OBVIOUS
<1>. DEFINE S == G!Scope(only)
<1>2. /\ cuts' = [d \in G!Docs |-> [p \in G!Places |->
                   IF p \notin G!Drawn(d) THEN G!Nothing
                   ELSE IF d \in S THEN G!PagesOf(drawn[d][p], disk[d]) ELSE cuts[d][p]]]
      /\ UNCHANGED <<upstream, disk, ledger, drawn, index, golds, pages, html, pageGold, out, torn>>
      /\ behind' = [d \in G!Docs |-> IF d \in S THEN (behind[d] \ {"cut"}) \cup {"convert"} ELSE behind[d]]
      /\ spoilt' = spoilt \cup {d \in G!Docs \ S : G!Kept(d) # G!Kept(d)'}
  BY <1>1 DEF G!Cut, G!Tells
<1>3. GdShapes'
  BY <1>2 DEF GdInv, GdShapes, IndexShape, G!Steps
<1>4. GdFetched'
  BY <1>2 DEF GdInv, GdShapes, IndexShape, GdFetched, G!Whole
<1>5. \A d \in G!Docs : G!Drawn(d) \subseteq G!Places
  BY TitlesAre DEF GdInv, GdShapes, IndexShape, G!Drawn
<1>6. GdDone'
  <2>1. SUFFICES ASSUME NEW d \in G!Docs PROVE GdDoneOf(d)'
    BY <2>1 DEF GdDone
  <2>2. \A p \in G!Drawn(d) : cuts'[d][p] = IF d \in S THEN G!PagesOf(drawn[d][p], disk[d]) ELSE cuts[d][p]
    BY <1>2, <1>5
  <2>. QED
    BY <2>2, <1>2 DEF GdInv, GdDone, GdDoneOf, G!Drawn, G!GoldOf
<1>7. G!PagesAreTheirOwn'
  BY <1>2 DEF GdInv, G!PagesAreTheirOwn, G!Whole
<1>8. spoilt' = {}
  <2>1. ASSUME NEW d \in G!Docs \ S PROVE G!Kept(d)' = G!Kept(d)
    <3>1. \A p \in DOMAIN drawn[d] : cuts'[d][p] = cuts[d][p]
      BY <1>2, <1>5 DEF G!Drawn
    <3>. QED
      BY <3>1, <1>2, RowsStay
  <2>. QED
    BY <2>1, <1>2 DEF GdInv
<1>. QED
  BY <1>3, <1>4, <1>6, <1>7, <1>8 DEF GdInv

LEMMA GdConverts == ASSUME GdInv, G!Converts PROVE GdInv'
PROOF
<1>1. /\ out' = cuts
      /\ UNCHANGED <<upstream, disk, ledger, drawn, cuts, index, golds, pages, html, pageGold, torn>>
      /\ behind' = [d \in G!Docs |-> (behind[d] \ {"convert"}) \cup {}]
      /\ spoilt' = spoilt \cup {d \in G!Docs \ G!Docs : G!Kept(d) # G!Kept(d)'}
  BY DEF G!Converts, G!Tells, G!Scope
<1>2. GdShapes'
  BY <1>1 DEF GdInv, GdShapes, IndexShape, G!Steps
<1>3. GdFetched' /\ spoilt' = {}
  BY <1>1 DEF GdInv, GdShapes, IndexShape, GdFetched, G!Whole
<1>4. GdDone'
  BY <1>1 DEF GdInv, GdDone, GdDoneOf, G!Drawn, G!GoldOf
<1>5. G!PagesAreTheirOwn'
  BY <1>1 DEF GdInv, G!PagesAreTheirOwn, G!Whole
<1>. QED
  BY <1>2, <1>3, <1>4, <1>5 DEF GdInv

(* pages whose rows are their own *)
OwnPages(walk) ==
  \A p \in DOMAIN walk : /\ walk[p].page = G!Section(walk[p].row.title, walk[p].row.html)
                         /\ walk[p].gold.title = walk[p].row.title
LEMMA HtmlIsOwn == ASSUME NEW d PROVE OwnPages(G!HtmlPages(d))
<1>1. ASSUME NEW p \in DOMAIN G!HtmlPages(d)
      PROVE  \E s : G!HtmlPages(d)[p] =
               G!Taken(G!PageRow(s.title, ledger[d].ver, upstream[d]), G!Section(s.title, upstream[d]), s)
  BY <1>1 DEF G!HtmlPages
<1>. QED
  BY <1>1 DEF OwnPages, G!Taken, G!PageRow
LEMMA SiteIsOwn == ASSUME NEW d PROVE OwnPages(G!SitePages(d))
<1>1. ASSUME NEW p \in DOMAIN G!SitePages(d)
      PROVE  \E t, v : G!SitePages(d)[p] = G!Taken(G!PageRow(t, 0, v), G!Section(t, v), G!Section(t, v))
  BY <1>1 DEF G!SitePages
<1>. QED
  BY <1>1 DEF OwnPages, G!Taken, G!PageRow, G!Section

(* a walk of some documents leaves their rows, pages and golds of each other, and the others' alone *)
LEMMA WalkKeeps ==
  ASSUME GdInv, NEW walks, G!Walks(walks), \A d \in DOMAIN walks : OwnPages(walks[d])
  PROVE  /\ pages' = [written |-> pages'.written, of |-> pages'.of] /\ DOMAIN html' = G!Docs /\ DOMAIN pageGold' = G!Docs
         /\ torn' \subseteq torn /\ \A d \in G!Docs : <<d, "fetch">> \in torn' <=> <<d, "fetch">> \in torn
         /\ \A d \in G!Docs \ DOMAIN walks : pages'.of[d] = pages.of[d]
         /\ G!PagesAreTheirOwn'
<1>1. /\ pages' = [written |-> pages'.written, of |-> pages'.of] /\ DOMAIN html' = G!Docs /\ DOMAIN pageGold' = G!Docs
      /\ torn' = torn \ ((DOMAIN walks) \X {"walk"})
  BY DEF G!Walks
<1>2. ASSUME NEW d \in G!Docs, d \in DOMAIN walks
      PROVE  /\ pages'.of[d] = G!Of(walks[d], "row")
             /\ html'[d] = G!Over(html[d], G!Of(walks[d], "page"))
             /\ pageGold'[d] = G!Over(pageGold[d], G!Of(walks[d], "gold"))
  BY <1>2 DEF G!Walks
<1>3. ASSUME NEW d \in G!Docs, d \notin DOMAIN walks
      PROVE  pages'.of[d] = pages.of[d] /\ html'[d] = html[d] /\ pageGold'[d] = pageGold[d]
  BY <1>3 DEF G!Walks
<1>4. torn' \subseteq torn /\ \A d \in G!Docs : <<d, "fetch">> \in torn' <=> <<d, "fetch">> \in torn
  BY <1>1
<1>5. G!PagesAreTheirOwn'
  <2>1. SUFFICES ASSUME NEW d \in G!Docs, <<d, "walk">> \notin torn', NEW p \in G!Places, p \in DOMAIN pages'.of[d]
        PROVE /\ html'[d][p] = G!Section(pages'.of[d][p].title, pages'.of[d][p].html)
              /\ pageGold'[d][p].title = pages'.of[d][p].title
    BY <2>1 DEF G!PagesAreTheirOwn, G!Whole
  <2>2. CASE d \in DOMAIN walks
    <3>1. /\ p \in DOMAIN walks[d] /\ pages'.of[d][p] = walks[d][p].row
          /\ G!Of(walks[d], "page")[p] = walks[d][p].page /\ G!Of(walks[d], "gold")[p] = walks[d][p].gold
          /\ p \in DOMAIN G!Of(walks[d], "page") /\ p \in DOMAIN G!Of(walks[d], "gold")
      BY <2>1, <2>2, <1>2 DEF G!Of
    <3>2. html'[d][p] = walks[d][p].page /\ pageGold'[d][p] = walks[d][p].gold
      BY <2>2, <1>2, <3>1 DEF G!Over
    <3>. QED
      BY <2>2, <3>1, <3>2 DEF OwnPages
  <2>3. CASE d \notin DOMAIN walks
    <3>1. <<d, "walk">> \notin torn
      BY <2>1, <2>3, <1>1
    <3>. QED
      BY <2>1, <2>3, <3>1, <1>3 DEF GdInv, G!PagesAreTheirOwn, G!Whole
  <2>. QED
    BY <2>2, <2>3
<1>. QED
  BY <1>1, <1>3, <1>4, <1>5

LEMMA GdWalks == ASSUME GdInv, \E only : G!Html(only) PROVE GdInv'
PROOF
<1>1. PICK only : G!Html(only)
  OBVIOUS
<1>. DEFINE S == G!Scope(only)
            W == [d \in S \cap Books |-> G!HtmlPages(d)]
<1>2. /\ G!Walks(W) /\ UNCHANGED <<upstream, disk, ledger, drawn, cuts, index, golds, out>>
      /\ behind' = [d \in G!Docs |-> IF d \in S THEN (behind[d] \ {}) \cup {} ELSE behind[d]]
      /\ spoilt' = spoilt \cup {d \in G!Docs \ S : G!Kept(d) # G!Kept(d)'}
  BY <1>1, Zenon DEF G!Html, G!Tells
<1>3. behind' = behind
  BY <1>2 DEF GdInv, GdShapes, IndexShape
<1>4. /\ pages' = [written |-> pages'.written, of |-> pages'.of] /\ DOMAIN html' = G!Docs /\ DOMAIN pageGold' = G!Docs
      /\ torn' \subseteq torn /\ \A d \in G!Docs : <<d, "fetch">> \in torn' <=> <<d, "fetch">> \in torn
      /\ \A d \in G!Docs \ S : pages'.of[d] = pages.of[d]
      /\ G!PagesAreTheirOwn'
  <2>1. DOMAIN W = S \cap Books /\ \A d \in DOMAIN W : OwnPages(W[d])
    BY HtmlIsOwn
  <2>. HIDE DEF W
  <2>. QED
    BY <2>1, <1>2, WalkKeeps
<1>5. GdShapes'
  BY <1>2, <1>3, <1>4 DEF GdInv, GdShapes, IndexShape
<1>6. GdFetched'
  BY <1>2, <1>4 DEF GdInv, GdFetched, G!Whole
<1>7. GdDone'
  BY <1>2, <1>3 DEF GdInv, GdDone, GdDoneOf, G!Drawn, G!GoldOf
<1>8. spoilt' = {}
  BY <1>2, <1>4, RowsStay DEF GdInv
<1>. QED
  BY <1>4, <1>5, <1>6, <1>7, <1>8 DEF GdInv

LEMMA GdWalksInPart == ASSUME GdInv, \E d \in Books : G!HtmlCutOff(d) PROVE GdInv'
PROOF
<1>1. PICK e \in Books : G!HtmlCutOff(e)
  OBVIOUS
<1>2. /\ torn' = torn \cup {<<e, "walk">>} /\ \A d : d # e => html'[d] = html[d]
      /\ DOMAIN html' = DOMAIN html
      /\ UNCHANGED <<upstream, disk, ledger, drawn, cuts, index, golds, pages, pageGold, out, behind, spoilt>>
  BY <1>1 DEF G!HtmlCutOff
<1>3. GdShapes'
  BY <1>2 DEF GdInv, GdShapes, IndexShape, G!Docs
<1>4. GdFetched' /\ GdDone' /\ spoilt' = {}
  BY <1>2 DEF GdInv, GdFetched, G!Whole, GdDone, GdDoneOf, G!Drawn, G!GoldOf
<1>5. G!PagesAreTheirOwn'
  BY <1>2 DEF GdInv, G!PagesAreTheirOwn, G!Whole
<1>. QED
  BY <1>3, <1>4, <1>5 DEF GdInv

(* the index a walk leaves has each place's page under the title the place was matched by *)
LEMMA IndexedByTitle ==
  ASSUME GdInv, NEW d \in G!Docs, NEW titles, NEW p \in G!Drawn(d), G!Indexed(d, titles).of[p] # G!Nothing
  PROVE  G!Indexed(d, titles).of[p].title = drawn[d][p].title
<1>1. G!Drawn(d) \subseteq G!Places
  BY TitlesAre DEF GdInv, GdShapes, IndexShape, G!Drawn
<1>2. \E ver : G!Indexed(d, titles).of[p] \in {G!Section(drawn[d][p].title, ver), G!Nothing}
  BY <1>1 DEF G!Indexed, G!Places_
<1>. QED
  BY <1>2 DEF G!Section

LEMMA GdSites == ASSUME GdInv, \E only : G!Site(only) PROVE GdInv'
PROOF
<1>1. PICK only : G!Site(only)
  OBVIOUS
<1>. DEFINE S == G!Scope(only)
            W == [d \in S \cap Sites |-> G!SitePages(d)]
<1>2. /\ index' = [d \in G!Docs |-> IF d \in S \cap Sites THEN G!Indexed(d, G!Shown(G!Listed(d))) ELSE index[d]]
      /\ G!Walks(W) /\ UNCHANGED <<upstream, disk, ledger, drawn, cuts, golds, out>>
      /\ behind' = [d \in G!Docs |-> IF d \in S THEN (behind[d] \ {"site"}) \cup {"gold"} ELSE behind[d]]
      /\ spoilt' = spoilt \cup {d \in G!Docs \ S : G!Kept(d) # G!Kept(d)'}
  BY <1>1, Zenon DEF G!Site, G!Tells
<1>3. /\ pages' = [written |-> pages'.written, of |-> pages'.of] /\ DOMAIN html' = G!Docs /\ DOMAIN pageGold' = G!Docs
      /\ torn' \subseteq torn /\ \A d \in G!Docs : <<d, "fetch">> \in torn' <=> <<d, "fetch">> \in torn
      /\ \A d \in G!Docs \ S : pages'.of[d] = pages.of[d]
      /\ G!PagesAreTheirOwn'
  <2>1. DOMAIN W = S \cap Sites /\ \A d \in DOMAIN W : OwnPages(W[d])
    BY SiteIsOwn
  <2>. HIDE DEF W
  <2>. QED
    BY <2>1, <1>2, WalkKeeps
<1>4. GdShapes'
  <2>1. behind' \in [G!Docs -> SUBSET G!Steps]
    BY <1>2 DEF GdInv, GdShapes, IndexShape, G!Steps
  <2>2. IndexShape'
    <3>1. \A t : \A d \in G!Docs : G!Indexed(d, t) = [ver |-> G!Indexed(d, t).ver, of |-> G!Indexed(d, t).of,
                                                  saved |-> G!Indexed(d, t).saved]
      BY DEF G!Indexed
    <3>. QED
      BY <3>1, <1>2 DEF IndexShape, GdInv, GdShapes
  <2>. HIDE DEF W
  <2>. QED
    BY <2>1, <2>2, <1>2, <1>3 DEF GdInv, GdShapes
<1>5. GdFetched'
  BY <1>2, <1>3 DEF GdInv, GdFetched, G!Whole
<1>6. GdDone'
  <2>1. SUFFICES ASSUME NEW d \in G!Docs PROVE GdDoneOf(d)'
    BY <2>1 DEF GdDone
  <2>2. CASE d \notin S
    <3>1. index'[d] = index[d] /\ behind'[d] = behind[d]
      BY <2>2, <1>2
    <3>. QED
      BY <3>1, <1>2 DEF GdInv, GdDone, GdDoneOf, G!Drawn, G!GoldOf
  <2>3. CASE d \in S
    <3>1. "gold" \in behind'[d] /\ \A s \in {"draw", "cut", "convert"} : s \notin behind'[d] => s \notin behind[d]
      BY <2>3, <1>2
    <3>2. ASSUME d \in Sites, NEW p \in G!Drawn(d), index'[d].of[p] # G!Nothing
          PROVE  index'[d].of[p].title = drawn[d][p].title
      <4>1. index'[d] = G!Indexed(d, G!Shown(G!Listed(d)))
        BY <2>3, <3>2, <1>2
      <4>. QED
        BY <4>1, <3>2, IndexedByTitle
    <3>. QED
      BY <3>1, <3>2, <1>2 DEF GdInv, GdDone, GdDoneOf, G!Drawn
  <2>. QED
    BY <2>2, <2>3
<1>7. spoilt' = {}
  BY <1>2, <1>3, RowsStay DEF GdInv
<1>. QED
  BY <1>3, <1>4, <1>5, <1>6, <1>7 DEF GdInv

LEMMA GdSitesInPart == ASSUME GdInv, \E d \in Sites : G!SiteCutOff(d) PROVE GdInv'
PROOF
<1>1. PICK e \in Sites : G!SiteCutOff(e)
  OBVIOUS
<1>2. e \in G!Docs /\ G!Scope({e}) = {e}
  BY DEF G!Docs, G!Scope
<1>3. /\ UNCHANGED <<upstream, disk, ledger, drawn, cuts, golds, pages, out>>
      /\ behind' = [d \in G!Docs |-> IF d \in G!Scope({e}) THEN (behind[d] \ {}) \cup {"gold"} ELSE behind[d]]
      /\ spoilt' = spoilt \cup {d \in G!Docs \ G!Scope({e}) : G!Kept(d) # G!Kept(d)'}
  BY <1>1, Zenon DEF G!SiteCutOff, G!Tells
<1>. DEFINE Early == \E n \in DOMAIN drawn[e] : index' = [index EXCEPT ![e].saved = G!Saved(e, G!Matched(e, n))]
            Late == /\ \E titles : index' = [index EXCEPT ![e] = G!Indexed(e, titles)]
                    /\ \E walk : html' = [html EXCEPT ![e] = G!Over(html[e], G!Of(walk, "page"))]
                    /\ \E walk : pageGold' = [pageGold EXCEPT ![e] = G!Over(pageGold[e], G!Of(walk, "gold"))]
                    /\ torn' = torn \cup {<<e, "walk">>}
<1>a. (Early /\ UNCHANGED <<html, pageGold, torn>>) \/ Late
  BY <1>1 DEF G!SiteCutOff
<1>4. /\ DOMAIN html' = DOMAIN html /\ DOMAIN pageGold' = DOMAIN pageGold
      /\ \A d \in G!Docs : <<d, "fetch">> \in torn' <=> <<d, "fetch">> \in torn
      /\ torn \subseteq torn' /\ torn' \subseteq torn \cup {<<e, "walk">>}
      /\ \A d \in G!Docs : d # e => html'[d] = html[d]
      /\ \A d \in G!Docs : d # e => pageGold'[d] = pageGold[d]
      /\ (html' = html /\ pageGold' = pageGold) \/ <<e, "walk">> \in torn'
  <2>1. \A d \in G!Docs : d # e => pageGold'[d] = pageGold[d]
    BY <1>a DEF GdInv, GdShapes, IndexShape
  <2>. QED
    BY <2>1, <1>a DEF GdInv, GdShapes, IndexShape
<1>b. /\ DOMAIN index' = G!Docs /\ \A d \in G!Docs : d # e => index'[d] = index[d]
      /\ \/ index'[e].of = index[e].of /\ index'[e] = [ver |-> index'[e].ver, of |-> index'[e].of, saved |-> index'[e].saved]
         \/ \E titles : index'[e] = G!Indexed(e, titles)
  <2>1. DOMAIN index = G!Docs
    BY DEF GdInv, GdShapes, IndexShape
  <2>2. CASE Early
    <3>1. PICK saved : index' = [index EXCEPT ![e].saved = saved]
      BY <2>2
    <3>2. index[e] = [ver |-> index[e].ver, of |-> index[e].of, saved |-> index[e].saved]
      BY <1>2 DEF GdInv, GdShapes, IndexShape
    <3>. QED
      BY <3>1, <3>2, <2>1, <1>2
  <2>3. CASE Late
    BY <2>1, <2>3, <1>2
  <2>. QED
    BY <1>a, <2>2, <2>3
<1>c. IndexShape'
  <2>1. \A titles : G!Indexed(e, titles) = [ver |-> G!Indexed(e, titles).ver, of |-> G!Indexed(e, titles).of,
                                           saved |-> G!Indexed(e, titles).saved]
    BY DEF G!Indexed
  <2>. QED
    BY <1>b, <2>1 DEF IndexShape, GdInv, GdShapes
<1>5. GdShapes'
  <2>1. behind' \in [G!Docs -> SUBSET G!Steps]
    BY <1>3 DEF GdInv, GdShapes, IndexShape, G!Steps
  <2>2. torn' \subseteq (G!Docs \X {"fetch"}) \cup (G!Docs \X {"walk"})
    BY <1>2, <1>4 DEF GdInv, GdShapes
  <2>. HIDE DEF Early, Late
  <2>. QED
    BY <2>1, <2>2, <1>3, <1>4, <1>c DEF GdInv, GdShapes
<1>6. GdFetched'
  BY <1>3, <1>4 DEF GdInv, GdFetched, G!Whole
<1>7. GdDone'
  <2>1. SUFFICES ASSUME NEW d \in G!Docs PROVE GdDoneOf(d)'
    BY <2>1 DEF GdDone
  <2>2. CASE d # e
    <3>1. index'[d] = index[d] /\ behind'[d] = behind[d]
      BY <2>2, <1>2, <1>3, <1>b
    <3>. QED
      BY <3>1, <1>3 DEF GdInv, GdDone, GdDoneOf, G!Drawn, G!GoldOf
  <2>3. CASE d = e
    <3>1. "gold" \in behind'[d] /\ \A s \in {"draw", "cut", "convert", "site"} : s \notin behind'[d] => s \notin behind[d]
      BY <2>3, <1>2, <1>3
    <3>2. ASSUME "site" \notin behind'[d], NEW p \in G!Drawn(d), index'[d].of[p] # G!Nothing
          PROVE  index'[d].of[p].title = drawn[d][p].title
      <4>1. CASE index'[e].of = index[e].of
        BY <4>1, <2>3, <3>1, <3>2 DEF GdInv, GdDone, GdDoneOf
      <4>2. ASSUME NEW titles, index'[e] = G!Indexed(e, titles) PROVE index'[d].of[p].title = drawn[d][p].title
        BY <4>2, <2>3, <3>2, IndexedByTitle
      <4>. QED
        BY <4>1, <4>2, <1>b
    <3>. QED
      BY <3>1, <3>2, <1>3 DEF GdInv, GdDone, GdDoneOf, G!Drawn
  <2>. QED
    BY <2>2, <2>3
<1>8. G!PagesAreTheirOwn'
  <2>1. ASSUME NEW d \in G!Docs, <<d, "walk">> \notin torn'
        PROVE  <<d, "walk">> \notin torn /\ html'[d] = html[d] /\ pageGold'[d] = pageGold[d]
    BY <2>1, <1>4
  <2>. QED
    BY <2>1, <1>3 DEF GdInv, G!PagesAreTheirOwn, G!Whole
<1>9. spoilt' = {}
  BY <1>2, <1>3, RowsStay DEF GdInv
<1>. QED
  BY <1>5, <1>6, <1>7, <1>8, <1>9 DEF GdInv

LEMMA GdMakesGold == ASSUME GdInv, \E only : G!MakeGold(only) PROVE GdInv'
PROOF
<1>1. PICK only : G!MakeGold(only)
  OBVIOUS
<1>. DEFINE S == G!Scope(only)
<1>2. /\ golds' = [d \in G!Docs |-> [p \in G!Places |-> G!GoldKept(only, d, p)]]
      /\ pageGold' = [d \in G!Docs |-> [p \in G!Places |-> G!Rebuilt(only, d, p)]]
      /\ UNCHANGED <<upstream, disk, ledger, drawn, cuts, index, pages, html, out, torn>>
      /\ behind' = [d \in G!Docs |-> IF d \in S THEN (behind[d] \ {"gold"}) \cup {} ELSE behind[d]]
      /\ spoilt' = spoilt \cup {d \in G!Docs \ S : G!Kept(d) # G!Kept(d)'}
  BY <1>1, Zenon DEF G!MakeGold, G!NewGold, G!Tells
<1>3. GdShapes'
  BY <1>2 DEF GdInv, GdShapes, IndexShape, G!Steps
<1>4. GdFetched'
  BY <1>2 DEF GdInv, GdFetched, G!Whole
<1>5. \A d \in G!Docs : G!Drawn(d) \subseteq G!Places
  BY TitlesAre DEF GdInv, GdShapes, IndexShape, G!Drawn
<1>6. ASSUME NEW d \in G!Docs, NEW p \in G!Drawn(d)
      PROVE golds'[d][p] = IF d \in S THEN G!GoldOf(d, p) ELSE golds[d][p]
  <2>1. golds'[d][p] = G!GoldKept(only, d, p)
    BY <1>2, <1>5
  <2>2. CASE d \in S
    BY <2>1, <2>2 DEF G!GoldKept, G!MadeNow
  <2>3. CASE d \notin S
    <3>1. only # {}
      BY <2>3 DEF G!Scope
    <3>. QED
      BY <2>1, <2>3, <3>1 DEF G!GoldKept, G!MadeNow
  <2>. QED
    BY <2>2, <2>3
<1>7. GdDone'
  <2>1. SUFFICES ASSUME NEW d \in G!Docs PROVE GdDoneOf(d)'
    BY <2>1 DEF GdDone
  <2>2. \A p : G!GoldOf(d, p)' = G!GoldOf(d, p)
    BY <1>2 DEF G!GoldOf
  <2>3. G!Drawn(d)' = G!Drawn(d)
    BY <1>2 DEF G!Drawn
  <2>4. GdDoneOf(d)
    BY DEF GdInv, GdDone
  <2>5. behind'[d] = IF d \in S THEN behind[d] \ {"gold"} ELSE behind[d]
    BY <1>2
  <2>6. ASSUME NEW p \in G!Drawn(d), "gold" \notin behind'[d] PROVE golds'[d][p] = G!GoldOf(d, p)
    BY <2>4, <2>5, <2>6, <1>6 DEF GdDoneOf
  <2>7. ("draw" \notin behind[d] => drawn[d] = G!DrawOf(disk[d]))'
    BY <2>4, <2>5, <1>2 DEF GdDoneOf
  <2>8. (\A p \in G!Drawn(d) :
          /\ "cut" \notin behind[d] => cuts[d][p] = G!PagesOf(drawn[d][p], disk[d])
          /\ "convert" \notin behind[d] => out[d][p] = cuts[d][p]
          /\ "site" \notin behind[d] /\ d \in Sites /\ index[d].of[p] # G!Nothing =>
               index[d].of[p].title = drawn[d][p].title)'
    BY <2>4, <2>5, <2>3, <1>2 DEF GdDoneOf
  <2>. QED
    BY <2>2, <2>3, <2>6, <2>7, <2>8, Zenon DEF GdDoneOf
<1>8. G!PagesAreTheirOwn'
  <2>1. SUFFICES ASSUME NEW d \in G!Docs, <<d, "walk">> \notin torn, NEW p \in G!Places, p \in DOMAIN pages.of[d]
        PROVE /\ html[d][p] = G!Section(pages.of[d][p].title, pages.of[d][p].html)
              /\ pageGold'[d][p].title = pages.of[d][p].title
    BY <2>1, <1>2 DEF G!PagesAreTheirOwn, G!Whole
  <2>2. /\ html[d][p] = G!Section(pages.of[d][p].title, pages.of[d][p].html)
        /\ pageGold[d][p].title = pages.of[d][p].title
    BY <2>1 DEF GdInv, G!PagesAreTheirOwn, G!Whole
  <2>3. pageGold'[d][p] = G!Rebuilt(only, d, p)
    BY <1>2
  <2>4. G!Rebuilt(only, d, p) \in {pageGold[d][p], html[d][p], G!Section(pages.of[d][p].title, disk[d])}
    BY DEF G!Rebuilt
  <2>. QED
    BY <2>2, <2>3, <2>4 DEF G!Section
<1>9. spoilt' = {}
  <2>1. ASSUME NEW d \in G!Docs \ S PROVE G!Kept(d)' = G!Kept(d)
    <3>1. \A p \in DOMAIN drawn[d] : golds'[d][p] = golds[d][p]
      BY <1>6 DEF G!Drawn
    <3>. QED
      BY <3>1, <1>2, RowsStay
  <2>. QED
    BY <2>1, <1>2 DEF GdInv
<1>. QED
  BY <1>3, <1>4, <1>7, <1>8, <1>9 DEF GdInv

LEMMA GdStep == ASSUME GdInv, G!GdNext \/ UNCHANGED standard PROVE GdInv'
PROOF
<1>1. CASE UNCHANGED standard
  BY <1>1 DEF standard, GdInv, GdShapes, IndexShape, GdFetched, GdDone, GdDoneOf, G!Whole, G!Drawn, G!GoldOf, G!PagesAreTheirOwn
<1>2. ASSUME NEW d \in G!Docs, \/ G!Publishes(d) \/ G!FetchCutOff(d) \/ (d \in Books /\ G!HtmlCutOff(d))
                            \/ (d \in Sites /\ G!SiteCutOff(d)) PROVE GdInv'
  BY <1>2, GdPublishes, GdFetchesInPart, GdWalksInPart, GdSitesInPart, Zenon
<1>3. ASSUME NEW only, G!Fetch(only) \/ G!Pairs(only) \/ G!Draw(only) \/ G!Cut(only) \/ G!Html(only)
                         \/ G!Site(only) \/ G!MakeGold(only)
      PROVE GdInv'
  BY <1>3, GdFetches, GdPairs, GdDraws, GdCuts, GdWalks, GdSites, GdMakesGold, Zenon
<1>. QED
  BY <1>1, <1>2, <1>3, GdConverts DEF G!GdNext

-----------------------------------------------------------------------------
(* Residency *)

Judges == Seats \cup Named
VerdictRow == [run : R!Judged, engine : {"o", "v"}, model : Judges, id : Nat, whole : BOOLEAN, began : Nat,
               vetted : Judges \cup {R!Nothing}, load : Nat]
JobShape == [kind : {"judge", "named", "run", "convert"}, run : R!Judged, model : Named \cup {R!Role},
             status : {"new", "running", "ended"}, starts : Nat]
PassShape == [job : {0} \cup DOMAIN jobs, step : {"none", "card", "seat", "row", "call", "stamp"},
              vetted : Judges \cup {R!Nothing}, seated : Judges \cup {R!Nothing},
              id : Nat, whole : BOOLEAN, at : Nat]
RsShapes ==
  /\ seat \in Seats /\ card \in Judges \cup {Generator, Converter, R!Nothing} /\ load \in Nat /\ began \in Nat
  /\ \E n \in Nat :
       jobs \in [1..n -> JobShape]
  /\ pass \in PassShape
  /\ pass.job = 0 <=> pass.step = "none"
  /\ pass.job # 0 => jobs[pass.job].kind \in {"judge", "named"}
  /\ rows \in Seq(VerdictRow)
(* a pass let in was let in for the engine its run's verdicts, those that were, are of *)
RsEngines ==
  /\ R!RunIsOneEngine /\ \A i \in DOMAIN rows : rows[i].engine = R!Engine(rows[i].model)
  /\ pass.job # 0 /\ pass.vetted # R!Nothing =>
       \A i \in R!AsVetted(jobs[pass.job].run) : rows[i].engine = R!Engine(pass.vetted)

(* the premise of OneReadingOneLoad; what is claimed under it is RsLoads *)
RsQuiet == orderly /\ \A j \in DOMAIN jobs : jobs[j].kind = "convert" => jobs[j].starts = 0
(* the jobs up to the running one have started once each, those after it not at all *)
Line ==
  /\ began = 1
  /\ \A j \in DOMAIN jobs : jobs[j].starts \in {0, 1} /\ (jobs[j].starts = 1 <=> jobs[j].status # "new")
  /\ pass.job # 0 => jobs[pass.job].starts = 1 /\ \A k \in DOMAIN jobs : k > pass.job => jobs[k].starts = 0
  /\ pass.id # R!NoId => pass.id \in DOMAIN jobs /\ jobs[pass.id].starts = 1
(* a verdict's residency is a job that started, and the running pass shares one only after reading it *)
RowOfTheLine(i) ==
  /\ rows[i].id \in DOMAIN jobs /\ jobs[rows[i].id].starts = 1
  /\ rows[i].id = pass.job => rows[i].model = R!Resolve(pass.job) /\ pass.id # R!NoId
  /\ rows[i].engine = "v" => rows[i].load = 1
(* an ollama's verdict is of the load on the card, or a later job evicted its judge: which is what  *)
(* LoadedSince asks of the queue, so a name still lent is the name of the load that is there         *)
Since(i) ==
  rows[i].engine # "v" =>
    \/ card = rows[i].model /\ load = rows[i].load
    \/ \E k \in DOMAIN jobs : k > rows[i].id /\ jobs[k].starts = 1 /\ R!Evicts(k, rows[i].model)
(* one residency and one model are one load *)
OneLoadEach == \A i, k \in DOMAIN rows : rows[i].id = rows[k].id /\ rows[i].model = rows[k].model => rows[i].load = rows[k].load
(* the pass that has read its residency, or is about to stamp, has its judge on the card *)
AtTheCard ==
  /\ pass.step = "stamp" => /\ card = R!Resolve(pass.job)
                            /\ pass.at = IF R!Engine(R!Resolve(pass.job)) = "v" THEN began ELSE load
  /\ pass.id # R!NoId =>
       /\ card = R!Resolve(pass.job)
       /\ \A i \in DOMAIN rows : rows[i].id = pass.id /\ rows[i].model = card /\ rows[i].engine # "v" => rows[i].load = load
RsLoads == Line /\ (\A i \in DOMAIN rows : RowOfTheLine(i) /\ Since(i)) /\ OneLoadEach /\ AtTheCard
RsInv == RsShapes /\ RsEngines /\ (RsQuiet => RsLoads)

LEMMA RsCardinality == \A S : R!Cardinality(S) = Cardinality(S)
PROOF
  BY Zenon DEF R!Cardinality, Cardinality, R!IsFiniteSet, IsFiniteSet

LEMMA JudgesAre == \A m \in Judges : R!Engine(m) \in {"o", "v"}
PROOF
  BY DEF Judges, Seats, Named, R!Engine

LEMMA ResolvesToAJudge == ASSUME RsShapes PROVE \A j \in DOMAIN jobs : R!Resolve(j) \in Judges
PROOF
  BY DEF RsShapes, R!Resolve, Judges, JobShape

LEMMA JobIds == ASSUME RsShapes PROVE \A j \in DOMAIN jobs : j \in Nat /\ j # 0
PROOF
  BY DEF RsShapes

LEMMA RowsAreVerdicts ==
  ASSUME RsShapes
  PROVE  DOMAIN rows = 1..Len(rows) /\ Len(rows) \in Nat /\ \A i \in DOMAIN rows : rows[i] \in VerdictRow
PROOF
<1>1. rows \in Seq(VerdictRow)
  BY DEF RsShapes
<1>. QED
  BY <1>1

LEMMA RowsAreFinite == ASSUME RsShapes PROVE \A r : IsFiniteSet(R!Of(r))
PROOF
<1>1. DOMAIN rows = 1..Len(rows) /\ Len(rows) \in Nat
  BY DEF RsShapes
<1>2. IsFiniteSet(DOMAIN rows)
  BY <1>1, FS_Interval
<1>. QED
  BY <1>2, FS_Subset DEF R!Of

LEMMA RsStarts == ASSUME R!RsInit PROVE RsInv
PROOF
<1>1. /\ seat \in Seats /\ card = R!Nothing /\ load = 0 /\ began = 1 /\ pass = R!NoPass /\ rows = <<>> /\ DOMAIN rows = {}
      /\ orderly = TRUE
  BY DEF R!RsInit
<1>2. PICK n \in 1..MaxJobs :
        jobs \in [1..n -> {R!Queued("judge", "run2", model) : model \in Named \cup {R!Role}}
                            \cup {R!Queued(kind, "run1", R!Role) : kind \in {"judge", "named", "run", "convert"}}]
  BY DEF R!RsInit
<1>3. jobs \in [1..n -> JobShape]
      /\ \A j \in DOMAIN jobs : jobs[j].starts = 0 /\ jobs[j].status = "new"
  BY <1>2 DEF R!Queued, R!Judged, JobShape
<1>4. RsShapes
  <2>1. n \in Nat
    OBVIOUS
  <2>2. pass \in PassShape
        /\ pass.job = 0 /\ pass.step = "none" /\ pass.id = R!NoId
    BY <1>1 DEF R!NoPass, R!NoId, PassShape
  <2>. QED
    BY <1>1, <1>3, <2>1, <2>2 DEF RsShapes
<1>5. pass.job = 0 /\ pass.step = "none" /\ pass.id = R!NoId
  BY <1>1 DEF R!NoPass
<1>7. RsEngines
  BY <1>1, <1>5 DEF RsEngines, R!RunIsOneEngine, R!AsVetted, R!Of
<1>8. RsLoads
  BY <1>1, <1>3, <1>5 DEF RsLoads, Line, OneLoadEach, AtTheCard
<1>. QED
  BY <1>4, <1>7, <1>8 DEF RsInv

(* what compare says of two runs follows: one residency between them is one load of each model *)
LEMMA InstrumentIsHeld == ASSUME RsInv PROVE R!ResidencyHolds
PROOF
<1>1. R!RsTypeOK
  BY DEF RsInv, RsShapes, PassShape, R!RsTypeOK, Judges
<1>2. R!RunIsOneEngine
  BY DEF RsInv, RsEngines
<1>3. R!SilenceIsNoMatch
  <2>1. SUFFICES ASSUME R!OneResidency # "unknown" PROVE R!Of("run1") # {} /\ R!Of("run2") # {}
    BY <2>1, Zenon DEF R!SilenceIsNoMatch, R!Says
  <2>2. \A r \in R!Judged : {rows[i].id : i \in {k \in R!Of(r) : rows[k].id # R!NoId}} # {}
    BY <2>1 DEF R!OneResidency, R!AllAgree
  <2>. QED
    BY <2>2 DEF R!Judged
<1>4. R!OneReadingOneLoad
  <2>1. SUFFICES ASSUME RsQuiet, R!Says = "one residency", NEW i \in R!Of("run1") \cup R!Of("run2"),
                        NEW k \in R!Of("run1") \cup R!Of("run2"), rows[i].model = rows[k].model
                 PROVE rows[i].load = rows[k].load
    BY <2>1 DEF R!OneReadingOneLoad, R!ToldOneLoad, RsQuiet
  <2>. DEFINE Ids(r) == {rows[x].id : x \in {y \in R!Of(r) : rows[y].id # R!NoId}}
              All == UNION {Ids(r) : r \in R!Judged}
  <2>2. RsLoads
    BY <2>1 DEF RsInv
  <2>3. \A x \in DOMAIN rows : rows[x].id \in DOMAIN jobs /\ rows[x].id # R!NoId
    BY <2>2 DEF RsLoads, RowOfTheLine, RsInv, RsShapes, R!NoId
  <2>4. R!OneResidency = "one"
    BY <2>1 DEF R!Says, R!OneResidency, R!AllAgree
  <2>5. R!Cardinality(UNION {[q \in R!Judged |-> Ids(q)][r] : r \in R!Judged}) = 1
    BY <2>4 DEF R!OneResidency, R!AllAgree
  <2>6. UNION {[q \in R!Judged |-> Ids(q)][r] : r \in R!Judged} = All
    OBVIOUS
  <2>7. Cardinality(All) = 1
    BY <2>5, <2>6, RsCardinality
  <2>8. IsFiniteSet(All)
    <3>1. All \subseteq DOMAIN jobs
      BY <2>3 DEF R!Of
    <3>2. IsFiniteSet(DOMAIN jobs)
      BY FS_Interval DEF RsInv, RsShapes
    <3>. QED
      BY <3>1, <3>2, FS_Subset
  <2>9. PICK x : All = {x}
    BY <2>7, <2>8, FS_Singleton
  <2>10. rows[i].id \in All /\ rows[k].id \in All /\ i \in DOMAIN rows /\ k \in DOMAIN rows
    BY <2>3 DEF R!Of, R!Judged
  <2>. QED
    BY <2>1, <2>2, <2>9, <2>10 DEF RsLoads, OneLoadEach
<1>. QED
  BY <1>1, <1>2, <1>3, <1>4 DEF R!ResidencyHolds

LEMMA SameVerdicts ==
  ASSUME rows' = rows
  PROVE  /\ \A r : R!Of(r)' = R!Of(r) /\ R!AsVetted(r)' = R!AsVetted(r)
         /\ R!RunIsOneEngine' <=> R!RunIsOneEngine
PROOF
  BY DEF R!Of, R!AsVetted, R!RunIsOneEngine

LEMMA SameJudge ==
  \A j : seat' = seat /\ jobs'[j].model = jobs[j].model /\ jobs'[j].kind = jobs[j].kind =>
    /\ R!Resolve(j)' = R!Resolve(j)
    /\ \A m : R!Evicts(j, m)' <=> R!Evicts(j, m)
PROOF
  BY DEF R!Resolve, R!Evicts

(* a pass goes on to its rows or to a row's calls *)
LEMMA RsGoesOn == ASSUME RsInv, pass.job # 0, pass' \in PassShape', pass'.step \in {"row", "call"},
                         pass'.job = pass.job, pass'.id = pass.id, pass'.vetted = pass.vetted,
                         UNCHANGED <<jobs, orderly, seat, card, load, began, rows, shifts>>
                  PROVE  RsInv'
PROOF
<1>1. RsShapes'
  BY DEF RsInv, RsShapes
<1>2. /\ pass'.job = pass.job /\ pass'.id = pass.id /\ pass'.step # "stamp" /\ pass.job # 0
  OBVIOUS
<1>4. RsEngines'
  BY <1>2, SameVerdicts DEF RsInv, RsEngines
<1>5. ASSUME RsQuiet' PROVE RsLoads'
  <2>1. RsLoads
    BY <1>5 DEF RsInv, RsQuiet
  <2>2. \A j : R!Resolve(j)' = R!Resolve(j) /\ \A m : R!Evicts(j, m)' <=> R!Evicts(j, m)
    BY SameJudge
  <2>3. Line' /\ OneLoadEach' /\ AtTheCard'
    BY <1>2, <2>1, <2>2 DEF RsLoads, Line, OneLoadEach, AtTheCard
  <2>4. ASSUME NEW i \in DOMAIN rows PROVE RowOfTheLine(i)' /\ Since(i)'
    BY <1>2, <2>1, <2>2 DEF RsLoads, RowOfTheLine, Since
  <2>. QED
    BY <2>3, <2>4 DEF RsLoads
<1>. QED
  BY <1>1, <1>4, <1>5 DEF RsInv

LEMMA RsEnds == ASSUME RsInv, pass.step \in {"card", "row"}, NEW s \in {"ended", "new"}, pass' = R!NoPass,
                       jobs' = [jobs EXCEPT ![pass.job].status = s],
                       s = "new" => ~orderly', s = "ended" => orderly' = orderly,
                       UNCHANGED <<seat, card, load, began, rows>>
                PROVE  RsInv'
PROOF
<1>1. /\ pass'.job = 0 /\ pass'.id = R!NoId /\ pass'.step = "none" /\ pass.job # 0 /\ pass.job \in DOMAIN jobs
      /\ DOMAIN jobs' = DOMAIN jobs
  BY DEF RsInv, RsShapes, R!NoPass, PassShape
<1>2. \A k \in DOMAIN jobs : /\ jobs'[k].kind = jobs[k].kind /\ jobs'[k].model = jobs[k].model
                             /\ jobs'[k].run = jobs[k].run /\ jobs'[k].starts = jobs[k].starts
                             /\ jobs'[k].status = IF k = pass.job THEN s ELSE jobs[k].status
  BY <1>1 DEF RsInv, RsShapes
<1>3. RsShapes'
  <2>1. PICK n \in Nat :
         jobs \in [1..n -> JobShape]
    BY DEF RsInv, RsShapes
  <2>2. jobs' \in [1..n -> JobShape]
    BY <2>1 DEF JobShape
  <2>3. pass' \in PassShape'
    BY DEF R!NoPass, R!NoId, PassShape
  <2>. QED
    BY <1>1, <2>2, <2>3 DEF RsInv, RsShapes
<1>5. RsEngines'
  BY <1>1, SameVerdicts DEF RsInv, RsEngines
<1>6. ASSUME RsQuiet' PROVE RsLoads'
  <2>1. RsLoads /\ s = "ended"
    BY <1>6, <1>1, <1>2 DEF RsInv, RsQuiet
  <2>2. \A j \in DOMAIN jobs : R!Resolve(j)' = R!Resolve(j) /\ \A m : R!Evicts(j, m)' <=> R!Evicts(j, m)
    BY <1>2, SameJudge
  <2>3. Line' /\ OneLoadEach' /\ AtTheCard'
    BY <1>1, <1>2, <2>1 DEF RsLoads, Line, OneLoadEach, AtTheCard
  <2>4. ASSUME NEW i \in DOMAIN rows PROVE RowOfTheLine(i)' /\ Since(i)'
    <3>1. RowOfTheLine(i) /\ Since(i)
      BY <2>1 DEF RsLoads
    <3>2. rows[i].id # 0
      BY <3>1 DEF RowOfTheLine, RsInv, RsShapes
    <3>. QED
      BY <1>1, <1>2, <2>2, <3>1, <3>2 DEF RowOfTheLine, Since
  <2>. QED
    BY <2>3, <2>4 DEF RsLoads
<1>. QED
  BY <1>3, <1>5, <1>6 DEF RsInv

LEMMA RsChecks == ASSUME RsInv, R!Checks PROVE RsInv'
PROOF
<1>1. pass.step = "row" /\ UNCHANGED <<seat, card, load, began, rows>>
  BY DEF R!Checks
<1>2. \/ pass' = [pass EXCEPT !.step = "call"] /\ UNCHANGED <<jobs, orderly, shifts>>
      \/ R!Ends(pass.job, "ended") /\ UNCHANGED <<orderly, shifts>>
      \/ R!Ends(pass.job, "new") /\ orderly' = FALSE
  BY Zenon DEF R!Checks, R!Amiss
<1>3. ASSUME pass' = [pass EXCEPT !.step = "call"], UNCHANGED <<jobs, orderly, shifts>> PROVE RsInv'
  <2>1. /\ pass' \in PassShape' /\ pass'.step = "call" /\ pass.job # 0
        /\ pass'.job = pass.job /\ pass'.id = pass.id /\ pass'.vetted = pass.vetted
    BY <1>1, <1>3 DEF RsInv, RsShapes, PassShape
  <2>. QED
    BY <1>1, <1>3, <2>1, RsGoesOn
<1>. QED
  BY <1>1, <1>2, <1>3, RsEnds DEF R!Ends

LEMMA RsTakesSeat == ASSUME RsInv, R!TakesSeat PROVE RsInv'
PROOF
<1>1. /\ pass.step = "seat" /\ pass' = [pass EXCEPT !.step = "row", !.seated = R!Resolve(pass.job)]
      /\ UNCHANGED <<seat, card, load, began, jobs, rows, orderly, shifts>>
  BY DEF R!TakesSeat
<1>2. pass.job \in DOMAIN jobs /\ pass.job # 0 /\ R!Resolve(pass.job) \in Judges
  BY <1>1, ResolvesToAJudge DEF RsInv, RsShapes, PassShape
<1>3. /\ pass' \in PassShape' /\ pass'.step = "row"
      /\ pass'.job = pass.job /\ pass'.id = pass.id /\ pass'.vetted = pass.vetted
  BY <1>1, <1>2 DEF RsInv, RsShapes, PassShape
<1>. QED
  BY <1>1, <1>2, <1>3, RsGoesOn

LEMMA RsShifts == ASSUME RsInv, R!Shifts PROVE RsInv'
PROOF
<1>1. /\ seat' \in Seats /\ card' \in Judges \cup {Generator, Converter, R!Nothing} /\ load' \in Nat /\ began' \in Nat
      /\ UNCHANGED <<jobs, pass, rows>> /\ orderly' = FALSE
  BY DEF R!Shifts, R!Amiss, R!Loads, RsInv, RsShapes
<1>2. RsShapes'
  BY <1>1 DEF RsInv, RsShapes, PassShape
<1>3. RsEngines'
  BY <1>1, SameVerdicts DEF RsInv, RsEngines
<1>. QED
  BY <1>1, <1>2, <1>3 DEF RsInv, RsQuiet

(* the judge comes onto the card, for the pass as it starts or for a row's calls *)
LEMMA RsJudgeLoads ==
  ASSUME RsInv, pass.step \in {"card", "call"}, R!Loads(R!Resolve(pass.job)), pass' \in PassShape',
         pass'.step \in {"seat", "stamp"}, pass'.job = pass.job, pass'.id = pass.id, pass'.vetted = pass.vetted,
         pass'.step = "stamp" => pass'.at = IF R!Engine(R!Resolve(pass.job)) = "v" THEN began ELSE load',
         UNCHANGED <<seat, began, jobs, rows, orderly, shifts>>
  PROVE  RsInv'
PROOF
<1>. DEFINE m == R!Resolve(pass.job)
<1>1. /\ pass.job \in DOMAIN jobs /\ m \in Judges /\ jobs[pass.job].kind \in {"judge", "named"}
      /\ UNCHANGED <<seat, began, jobs, rows, orderly, shifts>>
  BY ResolvesToAJudge DEF RsInv, RsShapes, PassShape
<1>2. card' = m /\ load' \in Nat /\ (card = m => load' = load)
  BY DEF R!Loads, RsInv, RsShapes
<1>4. /\ pass'.job = pass.job /\ pass'.id = pass.id
      /\ pass'.step = "stamp" => pass'.at = IF R!Engine(m) = "v" THEN began ELSE load'
  OBVIOUS
<1>5. RsShapes'
  <2>2. card' \in Judges \cup {Generator, Converter, R!Nothing} /\ pass'.job # 0 /\ pass'.step # "none"
    BY <1>1, <1>2, <1>4 DEF RsInv, RsShapes, PassShape
  <2>. QED
    BY <2>2, <1>1, <1>2, <1>4, Zenon DEF RsInv, RsShapes
<1>6. RsEngines'
  BY <1>1, <1>4, SameVerdicts DEF RsInv, RsEngines
<1>7. ASSUME RsQuiet' PROVE RsLoads'
  <2>1. RsLoads
    BY <1>7, <1>1 DEF RsInv, RsQuiet
  <2>2. \A j : R!Resolve(j)' = R!Resolve(j) /\ \A x : R!Evicts(j, x)' <=> R!Evicts(j, x)
    BY <1>1, SameJudge
  <2>3. m' = m
    BY <1>4, <2>2
  <2>4. Line' /\ OneLoadEach'
    BY <1>1, <1>4, <2>1 DEF RsLoads, Line, OneLoadEach
  <2>5. AtTheCard'
    <3>1. (pass.step = "stamp" => /\ card = R!Resolve(pass.job)
                                  /\ pass.at = IF R!Engine(R!Resolve(pass.job)) = "v" THEN began ELSE load)'
      BY <1>1, <1>2, <1>4, <2>3
    <3>2. pass.id # R!NoId => load' = load /\ card' = card
      BY <1>2, <2>1 DEF RsLoads, AtTheCard
    <3>3. (pass.id # R!NoId =>
             /\ card = R!Resolve(pass.job)
             /\ \A i \in DOMAIN rows : rows[i].id = pass.id /\ rows[i].model = card /\ rows[i].engine # "v" =>
                  rows[i].load = load)'
      BY <1>1, <1>2, <1>4, <2>1, <2>3, <3>2 DEF RsLoads, AtTheCard
    <3>. QED
      BY <3>1, <3>3, Zenon DEF AtTheCard
  <2>6. ASSUME NEW i \in DOMAIN rows PROVE RowOfTheLine(i)'
    BY <1>1, <1>4, <2>1, <2>3 DEF RsLoads, RowOfTheLine
  <2>7. ASSUME NEW i \in DOMAIN rows PROVE Since(i)'
    <3>1. RowOfTheLine(i) /\ Since(i) /\ Line
      BY <2>1 DEF RsLoads
    <3>2. CASE card = m
      <4>1. card' = card /\ load' = load /\ rows' = rows /\ jobs' = jobs
        BY <3>2, <1>1, <1>2
      <4>. QED
        BY <3>1, <4>1, <2>2 DEF Since
    <3>3. CASE card # m /\ card = rows[i].model
      <4>1. rows[i].id # pass.job
        BY <3>1, <3>3 DEF RowOfTheLine
      <4>2. pass.job > rows[i].id /\ jobs[pass.job].starts = 1
        <5>1. rows[i].id \in Nat /\ pass.job \in Nat /\ pass.job # 0
          BY <3>1, <1>1, JobIds DEF RowOfTheLine, RsInv
        <5>. QED
          BY <4>1, <5>1, <3>1 DEF RowOfTheLine, Line
      <4>3. R!Evicts(pass.job, rows[i].model)
        BY <3>3, <1>1 DEF R!Evicts
      <4>. QED
        BY <4>2, <4>3, <1>1, <2>2 DEF Since
    <3>4. CASE card # rows[i].model
      BY <3>1, <3>4, <1>1, <2>2 DEF Since
    <3>. QED
      BY <3>2, <3>3, <3>4
  <2>. QED
    BY <1>1, <2>4, <2>5, <2>6, <2>7 DEF RsLoads
<1>. QED
  BY <1>5, <1>6, <1>7 DEF RsInv

LEMMA RsCalls == ASSUME RsInv, R!Calls PROVE RsInv'
PROOF
<1>. DEFINE m == R!Resolve(pass.job)
            at == IF R!Engine(m) = "v" THEN began ELSE load'
<1>1. /\ pass.step = "call" /\ R!Loads(m) /\ pass' = [pass EXCEPT !.step = "stamp", !.at = at]
      /\ UNCHANGED <<seat, began, jobs, rows, orderly, shifts>>
  BY DEF R!Calls
<1>2. at \in Nat
  BY <1>1 DEF R!Loads, RsInv, RsShapes
<1>3. /\ pass' \in PassShape' /\ pass'.step = "stamp" /\ pass'.at = at
      /\ pass'.job = pass.job /\ pass'.id = pass.id /\ pass'.vetted = pass.vetted
  <2>. HIDE DEF at
  <2>. QED
    BY <1>1, <1>2 DEF RsInv, RsShapes, PassShape
<1>. QED
  BY <1>1, <1>3, RsJudgeLoads

LEMMA RsTakesCard == ASSUME RsInv, R!TakesCard PROVE RsInv'
PROOF
<1>1. pass.step = "card" /\ UNCHANGED <<seat, began, rows>>
  BY DEF R!TakesCard
<1>2. \/ /\ R!Loads(R!Resolve(pass.job)) /\ pass' = [pass EXCEPT !.step = "seat"]
         /\ UNCHANGED <<jobs, orderly, shifts>>
      \/ R!Ends(pass.job, "ended") /\ UNCHANGED <<card, load, orderly, shifts>>
      \/ R!Ends(pass.job, "new") /\ orderly' = FALSE /\ UNCHANGED <<card, load>>
  BY Zenon DEF R!TakesCard, R!Amiss
<1>3. ASSUME R!Loads(R!Resolve(pass.job)), pass' = [pass EXCEPT !.step = "seat"], UNCHANGED <<jobs, orderly, shifts>>
      PROVE  RsInv'
  <2>1. /\ pass' \in PassShape' /\ pass'.step = "seat"
        /\ pass'.job = pass.job /\ pass'.id = pass.id /\ pass'.vetted = pass.vetted
    BY <1>1, <1>3 DEF RsInv, RsShapes, PassShape
  <2>. QED
    BY <1>1, <1>3, <2>1, RsJudgeLoads
<1>. QED
  BY <1>1, <1>2, <1>3, RsEnds DEF R!Ends

(* the last verdict of a set of them exists *)
LEMMA LatestIs ==
  ASSUME NEW n \in Nat, NEW S \in SUBSET (1..n), S # {}
  PROVE  R!Latest(S) \in S /\ \A k \in S : k <= R!Latest(S)
PROOF
<1>. DEFINE Above(p) == {q \in S : q > p}
            T == {Above(p) : p \in S}
<1>1. \A p \in S : IsFiniteSet(Above(p))
  <2>1. IsFiniteSet(1..n)
    BY FS_Interval
  <2>2. \A p \in S : Above(p) \subseteq 1..n
    OBVIOUS
  <2>. QED
    BY <2>1, <2>2, FS_Subset
<1>2. T \subseteq FiniteSubsetsOf(S) /\ T # {}
  BY <1>1 DEF FiniteSubsetsOf
<1>3. PICK x \in T : \A y \in T : ~(<<y, x>> \in StrictSubsetOrdering(S))
  <2>. HIDE DEF T
  <2>. QED
    BY <1>2, WFMin, FS_StrictSubsetOrderingWellFounded
<1>4. PICK p \in S : x = Above(p)
  OBVIOUS
<1>5. ASSUME NEW q \in S, q > p PROVE FALSE
  <2>1. (\A r \in S : r > q => r > p) /\ ~(q > q)
    BY <1>5
  <2>2. Above(q) \subseteq Above(p) /\ q \in Above(p) /\ q \notin Above(q)
    BY <1>5, <2>1, Zenon
  <2>3. <<Above(q), Above(p)>> \in StrictSubsetOrdering(S)
    BY <2>2 DEF StrictSubsetOrdering
  <2>. QED
    BY <1>3, <1>4, <2>3
<1>6. \A q \in S : q <= p
  BY <1>5
<1>. HIDE DEF T, Above
<1>. QED
  BY <1>6 DEF R!Latest

LEMMA LenderIs ==
  ASSUME RsShapes
  PROVE  \A e : R!Lenders(e) # {} => R!Latest(R!Lenders(e)) \in DOMAIN rows
PROOF
<1>1. DOMAIN rows = 1..Len(rows) /\ Len(rows) \in Nat
  BY DEF RsShapes
<1>2. \A e : R!Lenders(e) \in SUBSET (1..Len(rows))
  BY <1>1 DEF R!Lenders
<1>. QED
  BY <1>1, <1>2, LatestIs

LEMMA ResidencyIsAnId == ASSUME RsShapes, pass.job # 0 PROVE R!ResidencyOf(pass.job) \in [id : Nat, whole : BOOLEAN]
PROOF
<1>1. pass.job \in Nat /\ \A i \in DOMAIN rows : rows[i].id \in Nat
  <2>1. pass.job \in DOMAIN jobs
    BY DEF RsShapes, PassShape
  <2>2. \A i \in DOMAIN rows : rows[i].id \in Nat
    BY RowsAreVerdicts DEF VerdictRow
  <2>. QED
    BY <2>1, <2>2, JobIds
<1>. QED
  BY <1>1, LenderIs DEF R!ResidencyOf

(* Where only jobs move the card, the id a pass reads is of a started job, and a verdict of that id and *)
(* of its judge, an ollama's, is of the load that is on the card.                                       *)
LEMMA ResidencyIsOfTheLoad ==
  ASSUME RsShapes, RsEngines, RsLoads, pass.step = "stamp", pass.id = R!NoId
  PROVE  /\ R!ResidencyOf(pass.job).id \in DOMAIN jobs /\ jobs[R!ResidencyOf(pass.job).id].starts = 1
         /\ \A i \in DOMAIN rows : /\ rows[i].id = R!ResidencyOf(pass.job).id
                                   /\ rows[i].model = R!Resolve(pass.job) /\ rows[i].engine # "v"
                                   => rows[i].load = load
PROOF
<1>. DEFINE j == pass.job
            m == R!Resolve(j)
            lent == R!Lenders(R!Engine(m))
            last == R!Latest(lent)
            id == R!ResidencyOf(j).id
<1>1. j \in DOMAIN jobs /\ jobs[j].kind \in {"judge", "named"} /\ jobs[j].starts = 1 /\ card = m /\ j # 0
  BY DEF RsShapes, RsLoads, Line, AtTheCard, PassShape
<1>2. \A i \in DOMAIN rows : RowOfTheLine(i) /\ Since(i) /\ rows[i].id # j
  BY DEF RsLoads, RowOfTheLine
<1>3. lent # {} => last \in DOMAIN rows /\ rows[last].id \in DOMAIN jobs /\ jobs[rows[last].id].starts = 1
  BY <1>2, LenderIs DEF RowOfTheLine
<1>4. /\ id = j \/ (lent # {} /\ id = rows[last].id)
      /\ R!Engine(m) = "v" \/ id = j \/ (lent # {} /\ id = rows[last].id /\ ~R!LoadedSince(rows[last].id, j, m))
  BY <1>1 DEF R!ResidencyOf
<1>5. id \in DOMAIN jobs /\ jobs[id].starts = 1
  BY <1>1, <1>3, <1>4
<1>6. ASSUME NEW i \in DOMAIN rows, rows[i].id = id, rows[i].model = m, rows[i].engine # "v" PROVE rows[i].load = load
  <2>1. R!Engine(m) # "v" /\ id # j
    BY <1>2, <1>6 DEF RsEngines
  <2>2. id = rows[last].id /\ ~R!LoadedSince(id, j, m)
    BY <1>4, <2>1
  <2>3. ~R!Evicts(j, m)
    BY <1>1 DEF R!Evicts
  <2>4. \A k \in DOMAIN jobs : ~(k > id /\ jobs[k].starts = 1 /\ R!Evicts(k, m))
    BY <2>2, <2>3 DEF R!LoadedSince, RsLoads, Line
  <2>. QED
    BY <1>2, <1>6, <2>4 DEF Since
<1>. QED
  BY <1>5, <1>6

(* a row judged again loses the verdict it had, and every verdict left is one there was *)
LEMMA LeftAre ==
  ASSUME RsShapes, NEW j, NEW left \in R!Left(j)
  PROVE  left \in Seq(VerdictRow) /\ \A i \in DOMAIN left : \E k \in DOMAIN rows : left[i] = rows[k]
PROOF
<1>1. rows \in Seq(VerdictRow) /\ DOMAIN rows = 1..Len(rows) /\ Len(rows) \in Nat
  BY DEF RsShapes
<1>2. ASSUME NEW x \in R!Of(jobs[j].run), left = R!RemoveAt(rows, x)
      PROVE  left \in Seq(VerdictRow) /\ \A i \in DOMAIN left : \E k \in DOMAIN rows : left[i] = rows[k]
  <2>. DEFINE a == SubSeq(rows, 1, x - 1)
              b == SubSeq(rows, x + 1, Len(rows))
  <2>1. x \in 1..Len(rows) /\ x - 1 \in Int /\ x + 1 \in Int /\ Len(rows) \in Int
        /\ (\A i \in 1..(x - 1) : rows[i] \in VerdictRow) /\ \A i \in (x + 1)..Len(rows) : rows[i] \in VerdictRow
    BY <1>1 DEF R!Of
  <2>2. a \in Seq(VerdictRow) /\ Len(a) = x - 1 /\ \A i \in 1..(x - 1) : a[i] = rows[i]
    BY <1>1, <2>1, SubSeqProperties
  <2>3. b \in Seq(VerdictRow) /\ Len(b) = Len(rows) - x /\ \A i \in 1..(Len(rows) - x) : b[i] = rows[x + i]
    <3>1. /\ b \in Seq(VerdictRow) /\ Len(b) = IF x + 1 <= Len(rows) THEN Len(rows) - (x + 1) + 1 ELSE 0
          /\ \A i \in 1..(Len(rows) - (x + 1) + 1) : b[i] = rows[x + 1 + i - 1]
      BY <2>1, SubSeqProperties
    <3>. HIDE DEF b
    <3>2. \A i \in 1..(Len(rows) - x) : i \in 1..(Len(rows) - (x + 1) + 1) /\ x + 1 + i - 1 = x + i
      BY <1>1, <2>1
    <3>3. \A i \in 1..(Len(rows) - x) : b[i] = rows[x + i]
      BY <3>1, <3>2
    <3>4. Len(rows) \in Nat /\ x \in Nat /\ x <= Len(rows)
      BY <1>1, <2>1
    <3>5. Len(b) = Len(rows) - x
      BY <3>1, <3>4
    <3>. QED
      BY <3>1, <3>3, <3>5
  <2>4. left = a \o b
    BY <1>2 DEF R!RemoveAt
  <2>. HIDE DEF a, b
  <2>5. left \in Seq(VerdictRow) /\ Len(left) = Len(rows) - 1
    <3>1. left \in Seq(VerdictRow) /\ Len(left) = Len(a) + Len(b)
      BY <2>2, <2>3, <2>4, ConcatProperties
    <3>. QED
      BY <3>1, <1>1, <2>1, <2>2, <2>3
  <2>6. ASSUME NEW i \in DOMAIN left PROVE \E k \in DOMAIN rows : left[i] = rows[k]
    <3>1. i \in 1..(Len(rows) - 1)
      BY <2>5
    <3>2. CASE i <= x - 1
      <4>1. left[i] = a[i]
        BY <3>1, <3>2, <2>1, <2>2, <2>3, <2>4, ConcatProperties
      <4>. QED
        BY <4>1, <3>1, <3>2, <2>1, <2>2, <1>1
    <3>3. CASE i > x - 1
      <4>1. left[i] = b[i - (x - 1)]
        BY <3>1, <3>3, <1>1, <2>1, <2>2, <2>3, <2>4, ConcatProperties
      <4>2. i - (x - 1) \in 1..(Len(rows) - x) /\ x + (i - (x - 1)) \in DOMAIN rows
        BY <3>1, <3>3, <2>1, <1>1
      <4>. QED
        BY <4>1, <4>2, <2>3
    <3>. QED
      BY <3>1, <3>2, <3>3, <2>1
  <2>. QED
    BY <2>5, <2>6
<1>3. left = rows \/ \E x \in R!Of(jobs[j].run) : left = R!RemoveAt(rows, x)
  BY DEF R!Left
<1>. QED
  BY <1>1, <1>2, <1>3

LEMMA RsStamps == ASSUME RsInv, R!Stamps PROVE RsInv'
PROOF
<1>. DEFINE j == pass.job
            m == R!Resolve(j)
            Written(read) == [run |-> jobs[j].run, engine |-> R!Engine(m), model |-> m, id |-> read.id,
                              whole |-> read.whole, began |-> began, vetted |-> pass.vetted, load |-> pass.at]
<1>1. /\ pass.step = "stamp" /\ j \in DOMAIN jobs /\ m \in Judges /\ jobs[j].kind \in {"judge", "named"} /\ j # 0
      /\ UNCHANGED <<seat, card, load, began, jobs, orderly, shifts>>
  BY ResolvesToAJudge DEF R!Stamps, RsInv, RsShapes, PassShape
<1>2. PICK read \in [id : Nat, whole : BOOLEAN], left \in R!Left(j) :
        /\ read = IF pass.id # R!NoId THEN [id |-> pass.id, whole |-> pass.whole] ELSE R!ResidencyOf(j)
        /\ rows' = Append(left, Written(read))
        /\ pass' = [pass EXCEPT !.step = "row", !.id = read.id, !.whole = read.whole]
  <2>1. pass.id \in Nat /\ pass.whole \in BOOLEAN
    BY DEF RsInv, RsShapes, PassShape
  <2>. QED
    BY <1>1, <2>1, ResidencyIsAnId DEF R!Stamps, RsInv
<1>3. /\ pass'.job = j /\ pass'.id = read.id /\ pass'.vetted = pass.vetted /\ pass'.step = "row"
  BY <1>2 DEF RsInv, RsShapes, PassShape
<1>4. Written(read) \in VerdictRow
  <2>1. /\ R!Engine(m) \in {"o", "v"} /\ pass.vetted \in Judges \cup {R!Nothing} /\ pass.at \in Nat
        /\ jobs[j].run \in R!Judged /\ began \in Nat
    BY <1>1, JudgesAre DEF RsInv, RsShapes, PassShape, JobShape
  <2>. QED
    BY <1>1, <2>1 DEF VerdictRow
<1>. DEFINE n == Len(left) + 1
<1>5. /\ n \in DOMAIN rows' /\ rows'[n] = Written(read) /\ rows' \in Seq(VerdictRow)
      /\ \A i \in DOMAIN rows' : i = n \/ \E k \in DOMAIN rows : rows'[i] = rows[k]
  <2>. DEFINE w == Written(read)
  <2>1. /\ rows' = Append(left, w) /\ w \in VerdictRow /\ left \in Seq(VerdictRow)
        /\ \A i \in DOMAIN left : \E k \in DOMAIN rows : left[i] = rows[k]
    BY <1>2, <1>4, LeftAre DEF RsInv
  <2>2. /\ DOMAIN rows' = DOMAIN left \cup {n} /\ \A i \in DOMAIN left : rows'[i] = left[i]
        /\ rows'[n] = w /\ rows' \in Seq(VerdictRow)
    <3>. HIDE DEF w
    <3>. QED
      BY <2>1, AppendProperties
  <2>. QED
    BY <2>1, <2>2
<1>. HIDE DEF n
<1>6. RsShapes'
  <2>2. pass' \in PassShape'
    BY <1>1, <1>2 DEF RsInv, RsShapes, PassShape
  <2>. QED
    BY <1>1, <1>3, <1>5, <2>2 DEF RsInv, RsShapes
<1>8. RsEngines'
  <2>1. \A i \in DOMAIN rows' : i # n => \E k \in DOMAIN rows : rows'[i] = rows[k]
    BY <1>5
  <2>2. /\ rows'[n].run = jobs[j].run /\ rows'[n].engine = R!Engine(m) /\ rows'[n].model = m
        /\ rows'[n].vetted = pass.vetted
    BY <1>5
  <2>3. R!Engine(m) # R!Engine(R!Nothing)
    BY <1>1, JudgesAre DEF R!Engine, R!Nothing
  <2>4. ASSUME NEW i \in DOMAIN rows', rows'[i].run = jobs[j].run, rows'[i].engine = R!Engine(rows'[i].vetted),
               pass.vetted # R!Nothing
        PROVE  rows'[i].engine = R!Engine(pass.vetted)
    <3>1. CASE i = n
      BY <3>1, <2>2, <2>4
    <3>2. CASE i # n
      <4>1. PICK k \in DOMAIN rows : rows'[i] = rows[k]
        BY <2>1, <3>2
      <4>2. k \in R!AsVetted(jobs[j].run)
        BY <2>4, <4>1 DEF R!AsVetted, R!Of
      <4>. QED
        BY <1>1, <2>4, <4>1, <4>2 DEF RsInv, RsEngines
    <3>. QED
      BY <3>1, <3>2
  <2>5. ASSUME NEW r \in R!Judged, NEW i \in R!AsVetted(r)', NEW k \in R!AsVetted(r)', i = n
        PROVE  rows'[i].engine = rows'[k].engine
    <3>1. r = jobs[j].run /\ pass.vetted # R!Nothing /\ R!Engine(m) = R!Engine(pass.vetted)
      BY <2>2, <2>3, <2>5 DEF R!AsVetted, R!Of
    <3>2. \A x \in R!AsVetted(r)' : rows'[x].engine = R!Engine(pass.vetted)
      BY <2>4, <3>1 DEF R!AsVetted, R!Of
    <3>. QED
      BY <3>2, <2>5
  <2>6. ASSUME NEW r \in R!Judged, NEW i \in R!AsVetted(r)', NEW k \in R!AsVetted(r)', i # n, k # n
        PROVE  rows'[i].engine = rows'[k].engine
    <3>1. i \in DOMAIN rows' /\ k \in DOMAIN rows'
      BY DEF R!AsVetted, R!Of
    <3>2. PICK x \in DOMAIN rows, y \in DOMAIN rows : rows'[i] = rows[x] /\ rows'[k] = rows[y]
      BY <2>1, <2>6, <3>1
    <3>3. x \in R!AsVetted(r) /\ y \in R!AsVetted(r)
      BY <3>2 DEF R!AsVetted, R!Of
    <3>. QED
      BY <3>2, <3>3 DEF RsInv, RsEngines, R!RunIsOneEngine
  <2>7. \A r \in R!Judged : \A i, k \in R!AsVetted(r)' : rows'[i].engine = rows'[k].engine
    BY <2>5, <2>6
  <2>8. \A i \in DOMAIN rows' : rows'[i].engine = R!Engine(rows'[i].model)
    BY <2>1, <2>2 DEF RsInv, RsEngines
  <2>9. \A i \in R!AsVetted(jobs[j].run)' : i \in DOMAIN rows' /\ rows'[i].run = jobs[j].run
                                            /\ rows'[i].engine = R!Engine(rows'[i].vetted)
    <3>1. jobs' = jobs /\ pass'.job = j
      BY <1>1, <1>3
    <3>. QED
      BY <3>1 DEF R!AsVetted, R!Of
  <2>. QED
    BY <1>1, <1>3, <2>4, <2>7, <2>8, <2>9 DEF RsEngines, R!RunIsOneEngine
<1>9. ASSUME RsQuiet' PROVE RsLoads'
  <2>1. RsLoads
    BY <1>9, <1>1 DEF RsInv, RsQuiet
  <2>2. \A x : R!Resolve(x)' = R!Resolve(x) /\ \A y : R!Evicts(x, y)' <=> R!Evicts(x, y)
    BY <1>1, SameJudge
  <2>3. card = m /\ pass.at = (IF R!Engine(m) = "v" THEN 1 ELSE load) /\ Line /\ OneLoadEach /\ AtTheCard
    BY <2>1, <1>1 DEF RsLoads, AtTheCard, Line
  <2>4. /\ read.id \in DOMAIN jobs /\ jobs[read.id].starts = 1
        /\ \A i \in DOMAIN rows : rows[i].id = read.id /\ rows[i].model = m /\ rows[i].engine # "v" => rows[i].load = load
    <3>1. CASE pass.id # R!NoId
      BY <3>1, <1>2, <2>3 DEF Line, AtTheCard
    <3>2. CASE pass.id = R!NoId
      BY <3>2, <1>1, <1>2, <2>1, ResidencyIsOfTheLoad DEF RsInv
    <3>. QED
      BY <3>1, <3>2
  <2>5. read.id # R!NoId
    BY <2>4, JobIds DEF RsInv, R!NoId
  <2>6. ASSUME NEW i \in DOMAIN rows PROVE RowOfTheLine(i) /\ Since(i) /\ rows[i].engine = R!Engine(rows[i].model)
    BY <2>1 DEF RsLoads, RsInv, RsEngines
  <2>7. Line'
    BY <1>1, <1>3, <2>3, <2>4 DEF Line
  <2>. DEFINE w == Written(read)
  <2>8. /\ w.id = read.id /\ w.model = m /\ w.engine = R!Engine(m) /\ w.load = pass.at
        /\ \A i \in DOMAIN rows' : rows'[i] = w \/ \E k \in DOMAIN rows : rows'[i] = rows[k]
    BY <1>5
  <2>. HIDE DEF w
  <2>9. ASSUME NEW i \in DOMAIN rows' PROVE RowOfTheLine(i)' /\ Since(i)'
    <3>1. ASSUME NEW k \in DOMAIN rows, rows'[i] = rows[k] PROVE RowOfTheLine(i)' /\ Since(i)'
      BY <3>1, <1>1, <1>3, <2>2, <2>5, <2>6 DEF RowOfTheLine, Since
    <3>2. CASE rows'[i] = w
      BY <3>2, <1>1, <1>3, <2>2, <2>3, <2>4, <2>5, <2>8 DEF RowOfTheLine, Since
    <3>. QED
      BY <3>1, <3>2, <2>8
  <2>10. ASSUME NEW i \in DOMAIN rows, rows[i].id = read.id, rows[i].model = m PROVE rows[i].load = pass.at
    BY <2>10, <2>3, <2>4, <2>6 DEF RowOfTheLine
  <2>11. OneLoadEach'
    BY <2>3, <2>8, <2>10 DEF OneLoadEach
  <2>12. AtTheCard'
    BY <1>1, <1>3, <2>2, <2>3, <2>4, <2>8 DEF AtTheCard
  <2>. QED
    BY <2>7, <2>9, <2>11, <2>12 DEF RsLoads
<1>. QED
  BY <1>6, <1>8, <1>9 DEF RsInv

LEMMA RsStartsJob == ASSUME RsInv, \E j \in DOMAIN jobs : R!StartsJob(j) PROVE RsInv'
PROOF
<1>1. PICK j \in DOMAIN jobs : R!StartsJob(j)
  OBVIOUS
<1>. DEFINE m == R!Resolve(j)
            Begun(x) == [R!NoPass EXCEPT !.job = j, !.step = "card", !.vetted = x]
<1>2. /\ pass.job = 0 /\ jobs[j].status = "new" /\ UNCHANGED <<seat, began, rows>>
      /\ m \in Judges /\ j \in Nat /\ j # 0
      /\ \A k \in DOMAIN jobs : k \in Nat
  BY <1>1, ResolvesToAJudge, JobIds DEF R!StartsJob, RsInv
<1>3. PICK s \in {"new", "running", "ended"} : jobs' = [jobs EXCEPT ![j].status = s, ![j].starts = @ + 1]
  BY <1>1, Zenon DEF R!StartsJob
<1>4. /\ DOMAIN jobs' = DOMAIN jobs
      /\ \A k \in DOMAIN jobs : /\ jobs'[k].kind = jobs[k].kind /\ jobs'[k].model = jobs[k].model
                                /\ jobs'[k].run = jobs[k].run
                                /\ jobs'[k].starts = IF k = j THEN jobs[j].starts + 1 ELSE jobs[k].starts
                                /\ jobs'[k].status = IF k = j THEN s ELSE jobs[k].status
                                /\ jobs[k].starts \in Nat
      /\ \E n \in Nat :
           jobs' \in [1..n -> JobShape]
  <2>1. PICK n \in Nat :
          jobs \in [1..n -> JobShape]
    BY DEF RsInv, RsShapes
  <2>2. jobs' \in [1..n -> JobShape]
    BY <1>3, <2>1 DEF JobShape
  <2>. QED
    BY <1>3, <2>1, <2>2 DEF JobShape
<1>5. /\ card' \in Judges \cup {Generator, Converter, R!Nothing} /\ load' \in Nat
      /\ jobs[j].kind # "run" => (card' = card /\ load' = load) \/ jobs[j].kind = "convert"
  BY <1>1 DEF R!StartsJob, R!Loads, RsInv, RsShapes
<1>6. PICK x \in Judges \cup {R!Nothing} :
        /\ x # R!Nothing => x = m /\ ~R!SecondJudge(j)
        /\ pass' = R!NoPass \/ (pass' = Begun(x) /\ jobs[j].kind \in {"judge", "named"})
  <2>1. jobs[j].kind \in {"judge", "named", "run", "convert"}
    BY DEF RsInv, RsShapes, JobShape
  <2>2. CASE jobs[j].kind \in {"run", "convert"} \/ (jobs[j].kind = "judge" /\ R!SecondJudge(j))
    BY <1>1, <2>2, Zenon DEF R!StartsJob
  <2>3. CASE jobs[j].kind = "judge" /\ ~R!SecondJudge(j)
    BY <1>1, <1>2, <2>3 DEF R!StartsJob
  <2>4. CASE jobs[j].kind = "named"
    BY <1>1, <2>4 DEF R!StartsJob
  <2>. QED
    BY <2>1, <2>2, <2>3, <2>4
<1>7. /\ pass'.id = R!NoId /\ pass'.step \in {"none", "card"} /\ pass'.job \in {0, j}
      /\ pass'.job = 0 <=> pass'.step = "none"
      /\ pass'.job = j => jobs[j].kind \in {"judge", "named"}
      /\ pass'.job = j /\ pass'.vetted # R!Nothing => pass'.vetted = m /\ ~R!SecondJudge(j)
  <2>1. CASE pass' = R!NoPass
    BY <1>2, <2>1 DEF R!NoPass
  <2>2. CASE pass' = Begun(x) /\ jobs[j].kind \in {"judge", "named"}
    <3>1. pass'.id = R!NoId /\ pass'.step = "card" /\ pass'.job = j /\ pass'.vetted = x
      BY <2>2 DEF R!NoPass
    <3>. QED
      BY <1>2, <1>6, <2>2, <3>1
  <2>. QED
    BY <1>6, <2>1, <2>2
<1>8. RsShapes'
  <2>1. pass' \in PassShape'
    <3>1. CASE pass' = R!NoPass
      BY <3>1 DEF R!NoPass, R!NoId, PassShape
    <3>2. CASE pass' = Begun(x)
      BY <3>2, <1>2, <1>4 DEF R!NoPass, R!NoId, PassShape
    <3>. QED
      BY <3>1, <3>2, <1>6
  <2>3. pass'.job # 0 => jobs'[pass'.job].kind \in {"judge", "named"}
    BY <1>2, <1>4, <1>7
  <2>. QED
    BY <1>2, <1>4, <1>5, <1>7, <2>1, <2>3, Zenon DEF RsInv, RsShapes
<1>10. RsEngines'
  <2>1. ASSUME ~R!SecondJudge(j), NEW i \in R!AsVetted(jobs[j].run) PROVE rows[i].engine = R!Engine(m)
    BY <2>1 DEF R!SecondJudge, R!AsVetted
  <2>2. pass'.job # 0 /\ pass'.vetted # R!Nothing =>
          pass'.job = j /\ jobs'[j].run = jobs[j].run /\ pass'.vetted = m /\ ~R!SecondJudge(j)
    BY <1>2, <1>4, <1>7
  <2>. QED
    BY <1>2, <2>1, <2>2, SameVerdicts DEF RsInv, RsEngines
<1>11. ASSUME RsQuiet' PROVE RsLoads'
  <2>1. orderly /\ jobs'[j].starts = 1 /\ s # "new" /\ \A k \in DOMAIN jobs : k > j => jobs[k].starts = 0
    <3>1. orderly'
      BY <1>11 DEF RsQuiet
    <3>2. jobs'[j].status # "new"
      BY <1>1, <3>1, Zenon DEF R!StartsJob, R!Amiss
    <3>3. orderly /\ jobs[j].starts = 0 /\ \A k \in DOMAIN jobs : k > j => jobs[k].starts = 0
      BY <1>1, <3>1, <3>2, Zenon DEF R!StartsJob
    <3>. QED
      BY <1>4, <3>2, <3>3
  <2>2. jobs[j].starts = 0 /\ jobs[j].kind # "convert"
    BY <1>4, <1>11, <2>1 DEF RsQuiet
  <2>3. RsQuiet
    BY <1>4, <1>11, <2>1, <2>2 DEF RsQuiet
  <2>4. RsLoads
    BY <2>3 DEF RsInv
  <2>5. \A k \in DOMAIN jobs : R!Resolve(k)' = R!Resolve(k) /\ \A y : R!Evicts(k, y)' <=> R!Evicts(k, y)
    BY <1>2, <1>4, SameJudge
  <2>6. Line'
    <3>1. ASSUME NEW k \in DOMAIN jobs' PROVE jobs'[k].starts \in {0, 1} /\ (jobs'[k].starts = 1 <=> jobs'[k].status # "new")
      <4>1. k \in DOMAIN jobs /\ jobs[k].starts \in {0, 1} /\ (jobs[k].starts = 1 <=> jobs[k].status # "new")
        BY <1>4, <2>4, Zenon DEF RsLoads, Line
      <4>2. CASE k = j
        <5>1. jobs'[k].starts = 1 /\ jobs'[k].status = s
          BY <1>4, <2>1, <4>1, <4>2, Zenon
        <5>. QED
          BY <5>1, <2>1
      <4>3. CASE k # j
        <5>1. jobs'[k].starts = jobs[k].starts /\ jobs'[k].status = jobs[k].status
          BY <1>4, <4>1, <4>3, Zenon
        <5>. QED
          BY <4>1, <5>1, Zenon
      <4>. QED
        BY <4>2, <4>3
    <3>2. pass'.job # 0 => /\ jobs'[pass'.job].starts = 1
                           /\ \A k \in DOMAIN jobs' : k > pass'.job => jobs'[k].starts = 0
      <4>1. ASSUME NEW k \in DOMAIN jobs, k > j PROVE jobs'[k].starts = 0
        <5>1. k # j
          BY <1>2, <4>1
        <5>. QED
          BY <1>4, <2>1, <4>1, <5>1, Zenon
      <4>. QED
        BY <1>4, <1>7, <2>1, <4>1, Zenon
    <3>3. began' = 1 /\ pass'.id = R!NoId
      BY <1>2, <1>7, <2>4 DEF RsLoads, Line
    <3>. QED
      BY <3>1, <3>2, <3>3, Zenon DEF Line
  <2>7. ASSUME NEW i \in DOMAIN rows PROVE /\ RowOfTheLine(i) /\ Since(i) /\ rows[i].id # j /\ rows[i].id # 0
                                           /\ j > rows[i].id
    <3>1. RowOfTheLine(i) /\ Since(i)
      BY <2>4 DEF RsLoads
    <3>2. rows[i].id \in DOMAIN jobs /\ jobs[rows[i].id].starts = 1
      BY <3>1 DEF RowOfTheLine
    <3>3. rows[i].id \in Nat /\ rows[i].id # 0
      BY <3>2, JobIds DEF RsInv
    <3>. QED
      BY <1>2, <2>1, <2>2, <3>1, <3>2, <3>3
  <2>8. ASSUME NEW i \in DOMAIN rows PROVE RowOfTheLine(i)'
    BY <1>2, <1>4, <1>7, <2>7 DEF RowOfTheLine
  <2>9. ASSUME NEW i \in DOMAIN rows PROVE Since(i)'
    <3>1. CASE jobs[j].kind = "run"
      <4>1. R!Evicts(j, rows[i].model)'
        BY <3>1, <1>4 DEF R!Evicts
      <4>. QED
        BY <4>1, <1>2, <1>4, <2>1, <2>7 DEF Since
    <3>2. CASE jobs[j].kind # "run"
      BY <3>2, <1>2, <1>4, <1>5, <2>2, <2>5, <2>7 DEF Since
    <3>. QED
      BY <3>1, <3>2
  <2>10. OneLoadEach' /\ AtTheCard'
    BY <1>2, <1>7, <2>4 DEF RsLoads, OneLoadEach, AtTheCard
  <2>. QED
    BY <1>2, <2>6, <2>8, <2>9, <2>10 DEF RsLoads
<1>. QED
  BY <1>8, <1>10, <1>11 DEF RsInv

LEMMA RsStep == ASSUME RsInv, R!RsNext \/ UNCHANGED instrument PROVE RsInv'
PROOF
<1>1. CASE UNCHANGED instrument
  <2>1. UNCHANGED <<seat, card, load, began, jobs, pass, rows, orderly>>
    BY <1>1 DEF instrument
  <2>2. RsShapes'
    BY <2>1 DEF RsInv, RsShapes, PassShape
  <2>3. RsEngines'
    BY <2>1, SameVerdicts DEF RsInv, RsEngines
  <2>4. \A k : R!Resolve(k)' = R!Resolve(k) /\ \A x : R!Evicts(k, x)' <=> R!Evicts(k, x)
    BY <2>1, SameJudge
  <2>5. ASSUME RsQuiet' PROVE RsLoads'
    <3>1. RsLoads
      BY <2>1, <2>5 DEF RsInv, RsQuiet
    <3>2. Line' /\ OneLoadEach' /\ AtTheCard'
      BY <2>1, <2>4, <3>1 DEF RsLoads, Line, OneLoadEach, AtTheCard
    <3>3. \A i \in DOMAIN rows : RowOfTheLine(i)' /\ Since(i)'
      BY <2>1, <2>4, <3>1 DEF RsLoads, RowOfTheLine, Since
    <3>. QED
      BY <2>1, <3>2, <3>3 DEF RsLoads
  <2>. QED
    BY <2>2, <2>3, <2>5 DEF RsInv
<1>2. CASE R!RsNext
  BY <1>2, RsStartsJob, RsTakesCard, RsTakesSeat, RsChecks, RsCalls, RsStamps, RsShifts DEF R!RsNext
<1>. QED
  BY <1>1, <1>2

-----------------------------------------------------------------------------
(* The answering graph *)

(* The fields of the graph's state, and what bounds it at each node: five super-steps a hop at most, *)
(* and text or a failure only where the turns are over.                                              *)
AgFields ==
  {"node", "steps", "hops", "nudges", "external", "reason", "opened", "announced", "notice", "text",
   "finished", "failed", "by", "awaiting", "turn", "pending", "coverage", "dropping", "grading",
   "memo", "asks", "transcript", "sources", "contexts", "spans", "offered"}
Shaped(s) == s = [f \in AgFields |-> s[f]]
Turning == {"model", "retrieve", "grade", "fallback", "emit"}
(* how many of a hop's five super-steps are ahead of a node *)
Ahead == [model |-> 0, retrieve |-> 4, grade |-> 3, fallback |-> 2, emit |-> 1, final |-> 0]
Within(s) ==
  /\ Shaped(s) /\ s.hops \in Nat /\ s.steps \in Nat
  /\ s.node \in Turning \cup {"final", "end"}
  /\ s.node \in Turning => ~s.failed /\ s.text = NoText
  /\ s.node = "model" => s.hops < MaxHops
  /\ s.node # "end" => s.hops <= MaxHops /\ s.steps + Ahead[s.node] <= 5 * s.hops
  /\ s.node = "end" => s.steps <= 5 * MaxHops + 1
  /\ s.failed => s.text = NoText

LEMMA FreshWithin == ASSUME NEW c PROVE Within(Fresh(c)) /\ Fresh(c).node = "model"
<1>1. Shaped(Fresh(c))
  BY DEF Shaped, AgFields, Fresh
<1>2. /\ Fresh(c).node = "model" /\ Fresh(c).hops = 0 /\ Fresh(c).steps = 0
      /\ Fresh(c).failed = FALSE /\ Fresh(c).text = NoText
  BY DEF Fresh
<1>3. MaxHops \in Nat /\ 0 < MaxHops
  BY GraphAssumption
<1>4. Ahead["model"] = 0 /\ Fresh(c).node \in Turning
  BY <1>2 DEF Ahead, Turning
<1>. DEFINE s == Fresh(c)
<1>. HIDE DEF s
<1>5. /\ Shaped(s) /\ s.node = "model" /\ s.hops = 0 /\ s.steps = 0 /\ s.failed = FALSE /\ s.text = NoText
      /\ s.node \in Turning
  BY <1>1, <1>2, <1>4 DEF s
<1>6. Within(s)
  <2>1. s.steps + Ahead[s.node] = 0 /\ 5 * s.hops = 0
    BY <1>4, <1>5
  <2>. QED
    <3>1. s.node # "end" /\ s.hops < MaxHops /\ s.hops <= MaxHops /\ s.steps + Ahead[s.node] <= 5 * s.hops
      BY <1>3, <1>5, <2>1
    <3>2. s.hops \in Nat /\ s.steps \in Nat
      BY <1>5
    <3>3. s.failed => s.text = NoText
      BY <1>5
    <3>. QED
      BY <1>5, <3>1, <3>2, <3>3 DEF Within
<1>. QED
  BY <1>2, <1>6 DEF s

LEMMA ModelWithin ==
  ASSUME NEW c, NEW s, NEW turn, Within(s), s.node = "model"
  PROVE  /\ Within(ModelNode(c, s, turn))
         /\ LET t == ModelNode(c, s, turn)
            IN /\ t.node \in {"final", "retrieve", "model"} /\ t.hops = s.hops + 1
               /\ t.spans = s.spans /\ t.external = s.external /\ t.grading = s.grading
               /\ \/ t.offered = s.offered /\ t.node = "final"
                  \/ t.offered = Append(s.offered, Offered(c, s)) /\ t.turn = turn
<1>1. Shaped(s) /\ DOMAIN s = AgFields
  BY DEF Within, Shaped
<1>. DEFINE at == [s EXCEPT !.hops = @ + 1]
            said == [at EXCEPT !.offered = Append(@, Offered(c, s)), !.turn = turn, !.transcript = Append(@, turn)]
            A == [at EXCEPT !.failed = TRUE, !.finished = TRUE]
            B == [said EXCEPT !.awaiting = TRUE]
            D == [said EXCEPT !.nudges = @ - 1, !.awaiting = FALSE, !.transcript = Append(@, Note("nudge"))]
            E == [said EXCEPT !.text = turn.said, !.finished = TRUE]
            Same(t) == /\ Shaped(t) /\ t.hops = s.hops + 1 /\ t.steps = s.steps /\ t.spans = s.spans
                       /\ t.external = s.external /\ t.grading = s.grading
<1>2. Same(at) /\ at.offered = s.offered /\ at.text = s.text /\ at.failed = s.failed
  BY <1>1 DEF Shaped, AgFields
<1>3. /\ Same(said) /\ said.offered = Append(s.offered, Offered(c, s)) /\ said.turn = turn
      /\ said.text = s.text /\ said.failed = s.failed /\ DOMAIN said = AgFields
  BY <1>1, <1>2 DEF Shaped, AgFields
<1>4. Same(A) /\ A.offered = s.offered /\ A.failed = TRUE /\ A.finished = TRUE /\ A.text = s.text
  BY <1>1, <1>2 DEF Shaped, AgFields
<1>. HIDE DEF said
<1>5. Same(B) /\ B.offered = said.offered /\ B.turn = turn /\ B.text = s.text /\ B.failed = s.failed
  BY <1>3 DEF Shaped, AgFields
<1>6. Same(D) /\ D.offered = said.offered /\ D.turn = turn /\ D.text = s.text /\ D.failed = s.failed
  BY <1>3 DEF Shaped, AgFields
<1>7. Same(E) /\ E.offered = said.offered /\ E.turn = turn /\ E.finished = TRUE /\ E.failed = s.failed
  BY <1>3 DEF Shaped, AgFields
<1>. DEFINE after == IF turn.raises THEN A ELSE IF turn.calls # <<>> THEN B
                     ELSE IF s.nudges > 0 /\ turn.said = "narrated" THEN D ELSE E
<1>8. ModelNode(c, s, turn) = Stepped(after, AfterModel(after))
  BY DEF ModelNode, said
<1>9. /\ Same(after)
      /\ \/ after = A \/ after \in {B, D, E}
      /\ ~after.finished => after.text = NoText /\ ~after.failed
      /\ after.failed => after.text = NoText
  <2>1. s.failed = FALSE /\ s.text = NoText
    BY DEF Within, Turning
  <2>. HIDE DEF A, B, D, E, Same
  <2>. QED
    BY <1>4, <1>5, <1>6, <1>7, <2>1
<1>10. \/ after.offered = s.offered /\ after.finished = TRUE
       \/ after.offered = Append(s.offered, Offered(c, s)) /\ after.turn = turn
  <2>. HIDE DEF A, B, D, E, Same
  <2>. QED
    BY <1>3, <1>4, <1>5, <1>6, <1>7, <1>9
<1>. HIDE DEF after
<1>11. AfterModel(after) \in {"final", "retrieve", "model"} /\ (after.finished => AfterModel(after) = "final")
       /\ (AfterModel(after) = "model" => after.hops < MaxHops) /\ (AfterModel(after) # "final" => ~after.finished)
  BY DEF AfterModel
<1>. DEFINE t == Stepped(after, AfterModel(after))
<1>12. /\ Shaped(t) /\ t.node = AfterModel(after) /\ t.steps = after.steps + 1 /\ t.hops = after.hops /\ t.spans = after.spans
       /\ t.external = after.external /\ t.grading = after.grading /\ t.offered = after.offered /\ t.turn = after.turn
       /\ t.failed = after.failed /\ t.text = after.text
  BY <1>9 DEF Shaped, AgFields, Stepped
<1>13. s.hops \in Nat /\ s.steps \in Nat /\ s.steps <= 5 * s.hops /\ s.hops < MaxHops
  BY DEF Within, Ahead
<1>. HIDE DEF t
<1>14. Within(t)
  BY <1>9, <1>11, <1>12, <1>13, GraphAssumption DEF Within, Turning, Ahead
<1>. QED
  BY <1>8, <1>9, <1>10, <1>11, <1>12, <1>14 DEF t

(* The nodes between the model's turn and the next one *)
LEMMA RetrieveWithin ==
  ASSUME NEW c, NEW s, NEW found, Within(s), s.node = "retrieve"
  PROVE  LET t == RetrieveNode(c, s, found)
         IN /\ Within(t) /\ t.node = "grade" /\ t.hops = s.hops /\ t.spans = s.spans /\ t.offered = s.offered
            /\ t.external = s.external /\ t.grading = s.grading
            /\ t.pending = found /\ t.coverage = Verdict(c, found)
<1>. DEFINE t == RetrieveNode(c, s, found)
<1>1. /\ Shaped(t) /\ t.node = "grade" /\ t.hops = s.hops /\ t.spans = s.spans /\ t.offered = s.offered
      /\ t.external = s.external /\ t.grading = s.grading /\ t.steps = s.steps + 1 /\ t.text = s.text
      /\ t.failed = s.failed /\ t.pending = found /\ t.coverage = Verdict(c, found)
  BY DEF Within, Shaped, AgFields, RetrieveNode, Stepped
<1>. HIDE DEF t
<1>2. Within(t)
  BY <1>1 DEF Within, Turning, Ahead
<1>. QED
  BY <1>1, <1>2 DEF t

(* what grading a hop leaves of its calls, and the plan beside them *)
KeptOf(memo, calls) == [i \in DOMAIN calls |-> KeepOnly(memo, calls[i])]
Graded(c, s, t) ==
  \/ t.pending = s.pending /\ t.coverage = s.coverage /\ t.grading = s.grading
  \/ /\ Grades(c, s) /\ t.coverage \in {s.coverage, "graded_out"}
     /\ s.coverage # "" => t.coverage = s.coverage
     /\ \E memo : t.pending = KeptOf(memo, s.pending)
     /\ DOMAIN t.grading = {j \in Searched(s.pending) : s.pending[j].pieces # <<>>}
LEMMA GradeWithin ==
  ASSUME NEW c, NEW s, NEW verdicts, Within(s), s.node = "grade"
  PROVE  LET t == GradeNode(c, s, verdicts)
         IN /\ Within(t) /\ t.node \in {"emit", "fallback"} /\ t.hops = s.hops /\ t.spans = s.spans
            /\ t.offered = s.offered /\ t.external = s.external
            /\ (t.node = "fallback" <=> t.coverage # "")
            /\ Graded(c, s, t)
<1>. DEFINE asked == ToAsk(c, s)
            place(f) == CHOOSE i \in DOMAIN asked : asked[i] = f
            memo == [f \in DOMAIN s.memo \cup ToSet(asked) |->
                       IF f \in DOMAIN s.memo THEN s.memo[f] ELSE verdicts[place(f)]]
            told == SelectSeq([i \in DOMAIN asked |-> [key |-> asked[i], said |-> verdicts[i]]],
                              LAMBDA a : a.said # "raises")
            kept == KeptOf(memo, s.pending)
            plan == [i \in {j \in Searched(s.pending) : s.pending[j].pieces # <<>>} |->
                       [order |-> s.pending[i].pieces, dropped |-> Dropped(memo, s.pending[i]),
                        sources |-> s.pending[i].sources]]
            emptied == DOMAIN plan # {} /\ s.coverage = "" /\ NothingFound(kept)
            graded == [s EXCEPT !.memo = memo, !.asks = @ \o told, !.pending = kept, !.grading = plan,
                                !.coverage = IF emptied THEN "graded_out" ELSE @]
            after == IF ~Grades(c, s) THEN s ELSE graded
            t == GradeNode(c, s, verdicts)
<1>1. t = Stepped(after, IF after.coverage = "" THEN "emit" ELSE "fallback")
  BY DEF GradeNode, KeptOf
<1>2. kept = KeptOf(memo, s.pending) /\ DOMAIN plan = {j \in Searched(s.pending) : s.pending[j].pieces # <<>>}
  OBVIOUS
<1>3. emptied => s.coverage = ""
  OBVIOUS
<1>. HIDE DEF asked, place, memo, told, kept, plan, emptied
<1>4. /\ Shaped(graded) /\ graded.hops = s.hops /\ graded.spans = s.spans /\ graded.offered = s.offered
      /\ graded.external = s.external /\ graded.steps = s.steps /\ graded.text = s.text
      /\ graded.failed = s.failed /\ graded.pending = kept /\ graded.grading = plan
      /\ graded.coverage = IF emptied THEN "graded_out" ELSE s.coverage
  BY DEF Within, Shaped, AgFields
<1>. HIDE DEF graded
<1>5. /\ Shaped(after) /\ after.hops = s.hops /\ after.spans = s.spans /\ after.offered = s.offered
      /\ after.external = s.external /\ after.steps = s.steps /\ after.text = s.text /\ after.failed = s.failed
  BY <1>4 DEF Within
<1>6. \/ after.pending = s.pending /\ after.coverage = s.coverage /\ after.grading = s.grading
      \/ /\ Grades(c, s) /\ after.coverage \in {s.coverage, "graded_out"}
         /\ s.coverage # "" => after.coverage = s.coverage
         /\ after.pending = kept /\ after.grading = plan
  BY <1>3, <1>4
<1>. HIDE DEF after, t
<1>7. /\ Shaped(t) /\ t.node = (IF after.coverage = "" THEN "emit" ELSE "fallback")
      /\ t.hops = s.hops /\ t.spans = s.spans /\ t.offered = s.offered
      /\ t.external = s.external /\ t.steps = s.steps + 1 /\ t.text = s.text /\ t.failed = s.failed
      /\ t.pending = after.pending /\ t.coverage = after.coverage /\ t.grading = after.grading
  BY <1>1, <1>5 DEF Shaped, AgFields, Stepped
<1>8. Within(t) /\ t.node \in {"emit", "fallback"} /\ (t.node = "fallback" <=> t.coverage # "")
  <2>1. t.node \in {"emit", "fallback"} /\ (t.node = "fallback" <=> t.coverage # "")
    BY <1>7
  <2>2. Within(t)
    <3>1. Shaped(t) /\ t.hops = s.hops /\ t.steps = s.steps + 1 /\ t.text = s.text /\ t.failed = s.failed
      BY <1>7
    <3>2. CASE t.node = "emit"
      BY <3>1, <3>2 DEF Within, Turning, Ahead
    <3>3. CASE t.node = "fallback"
      BY <3>1, <3>3 DEF Within, Turning, Ahead
    <3>. QED
      BY <2>1, <3>2, <3>3
  <2>. QED
    BY <2>1, <2>2
<1>9. Graded(c, s, t)
  BY <1>2, <1>6, <1>7 DEF Graded
<1>. QED
  BY <1>7, <1>8, <1>9 DEF t

LEMMA FallbackWithin ==
  ASSUME NEW c, NEW s, Within(s), s.node = "fallback"
  PROVE  LET t == FallbackNode(c, s)
         IN /\ Within(t) /\ t.node = "emit" /\ t.hops = s.hops /\ t.spans = s.spans /\ t.offered = s.offered
            /\ t.grading = s.grading
            /\ t.pending = (IF DropsWeak(c, s) THEN DropWeak(s).pending ELSE s.pending)
            /\ t.external = (IF Opens(c, s) THEN TRUE ELSE s.external)
<1>. DEFINE left == IF DropsWeak(c, s) THEN DropWeak(s) ELSE s
            heard == IF Announces(c, s) THEN [left EXCEPT !.announced = TRUE, !.notice = c.remote] ELSE left
            why == [heard EXCEPT !.reason = IF @ = "none" THEN s.coverage ELSE @]
            open == IF Opens(c, s) THEN [why EXCEPT !.external = TRUE, !.opened = TRUE] ELSE why
            t == FallbackNode(c, s)
            Same(x) == /\ Shaped(x) /\ x.hops = s.hops /\ x.spans = s.spans /\ x.offered = s.offered
                       /\ x.grading = s.grading /\ x.text = s.text /\ x.failed = s.failed
                       /\ x.pending = (IF DropsWeak(c, s) THEN DropWeak(s).pending ELSE s.pending)
<1>1. t = Stepped(open, "emit")
  BY DEF FallbackNode
<1>2. Same(left) /\ left.external = s.external /\ left.steps = s.steps
  BY DEF Within, Shaped, AgFields, DropWeak
<1>. HIDE DEF left
<1>3. Same(heard) /\ heard.external = s.external /\ heard.steps = s.steps
  BY <1>2 DEF Shaped, AgFields
<1>. HIDE DEF heard
<1>4. Same(why) /\ why.external = s.external /\ why.steps = s.steps
  BY <1>3 DEF Shaped, AgFields
<1>. HIDE DEF why
<1>5. Same(open) /\ open.external = (IF Opens(c, s) THEN TRUE ELSE s.external) /\ open.steps = s.steps
  BY <1>4 DEF Shaped, AgFields
<1>. HIDE DEF open, t
<1>6. Same(t) /\ t.external = (IF Opens(c, s) THEN TRUE ELSE s.external) /\ t.steps = s.steps + 1 /\ t.node = "emit"
  BY <1>1, <1>5 DEF Shaped, AgFields, Stepped
<1>7. Within(t)
  BY <1>6 DEF Within, Turning, Ahead
<1>. QED
  BY <1>6, <1>7 DEF t

LEMMA EmitWithin ==
  ASSUME NEW c, NEW s, Within(s), s.node = "emit"
  PROVE  LET t == EmitNode(c, s)
         IN /\ Within(t) /\ t.node \in {"model", "final"} /\ t.hops = s.hops /\ t.offered = s.offered
            /\ t.external = s.external /\ t.grading = <<>>
            /\ t.spans = s.spans \o [i \in DOMAIN s.pending |-> SpanOf(s, i)]
<1>. DEFINE used == Consumed(s)
            shown == [used EXCEPT
                        !.transcript = @ \o Spoken(c, s), !.sources = @ \o Stamped(s, HitsOf(s.pending)),
                        !.contexts = @ \o FlattenSeq([i \in DOMAIN s.pending |-> s.pending[i].pieces]),
                        !.spans = @ \o [i \in DOMAIN s.pending |-> SpanOf(s, i)]]
            t == EmitNode(c, s)
            Same(x) == /\ Shaped(x) /\ x.hops = s.hops /\ x.offered = s.offered /\ x.external = s.external
                       /\ x.grading = <<>> /\ x.text = s.text /\ x.failed = s.failed
<1>1. t = Stepped(shown, IF s.hops < MaxHops THEN "model" ELSE "final")
  BY DEF EmitNode
<1>2. Same(used) /\ used.spans = s.spans /\ used.steps = s.steps
  BY DEF Within, Shaped, AgFields, Consumed
<1>. HIDE DEF used
<1>3. Same(shown) /\ shown.spans = s.spans \o [i \in DOMAIN s.pending |-> SpanOf(s, i)] /\ shown.steps = s.steps
  BY <1>2 DEF Shaped, AgFields
<1>. HIDE DEF shown, t
<1>4. /\ Same(t) /\ t.spans = shown.spans /\ t.steps = s.steps + 1
      /\ t.node = IF s.hops < MaxHops THEN "model" ELSE "final"
  BY <1>1, <1>3 DEF Shaped, AgFields, Stepped
<1>5. Within(t)
  BY <1>4, GraphAssumption DEF Within, Turning, Ahead
<1>. QED
  BY <1>3, <1>4, <1>5 DEF t

LEMMA FinalWithin ==
  ASSUME NEW s, NEW turn, Within(s), s.node = "final"
  PROVE  LET t == FinalNode(s, turn)
         IN Within(t) /\ t.node = "end" /\ t.spans = s.spans /\ t.offered = s.offered
<1>. DEFINE asked == IF s.sources = <<>> THEN [s EXCEPT !.transcript = Append(@, Note("no_evidence"))] ELSE s
            named == [asked EXCEPT !.by = IF s.hops >= MaxHops THEN "hops_exhausted" ELSE "no_answer"]
            A == [s EXCEPT !.by = IF s.text # NoText THEN "answer" ELSE "no_answer"]
            B == [named EXCEPT !.hops = @ + 1, !.text = turn.said, !.transcript = Append(@, turn)]
            after == IF ~Forces(s) THEN A ELSE IF turn.raises THEN named ELSE B
            t == FinalNode(s, turn)
            Same(x) == /\ Shaped(x) /\ x.spans = s.spans /\ x.offered = s.offered /\ x.steps = s.steps
                       /\ x.failed = s.failed
<1>1. t = Stepped(after, "end")
  BY DEF FinalNode
<1>2. Same(A) /\ A.text = s.text /\ A.hops = s.hops
  BY DEF Within, Shaped, AgFields
<1>3. Same(asked) /\ asked.text = s.text /\ asked.hops = s.hops
  BY DEF Within, Shaped, AgFields
<1>. HIDE DEF asked, A
<1>4. Same(named) /\ named.text = s.text /\ named.hops = s.hops
  BY <1>3 DEF Shaped, AgFields
<1>. HIDE DEF named
<1>5. Same(B) /\ B.hops = s.hops + 1
  BY <1>4 DEF Shaped, AgFields
<1>. HIDE DEF B
<1>6. Same(after) /\ after.hops \in {s.hops, s.hops + 1} /\ (after.failed => after.text = NoText)
  BY <1>2, <1>4, <1>5 DEF Forces, Within
<1>. HIDE DEF after, t
<1>7. /\ Shaped(t) /\ t.spans = s.spans /\ t.offered = s.offered /\ t.steps = s.steps + 1 /\ t.failed = s.failed
      /\ t.node = "end" /\ t.hops = after.hops /\ t.text = after.text
  BY <1>1, <1>6 DEF Shaped, AgFields, Stepped
<1>8. Within(t)
  BY <1>6, <1>7, GraphAssumption DEF Within, Turning, Ahead
<1>. QED
  BY <1>7, <1>8 DEF t

(* Where the outside was opened, and by which hop *)
IsList(q) == \E n \in Nat : q = [i \in 1..n |-> q[i]]
Gate(c) ==
  /\ (c.external <=> c.policy = "agent_choice")
  /\ (c.gated <=> c.policy = "corpus_first_weak")
  /\ c.gated /\ c.remote # {} => c.drop
  /\ c.offTopic => c.remote = {}
(* the hop searched the corpus and its spans show nothing to read, not by the grader's doing *)
Dry(S, hop) ==
  LET read == {s \in S : s.hop = hop /\ s.tool = "corpus"}
  IN read # {} /\ (\A s \in read : s.sources = <<>>) /\ ~(\A s \in read : GradedOut(s))
(* so will the spans of the calls at hand *)
DryCalls(s) ==
  /\ \A i \in DOMAIN s.pending : s.pending[i].tool = "corpus" => s.pending[i].sources = <<>>
  /\ \E i \in Searched(s.pending) : i \notin DOMAIN s.grading
Call(x) ==
  /\ x = [tool |-> x.tool, error |-> x.error, pieces |-> x.pieces, sources |-> x.sources]
  /\ x.tool = "corpus" /\ x.error => x.sources = <<>>
Calls(q) == IsList(q) /\ \A i \in DOMAIN q : Call(q[i])
Reasoned(c, s) ==
  \A i \in DOMAIN s.offered : s.offered[i] # {"corpus"} =>
    ~c.offTopic /\ (c.policy = "agent_choice" \/ \E hop \in 1..i - 1 : Dry(Spans(s), hop))
Open(c, s) ==
  /\ s.offered \in Seq(ToSet(s.offered)) /\ Len(s.offered) = s.hops
  /\ IsList(s.spans)
  /\ \A x \in Spans(s) : x.hop \in Nat /\ (IF s.node = "model" THEN x.hop <= s.hops ELSE x.hop < s.hops)
  /\ s.external => \/ c.policy = "agent_choice"
                   \/ \E hop \in 1..s.hops : (s.node = "model" \/ hop < s.hops) /\ Dry(Spans(s), hop)
                   \/ s.node = "emit" /\ DryCalls(s)
Pieced(s) == \A i \in DOMAIN s.pending : s.pending[i].sources = <<>> => s.pending[i].pieces = <<>>
Outside(c, s) ==
  /\ Gate(c) /\ Reasoned(c, s)
  /\ s.node \in Turning => Open(c, s)
  /\ s.node \in {"model", "retrieve", "grade"} => s.grading = <<>>
  /\ s.node = "retrieve" => IsList(s.turn.calls)
  /\ s.node \in {"grade", "fallback", "emit"} => Calls(s.pending)
  /\ s.node = "grade" => s.coverage = Verdict(c, s.pending) /\ Pieced(s)
  /\ s.node = "fallback" =>
       /\ s.coverage \in {"empty", "weak", "off_topic", "graded_out"}
       /\ s.coverage = "empty" => DryCalls(s)
       /\ s.coverage = "weak" => c.gated /\ Searched(s.pending) # {} /\ (c.drop => s.grading = <<>>)
       /\ s.coverage = "off_topic" => c.offTopic

LEMMA ListIsSeq == ASSUME NEW q, IsList(q) PROVE q \in Seq(ToSet(q))
<1>1. PICK n \in Nat : q = [i \in 1..n |-> q[i]]
  BY DEF IsList
<1>2. DOMAIN q = 1..n /\ \A i \in 1..n : q[i] \in ToSet(q)
  BY <1>1 DEF ToSet
<1>. QED
  BY <1>1, <1>2, SeqDef

LEMMA SeqIsList == ASSUME NEW S, NEW q \in Seq(S) PROVE IsList(q)
<1>1. q = [i \in 1..Len(q) |-> q[i]] /\ Len(q) \in Nat
  OBVIOUS
<1>. QED
  BY <1>1 DEF IsList

LEMMA ConcatOf ==
  ASSUME NEW p, NEW q, IsList(p), IsList(q)
  PROVE  IsList(p \o q) /\ ToSet(p \o q) = ToSet(p) \cup ToSet(q)
<1>. DEFINE S == ToSet(p) \cup ToSet(q)
<1>1. p \in Seq(S) /\ q \in Seq(S)
  <2>1. p \in Seq(ToSet(p)) /\ q \in Seq(ToSet(q))
    BY ListIsSeq
  <2>. QED
    BY <2>1
<1>2. p \o q \in Seq(S) /\ Len(p \o q) = Len(p) + Len(q) /\ Len(p) \in Nat /\ Len(q) \in Nat
  BY <1>1
<1>3. \A i \in 1..Len(p) + Len(q) : (p \o q)[i] = IF i <= Len(p) THEN p[i] ELSE q[i - Len(p)]
  BY <1>1
<1>4. DOMAIN p = 1..Len(p) /\ DOMAIN q = 1..Len(q) /\ DOMAIN (p \o q) = 1..Len(p) + Len(q)
  BY <1>1, <1>2
<1>5. ASSUME NEW i \in DOMAIN p PROVE \E k \in DOMAIN (p \o q) : (p \o q)[k] = p[i]
  <2>1. i \in 1..Len(p) + Len(q) /\ i <= Len(p)
    BY <1>2, <1>4, <1>5
  <2>. QED
    BY <1>3, <1>4, <2>1
<1>6. ASSUME NEW i \in DOMAIN q PROVE \E k \in DOMAIN (p \o q) : (p \o q)[k] = q[i]
  <2>1. i + Len(p) \in 1..Len(p) + Len(q) /\ ~(i + Len(p) <= Len(p)) /\ (i + Len(p)) - Len(p) = i
    BY <1>2, <1>4, <1>6
  <2>. QED
    BY <1>3, <1>4, <2>1
<1>7. ASSUME NEW k \in DOMAIN (p \o q)
      PROVE  (\E i \in DOMAIN p : (p \o q)[k] = p[i]) \/ (\E i \in DOMAIN q : (p \o q)[k] = q[i])
  <2>1. CASE k <= Len(p)
    BY <1>2, <1>3, <1>4, <1>7, <2>1
  <2>2. CASE ~(k <= Len(p))
    <3>1. k - Len(p) \in 1..Len(q)
      BY <1>2, <1>4, <1>7, <2>2
    <3>. QED
      BY <1>3, <1>4, <1>7, <2>2, <3>1
  <2>. QED
    BY <2>1, <2>2
<1>8. {(p \o q)[i] : i \in DOMAIN (p \o q)} = {p[i] : i \in DOMAIN p} \cup {q[i] : i \in DOMAIN q}
  BY <1>5, <1>6, <1>7
<1>. QED
  BY <1>2, <1>8, SeqIsList DEF ToSet

LEMMA FreshOutside == ASSUME NEW c, Gate(c) PROVE Outside(c, Fresh(c))
<1>. DEFINE s == Fresh(c)
<1>1. /\ s.node = "model" /\ s.hops = 0 /\ s.offered = <<>> /\ s.spans = <<>> /\ s.grading = <<>>
      /\ s.external = c.external
  BY DEF Fresh
<1>. HIDE DEF s
<1>2. s.offered \in Seq(ToSet(s.offered)) /\ Len(s.offered) = 0 /\ DOMAIN s.offered = {}
  BY <1>1
<1>3. Spans(s) = {} /\ IsList(s.spans)
  <2>1. Spans(s) = {}
    BY <1>1 DEF Spans
  <2>2. <<>> \in Seq({})
    OBVIOUS
  <2>3. IsList(<<>>)
    BY <2>2, SeqIsList
  <2>. QED
    BY <1>1, <2>1, <2>3
<1>4. s.external => c.policy = "agent_choice"
  BY <1>1 DEF Gate
<1>5. Open(c, s) /\ Reasoned(c, s)
  BY <1>1, <1>2, <1>3, <1>4 DEF Open, Reasoned
<1>6. Outside(c, s)
  BY <1>1, <1>5 DEF Outside
<1>. QED
  BY <1>6 DEF s

LEMMA ModelOutside ==
  ASSUME NEW c, NEW s, NEW turn, Within(s), Outside(c, s), s.node = "model", IsList(turn.calls)
  PROVE  Outside(c, ModelNode(c, s, turn))
<1>. DEFINE t == ModelNode(c, s, turn)
<1>1. /\ Within(t) /\ t.node \in {"final", "retrieve", "model"} /\ t.hops = s.hops + 1
      /\ t.spans = s.spans /\ t.external = s.external /\ t.grading = s.grading
      /\ \/ t.offered = s.offered /\ t.node = "final"
         \/ t.offered = Append(s.offered, Offered(c, s)) /\ t.turn = turn
  BY ModelWithin
<1>. HIDE DEF t
<1>2. /\ Gate(c) /\ Reasoned(c, s) /\ Open(c, s) /\ s.grading = <<>> /\ Spans(t) = Spans(s) /\ s.hops \in Nat
  BY <1>1 DEF Outside, Within, Turning, Spans
<1>3. Offered(c, s) # {"corpus"} =>
        ~c.offTopic /\ (c.policy = "agent_choice" \/ \E hop \in 1..s.hops : Dry(Spans(s), hop))
  <2>1. ASSUME Offered(c, s) # {"corpus"} PROVE s.external /\ c.remote # {}
    BY <2>1 DEF Offered
  <2>. QED
    BY <1>2, <2>1 DEF Open, Gate
<1>4. ASSUME t.offered = s.offered, t.node = "final" PROVE Outside(c, t)
  BY <1>2, <1>4 DEF Outside, Reasoned, Turning
<1>5. ASSUME t.offered = Append(s.offered, Offered(c, s)), t.turn = turn PROVE Outside(c, t)
  <2>1. /\ t.offered \in Seq(ToSet(s.offered) \cup {Offered(c, s)}) /\ Len(t.offered) = s.hops + 1
        /\ DOMAIN s.offered = 1..s.hops /\ DOMAIN t.offered = 1..s.hops + 1
        /\ \A i \in 1..s.hops : t.offered[i] = s.offered[i]
        /\ t.offered[s.hops + 1] = Offered(c, s)
    <3>1. s.offered \in Seq(ToSet(s.offered) \cup {Offered(c, s)}) /\ Len(s.offered) = s.hops
      BY <1>2 DEF Open
    <3>. QED
      BY <1>2, <1>5, <3>1
  <2>2. Reasoned(c, t)
    <3>1. SUFFICES ASSUME NEW i \in 1..s.hops + 1, t.offered[i] # {"corpus"}
                   PROVE  ~c.offTopic /\ (c.policy = "agent_choice" \/ \E hop \in 1..i - 1 : Dry(Spans(s), hop))
      BY <1>2, <2>1 DEF Reasoned
    <3>2. CASE i \in 1..s.hops
      BY <1>2, <2>1, <3>1, <3>2 DEF Reasoned
    <3>3. CASE i = s.hops + 1
      BY <1>2, <1>3, <2>1, <3>1, <3>3
    <3>. QED
      BY <1>2, <3>1, <3>2, <3>3
  <2>3. t.offered \in Seq(ToSet(t.offered))
    BY <2>1, SeqIsList, ListIsSeq
  <2>4. Open(c, t)
    <3>1. IsList(t.spans) /\ Len(t.offered) = t.hops
      BY <1>1, <1>2, <2>1 DEF Open
    <3>2. \A x \in Spans(t) : x.hop \in Nat /\ x.hop < t.hops
      BY <1>1, <1>2 DEF Open
    <3>3. t.external => c.policy = "agent_choice" \/ \E hop \in 1..t.hops : hop < t.hops /\ Dry(Spans(t), hop)
      BY <1>1, <1>2 DEF Open
    <3>4. \A x \in Spans(t) : x.hop \in Nat /\ x.hop <= t.hops
      BY <1>1, <1>2, <3>2
    <3>. QED
      BY <2>3, <3>1, <3>2, <3>3, <3>4 DEF Open
  <2>. QED
    BY <1>1, <1>2, <1>5, <2>2, <2>4 DEF Outside
<1>6. Outside(c, t)
  BY <1>1, <1>4, <1>5
<1>. QED
  BY <1>6 DEF t

LEMMA RetrieveOutside ==
  ASSUME NEW c, NEW s, NEW found, Within(s), Outside(c, s), s.node = "retrieve", Calls(found),
         \A i \in DOMAIN found : found[i].sources = <<>> => found[i].pieces = <<>>
  PROVE  Outside(c, RetrieveNode(c, s, found))
<1>. DEFINE t == RetrieveNode(c, s, found)
<1>1. /\ Within(t) /\ t.node = "grade" /\ t.hops = s.hops /\ t.spans = s.spans /\ t.offered = s.offered
      /\ t.external = s.external /\ t.grading = s.grading /\ t.pending = found /\ t.coverage = Verdict(c, found)
  BY RetrieveWithin
<1>. HIDE DEF t
<1>2. Gate(c) /\ Reasoned(c, s) /\ Open(c, s) /\ s.grading = <<>> /\ Spans(t) = Spans(s)
  BY <1>1 DEF Outside, Turning, Spans
<1>3. Reasoned(c, t) /\ Open(c, t) /\ Pieced(t)
  BY <1>1, <1>2 DEF Reasoned, Open, Pieced
<1>4. Outside(c, t)
  BY <1>1, <1>2, <1>3 DEF Outside
<1>. QED
  BY <1>4 DEF t

LEMMA SearchedOf ==
  ASSUME NEW q PROVE Searched(q) = {i \in DOMAIN q : q[i].tool = "corpus" /\ ~q[i].error}
BY DEF Searched, IsCorpus

LEMMA NewHits ==
  ASSUME NEW x, Call(x), NEW p, NEW h
  PROVE  [x EXCEPT !.pieces = p, !.sources = h] = [tool |-> x.tool, error |-> x.error, pieces |-> p, sources |-> h]
<1>. DEFINE y == [x EXCEPT !.pieces = p, !.sources = h]
<1>1. DOMAIN x = {"tool", "error", "pieces", "sources"}
  BY DEF Call
<1>2. /\ DOMAIN y = DOMAIN x /\ y = [f \in DOMAIN x |-> y[f]]
      /\ y.tool = x.tool /\ y.error = x.error /\ y.pieces = p /\ y.sources = h
  BY <1>1
<1>. HIDE DEF y
<1>3. y = [tool |-> x.tool, error |-> x.error, pieces |-> p, sources |-> h]
  BY <1>1, <1>2
<1>. QED
  BY <1>3 DEF y

(* a call is kept a call, and a search that found nothing is left as it is *)
LEMMA KeptCall ==
  ASSUME NEW memo, NEW x, Call(x)
  PROVE  LET y == KeepOnly(memo, x)
         IN /\ Call(y) /\ y.tool = x.tool /\ y.error = x.error
            /\ x.tool = "corpus" /\ (x.error \/ x.pieces = <<>>) => y = x
<1>1. CASE ~IsCorpus(x) \/ x.pieces = <<>>
  BY <1>1 DEF KeepOnly
<1>2. CASE IsCorpus(x) /\ x.pieces # <<>>
  <2>. DEFINE p == SelectSeq(x.pieces, LAMBDA f : memo[f] # "no")
              h == SelectSeq(x.sources, LAMBDA e : memo[e.file] # "no")
              y == [x EXCEPT !.pieces = p, !.sources = h]
  <2>1. KeepOnly(memo, x) = y
    BY <1>2 DEF KeepOnly
  <2>. HIDE DEF p, h
  <2>2. y = [tool |-> x.tool, error |-> x.error, pieces |-> p, sources |-> h]
    BY NewHits
  <2>3. ~x.error
    BY <1>2 DEF IsCorpus
  <2>. HIDE DEF y
  <2>4. Call(y) /\ y.tool = x.tool /\ y.error = x.error
    BY <2>2, <2>3 DEF Call
  <2>. QED
    BY <1>2, <2>1, <2>3, <2>4
<1>. QED
  BY <1>1, <1>2

LEMMA GradeOutside ==
  ASSUME NEW c, NEW s, NEW verdicts, Within(s), Outside(c, s), s.node = "grade"
  PROVE  Outside(c, GradeNode(c, s, verdicts))
<1>. DEFINE t == GradeNode(c, s, verdicts)
<1>1. /\ Within(t) /\ t.node \in {"emit", "fallback"} /\ t.hops = s.hops /\ t.spans = s.spans
      /\ t.offered = s.offered /\ t.external = s.external
      /\ (t.node = "fallback" <=> t.coverage # "")
      /\ Graded(c, s, t)
  BY GradeWithin
<1>. HIDE DEF t
<1>2. /\ Gate(c) /\ Reasoned(c, s) /\ Open(c, s) /\ s.grading = <<>> /\ Spans(t) = Spans(s)
      /\ Calls(s.pending) /\ s.coverage = Verdict(c, s.pending) /\ Pieced(s)
  BY <1>1 DEF Outside, Turning, Spans
<1>3. Reasoned(c, t) /\ Open(c, t)
  BY <1>1, <1>2 DEF Reasoned, Open
<1>4. /\ s.coverage \in {"", "off_topic", "empty", "weak"}
      /\ s.coverage = "empty" => Searched(s.pending) # {} /\ NothingFound(s.pending)
      /\ s.coverage = "weak" => c.gated /\ Searched(s.pending) # {}
      /\ s.coverage = "off_topic" => c.offTopic
  BY <1>2 DEF Verdict
<1>5. ASSUME t.pending = s.pending, t.coverage = s.coverage, t.grading = s.grading PROVE Outside(c, t)
  <2>1. t.coverage = "empty" => DryCalls(t)
    <3>1. SUFFICES ASSUME t.coverage = "empty" PROVE DryCalls(t)
      OBVIOUS
    <3>2. PICK i \in Searched(s.pending) : TRUE
      BY <1>4, <1>5, <3>1
    <3>3. i \in Searched(t.pending) /\ i \notin DOMAIN t.grading
      BY <1>2, <1>5, <3>2
    <3>4. \A k \in DOMAIN t.pending : t.pending[k].tool = "corpus" => t.pending[k].sources = <<>>
      BY <1>2, <1>4, <1>5, <3>1, SearchedOf DEF NothingFound, Calls, Call
    <3>. QED
      BY <3>3, <3>4 DEF DryCalls
  <2>. QED
    BY <1>1, <1>2, <1>3, <1>4, <1>5, <2>1 DEF Outside, Turning
<1>6. ASSUME Grades(c, s), t.coverage \in {s.coverage, "graded_out"}, s.coverage # "" => t.coverage = s.coverage,
             NEW memo, t.pending = KeptOf(memo, s.pending),
             DOMAIN t.grading = {j \in Searched(s.pending) : s.pending[j].pieces # <<>>}
      PROVE  Outside(c, t)
  <2>1. /\ DOMAIN t.pending = DOMAIN s.pending /\ IsList(t.pending)
        /\ \A i \in DOMAIN s.pending : t.pending[i] = KeepOnly(memo, s.pending[i])
    <3>1. PICK n \in Nat : s.pending = [i \in 1..n |-> s.pending[i]]
      BY <1>2 DEF Calls, IsList
    <3>2. DOMAIN s.pending = 1..n
      BY <3>1
    <3>3. t.pending = [i \in 1..n |-> KeepOnly(memo, s.pending[i])]
      BY <1>6, <3>2 DEF KeptOf
    <3>4. t.pending = [i \in 1..n |-> t.pending[i]]
      BY <3>3
    <3>. QED
      BY <3>2, <3>3, <3>4 DEF IsList
  <2>2. \A i \in DOMAIN s.pending : /\ Call(t.pending[i]) /\ t.pending[i].tool = s.pending[i].tool
                                    /\ t.pending[i].error = s.pending[i].error
    BY <1>2, <2>1, KeptCall DEF Calls
  <2>3. Calls(t.pending) /\ Searched(t.pending) = Searched(s.pending)
    BY <2>1, <2>2, SearchedOf DEF Calls
  <2>4. t.coverage = "empty" => DryCalls(t)
    <3>1. SUFFICES ASSUME t.coverage = "empty" PROVE DryCalls(t)
      OBVIOUS
    <3>2. s.coverage = "empty"
      BY <1>6, <3>1
    <3>3. PICK i \in Searched(s.pending) : TRUE
      BY <1>4, <3>2
    <3>4. \A k \in Searched(s.pending) : s.pending[k].sources = <<>> /\ s.pending[k].pieces = <<>>
      BY <1>2, <1>4, <3>2, SearchedOf DEF NothingFound, Pieced
    <3>5. i \in Searched(t.pending) /\ i \notin DOMAIN t.grading
      BY <1>6, <2>3, <3>3, <3>4
    <3>6. ASSUME NEW k \in DOMAIN s.pending, s.pending[k].tool = "corpus" PROVE t.pending[k].sources = <<>>
      <4>1. Call(s.pending[k])
        BY <1>2, <3>6 DEF Calls
      <4>2. s.pending[k].error \/ k \in Searched(s.pending)
        BY <3>6, SearchedOf
      <4>3. s.pending[k].sources = <<>> /\ (s.pending[k].error \/ s.pending[k].pieces = <<>>)
        BY <3>4, <3>6, <4>1, <4>2 DEF Call
      <4>4. t.pending[k] = s.pending[k]
        BY <2>1, <3>6, <4>1, <4>3, KeptCall
      <4>. QED
        BY <4>3, <4>4
    <3>. QED
      BY <2>1, <2>2, <3>5, <3>6 DEF DryCalls
  <2>5. t.coverage = "weak" => c.gated /\ Searched(t.pending) # {} /\ ~c.drop
    <3>1. SUFFICES ASSUME t.coverage = "weak" PROVE c.gated /\ Searched(t.pending) # {} /\ ~c.drop
      OBVIOUS
    <3>2. s.coverage = "weak"
      BY <1>6, <3>1
    <3>3. ~c.drop
      BY <1>6, <3>2 DEF Grades, Doomed
    <3>. QED
      BY <1>4, <2>3, <3>2, <3>3
  <2>6. t.coverage = "off_topic" => c.offTopic
    BY <1>4, <1>6
  <2>7. t.coverage \in {"", "off_topic", "empty", "weak", "graded_out"}
    BY <1>4, <1>6
  <2>. QED
    BY <1>1, <1>2, <1>3, <2>3, <2>4, <2>5, <2>6, <2>7 DEF Outside, Turning
<1>7. Outside(c, t)
  BY <1>1, <1>5, <1>6 DEF Graded
<1>. QED
  BY <1>7 DEF t

LEMMA FallbackOutside ==
  ASSUME NEW c, NEW s, Within(s), Outside(c, s), s.node = "fallback"
  PROVE  Outside(c, FallbackNode(c, s))
<1>. DEFINE t == FallbackNode(c, s)
            dropped == [i \in DOMAIN s.pending |-> IF IsCorpus(s.pending[i])
                          THEN [s.pending[i] EXCEPT !.pieces = <<>>, !.sources = <<>>] ELSE s.pending[i]]
<1>1. /\ Within(t) /\ t.node = "emit" /\ t.hops = s.hops /\ t.spans = s.spans /\ t.offered = s.offered
      /\ t.grading = s.grading
      /\ t.pending = (IF DropsWeak(c, s) THEN DropWeak(s).pending ELSE s.pending)
      /\ t.external = (IF Opens(c, s) THEN TRUE ELSE s.external)
  BY FallbackWithin
<1>2. DropWeak(s).pending = dropped
  BY DEF DropWeak, Within, Shaped, AgFields
<1>. HIDE DEF t
<1>3. /\ Gate(c) /\ Reasoned(c, s) /\ Open(c, s) /\ Spans(t) = Spans(s) /\ Calls(s.pending)
      /\ s.coverage \in {"empty", "weak", "off_topic", "graded_out"}
      /\ s.coverage = "empty" => DryCalls(s)
      /\ s.coverage = "weak" => c.gated /\ Searched(s.pending) # {} /\ (c.drop => s.grading = <<>>)
      /\ s.coverage = "off_topic" => c.offTopic
  BY <1>1 DEF Outside, Turning, Spans
<1>4. /\ DOMAIN dropped = DOMAIN s.pending /\ IsList(dropped)
      /\ \A i \in DOMAIN s.pending :
           /\ Call(dropped[i]) /\ dropped[i].tool = s.pending[i].tool /\ dropped[i].error = s.pending[i].error
           /\ dropped[i].tool = "corpus" => dropped[i].sources = <<>>
  <2>1. PICK n \in Nat : s.pending = [i \in 1..n |-> s.pending[i]]
    BY <1>3 DEF Calls, IsList
  <2>2. DOMAIN s.pending = 1..n
    BY <2>1
  <2>3. dropped = [i \in 1..n |-> dropped[i]]
    BY <2>2
  <2>4. DOMAIN dropped = DOMAIN s.pending /\ IsList(dropped)
    BY <2>2, <2>3 DEF IsList
  <2>5. ASSUME NEW i \in DOMAIN s.pending
        PROVE  /\ Call(dropped[i]) /\ dropped[i].tool = s.pending[i].tool /\ dropped[i].error = s.pending[i].error
               /\ dropped[i].tool = "corpus" => dropped[i].sources = <<>>
    <3>. DEFINE x == s.pending[i]
    <3>1. Call(x)
      BY <1>3 DEF Calls
    <3>2. dropped[i] = IF IsCorpus(x) THEN [x EXCEPT !.pieces = <<>>, !.sources = <<>>] ELSE x
      OBVIOUS
    <3>. HIDE DEF x, dropped
    <3>3. CASE IsCorpus(x)
      <4>1. dropped[i] = [tool |-> x.tool, error |-> x.error, pieces |-> <<>>, sources |-> <<>>]
        BY <3>1, <3>2, <3>3 DEF Call
      <4>. QED
        BY <4>1 DEF Call, x
    <3>4. CASE ~IsCorpus(x)
      BY <3>1, <3>2, <3>4 DEF Call, IsCorpus, x
    <3>. QED
      BY <3>3, <3>4
  <2>. QED
    BY <2>4, <2>5
<1>. HIDE DEF dropped
<1>5. Calls(t.pending)
  BY <1>1, <1>2, <1>3, <1>4 DEF Calls
<1>6. Searched(dropped) = Searched(s.pending)
  BY <1>4, SearchedOf
<1>7. Opens(c, s) => DryCalls(t)
  <2>1. SUFFICES ASSUME Opens(c, s) PROVE DryCalls(t)
    OBVIOUS
  <2>2. c.remote # {} /\ s.coverage # "graded_out" /\ ~c.offTopic
    BY <1>3, <2>1 DEF Opens, Gate
  <2>3. CASE s.coverage = "empty"
    BY <1>1, <1>3, <2>3 DEF DropsWeak, DryCalls
  <2>4. CASE s.coverage = "weak"
    <3>1. c.drop /\ c.gated /\ s.grading = <<>> /\ Searched(s.pending) # {}
      BY <1>3, <2>2, <2>4 DEF Gate
    <3>2. t.pending = dropped /\ t.grading = <<>>
      BY <1>1, <1>2, <2>4, <3>1 DEF DropsWeak
    <3>3. PICK i \in Searched(t.pending) : TRUE
      BY <1>6, <3>1, <3>2
    <3>4. i \notin DOMAIN t.grading
      BY <3>2
    <3>. QED
      BY <1>4, <3>2, <3>3, <3>4 DEF DryCalls
  <2>. QED
    BY <1>3, <2>2, <2>3, <2>4
<1>8. Reasoned(c, t)
  BY <1>1, <1>3 DEF Reasoned
<1>9. Open(c, t)
  <2>1. t.external => s.external \/ Opens(c, s)
    BY <1>1
  <2>2. t.external => \/ c.policy = "agent_choice"
                      \/ \E hop \in 1..t.hops : hop < t.hops /\ Dry(Spans(t), hop)
                      \/ t.node = "emit" /\ DryCalls(t)
    BY <1>1, <1>3, <1>7, <2>1 DEF Open
  <2>3. \A x \in Spans(t) : x.hop \in Nat /\ x.hop < t.hops
    BY <1>1, <1>3 DEF Open
  <2>4. t.offered \in Seq(ToSet(t.offered)) /\ Len(t.offered) = t.hops /\ IsList(t.spans)
    BY <1>1, <1>3 DEF Open
  <2>. QED
    BY <1>1, <2>2, <2>3, <2>4 DEF Open
<1>10. Outside(c, t)
  BY <1>1, <1>3, <1>5, <1>8, <1>9 DEF Outside
<1>. QED
  BY <1>10 DEF t

LEMMA NoFiles == FilesOf(<<>>) = <<>>
<1>1. DOMAIN <<>> = {}
  OBVIOUS
<1>2. FilesOf(<<>>) = [i \in {} |-> <<>>[i].file]
  BY <1>1 DEF FilesOf
<1>3. FilesOf(<<>>) \in [1..0 -> {}]
  <2>1. 1..0 = {}
    OBVIOUS
  <2>2. FilesOf(<<>>) \in [{} -> {}]
    BY <1>2
  <2>. QED
    BY <2>1, <2>2
<1>4. FilesOf(<<>>) \in Seq({}) /\ Len(FilesOf(<<>>)) = 0
  BY <1>3
<1>. QED
  BY <1>4

(* spans of one hop say nothing of another *)
LEMMA DryApart ==
  ASSUME NEW S, NEW T, NEW h, \A x \in T : x.hop # h
  PROVE  Dry(S \cup T, h) <=> Dry(S, h)
<1>1. {s \in S \cup T : s.hop = h /\ s.tool = "corpus"} = {s \in S : s.hop = h /\ s.tool = "corpus"}
  OBVIOUS
<1>. QED
  BY <1>1 DEF Dry

LEMMA SpanIs ==
  ASSUME NEW s, NEW i
  PROVE  /\ SpanOf(s, i).hop = s.hops /\ SpanOf(s, i).tool = s.pending[i].tool
         /\ s.pending[i].sources = <<>> => SpanOf(s, i).sources = <<>>
         /\ i \notin DOMAIN s.grading => ~GradedOut(SpanOf(s, i))
<1>1. /\ SpanOf(s, i).hop = s.hops /\ SpanOf(s, i).tool = s.pending[i].tool
      /\ SpanOf(s, i).sources = FilesOf(s.pending[i].sources)
      /\ SpanOf(s, i).graded = Block(s.grading, i)
  BY DEF SpanOf
<1>2. i \notin DOMAIN s.grading => Block(s.grading, i) = {}
  BY DEF Block
<1>. QED
  BY <1>1, <1>2, NoFiles DEF GradedOut

LEMMA EmitOutside ==
  ASSUME NEW c, NEW s, Within(s), Outside(c, s), s.node = "emit"
  PROVE  Outside(c, EmitNode(c, s))
<1>. DEFINE t == EmitNode(c, s)
            told == [i \in DOMAIN s.pending |-> SpanOf(s, i)]
            T == {told[i] : i \in DOMAIN told}
<1>1. /\ Within(t) /\ t.node \in {"model", "final"} /\ t.hops = s.hops /\ t.offered = s.offered
      /\ t.external = s.external /\ t.grading = <<>> /\ t.spans = s.spans \o told
  BY EmitWithin
<1>. HIDE DEF t
<1>2. Gate(c) /\ Reasoned(c, s) /\ Open(c, s) /\ Calls(s.pending) /\ s.hops \in Nat
  BY DEF Outside, Within, Turning
<1>3. IsList(told) /\ DOMAIN told = DOMAIN s.pending
  <2>1. PICK n \in Nat : s.pending = [i \in 1..n |-> s.pending[i]]
    BY <1>2 DEF Calls, IsList
  <2>2. DOMAIN s.pending = 1..n
    BY <2>1
  <2>3. told = [i \in 1..n |-> told[i]]
    BY <2>2
  <2>. QED
    BY <2>2, <2>3 DEF IsList
<1>4. Spans(t) = Spans(s) \cup T /\ IsList(t.spans)
  <2>1. IsList(s.spans)
    BY <1>2 DEF Open
  <2>. HIDE DEF told
  <2>2. IsList(s.spans \o told) /\ ToSet(s.spans \o told) = ToSet(s.spans) \cup ToSet(told)
    BY <1>3, <2>1, ConcatOf
  <2>3. Spans(t) = ToSet(s.spans \o told) /\ Spans(s) = ToSet(s.spans) /\ T = ToSet(told)
    BY <1>1 DEF Spans, ToSet
  <2>. QED
    BY <1>1, <2>2, <2>3
<1>5. \A x \in T : x.hop = s.hops
  BY <1>3, SpanIs
<1>6. \A h \in 1..s.hops - 1 : Dry(Spans(s), h) => Dry(Spans(t), h)
  <2>1. SUFFICES ASSUME NEW h \in 1..s.hops - 1, Dry(Spans(s), h) PROVE Dry(Spans(t), h)
    OBVIOUS
  <2>2. \A x \in T : x.hop # h
    BY <1>2, <1>5, <2>1
  <2>. QED
    BY <1>4, <2>1, <2>2, DryApart
<1>7. DryCalls(s) => Dry(Spans(t), s.hops)
  <2>1. SUFFICES ASSUME DryCalls(s) PROVE Dry(Spans(t), s.hops)
    OBVIOUS
  <2>2. \A x \in Spans(s) : x.hop # s.hops
    BY <1>2 DEF Open
  <2>3. Dry(T, s.hops)
    <3>. DEFINE W == {x \in T : x.hop = s.hops /\ x.tool = "corpus"}
    <3>1. \A x \in W : x.sources = <<>>
      BY <1>3, <2>1, SpanIs DEF DryCalls
    <3>2. PICK i \in Searched(s.pending) : i \notin DOMAIN s.grading
      BY <2>1 DEF DryCalls
    <3>3. i \in DOMAIN told /\ s.pending[i].tool = "corpus"
      BY <1>3, <3>2, SearchedOf
    <3>4. told[i] \in W /\ ~GradedOut(told[i])
      BY <1>3, <3>2, <3>3, SpanIs
    <3>. HIDE DEF W
    <3>5. W # {} /\ (\A x \in W : x.sources = <<>>) /\ ~(\A x \in W : GradedOut(x))
      BY <3>1, <3>4
    <3>. QED
      BY <3>5 DEF Dry, W
  <2>4. Dry(T \cup Spans(s), s.hops)
    BY <2>2, <2>3, DryApart
  <2>5. T \cup Spans(s) = Spans(t)
    BY <1>4
  <2>. QED
    BY <2>4, <2>5
<1>. HIDE DEF T
<1>8. Reasoned(c, t)
  <2>1. SUFFICES ASSUME NEW i \in DOMAIN s.offered, s.offered[i] # {"corpus"}
                 PROVE  ~c.offTopic /\ (c.policy = "agent_choice" \/ \E hop \in 1..i - 1 : Dry(Spans(t), hop))
    BY <1>1 DEF Reasoned
  <2>2. i \in 1..s.hops
    BY <1>2, <2>1 DEF Open
  <2>3. 1..i - 1 \subseteq 1..s.hops - 1
    BY <1>2, <2>2
  <2>. QED
    BY <1>2, <1>6, <2>1, <2>3 DEF Reasoned
<1>9. ASSUME t.node = "model" PROVE Open(c, t)
  <2>1. \A x \in Spans(t) : x.hop \in Nat /\ x.hop <= t.hops
    BY <1>1, <1>2, <1>4, <1>5 DEF Open
  <2>2. t.external => c.policy = "agent_choice" \/ \E hop \in 1..t.hops : Dry(Spans(t), hop)
    <3>1. SUFFICES ASSUME s.external, c.policy # "agent_choice" PROVE \E hop \in 1..s.hops : Dry(Spans(t), hop)
      BY <1>1
    <3>2. CASE \E hop \in 1..s.hops : hop < s.hops /\ Dry(Spans(s), hop)
      <4>1. PICK hop \in 1..s.hops : hop < s.hops /\ Dry(Spans(s), hop)
        BY <3>2
      <4>2. hop \in 1..s.hops - 1
        BY <1>2, <4>1
      <4>. QED
        BY <1>6, <4>1, <4>2
    <3>3. CASE DryCalls(s)
      <4>1. s.hops \in 1..s.hops
        BY <1>1, <1>2, <1>9 DEF Within, Turning, Ahead
      <4>. QED
        BY <1>7, <3>3, <4>1
    <3>. QED
      BY <1>2, <3>1, <3>2, <3>3 DEF Open
  <2>3. t.offered \in Seq(ToSet(t.offered)) /\ Len(t.offered) = t.hops
    BY <1>1, <1>2 DEF Open
  <2>. QED
    BY <1>4, <1>9, <2>1, <2>2, <2>3 DEF Open
<1>10. Outside(c, t)
  BY <1>1, <1>2, <1>8, <1>9 DEF Outside, Turning
<1>. QED
  BY <1>10 DEF t

LEMMA FinalOutside ==
  ASSUME NEW c, NEW s, NEW turn, Within(s), Outside(c, s), s.node = "final"
  PROVE  Outside(c, FinalNode(s, turn))
<1>. DEFINE t == FinalNode(s, turn)
<1>1. Within(t) /\ t.node = "end" /\ t.spans = s.spans /\ t.offered = s.offered
  BY FinalWithin
<1>. HIDE DEF t
<1>2. Gate(c) /\ Reasoned(c, s) /\ Spans(t) = Spans(s)
  BY <1>1 DEF Outside, Spans
<1>3. Outside(c, t)
  BY <1>1, <1>2 DEF Outside, Reasoned, Turning
<1>. QED
  BY <1>3 DEF t

(* what the doors hand back *)
LEMMA ResultIsCall ==
  ASSUME NEW tool, NEW hits
  PROVE  /\ Call(Result(tool, FALSE, hits)) /\ Call(Unknown(tool))
         /\ hits = <<>> => Result(tool, FALSE, hits).pieces = <<>>
         /\ Result(tool, FALSE, hits).sources = hits /\ Unknown(tool).pieces = <<>>
BY NoFiles DEF Call, Result, Unknown

LEMMA LiveFound ==
  ASSUME NEW tool, NEW x \in LiveResults(tool)
  PROVE  Call(x) /\ (x.sources = <<>> => x.pieces = <<>>)
<1>1. x = Unknown(tool) \/ \E hits : x = Result(tool, FALSE, hits)
  BY DEF LiveResults
<1>2. ASSUME NEW hits, x = Result(tool, FALSE, hits) PROVE Call(x) /\ (x.sources = <<>> => x.pieces = <<>>)
  BY <1>2, ResultIsCall
<1>3. Call(Unknown(tool)) /\ Unknown(tool).pieces = <<>>
  BY ResultIsCall
<1>. QED
  BY <1>1, <1>2, <1>3

LEMMA LiveCalls == ASSUME NEW turn \in LiveTurns PROVE IsList(turn.calls)
<1>1. turn.calls = <<>> \/ turn.calls \in BoundedSeq(Names, HopCalls)
  <2>1. \/ turn = Raised
        \/ \E said : turn = Turn(said, <<>>)
        \/ \E calls \in BoundedSeq(Names, HopCalls) : turn = Turn("", calls)
    BY DEF LiveTurns
  <2>2. Raised.calls = <<>> /\ \A said, calls : Turn(said, calls).calls = calls
    BY DEF Raised, Turn, Entry
  <2>. QED
    BY <2>1, <2>2
<1>2. HopCalls \in Nat
  BY GraphAssumption
<1>3. turn.calls \in Seq(Names)
  <2>1. BoundedSeq(Names, HopCalls) \subseteq Seq(Names)
    BY <1>2 DEF BoundedSeq, SeqOf
  <2>2. <<>> \in Seq(Names)
    OBVIOUS
  <2>. QED
    BY <1>1, <2>1, <2>2
<1>. QED
  BY <1>3, SeqIsList

AgInv == Within(g) /\ (phase \notin {"replay", "compared"} => Outside(ctx, g))

LEMMA AgStarts == ASSUME Init PROVE AgInv
<1>1. Gate(NoCtx)
  BY DEF Gate, NoCtx, Ctx
<1>. QED
  BY <1>1, FreshWithin, FreshOutside DEF Init, AgInv

LEMMA AgAsks == ASSUME AgInv, Asks PROVE AgInv'
<1>1. PICK policy \in Policies, offTopic \in BOOLEAN, grades \in BOOLEAN, restate \in Restates :
        \E remote \in Admitted(policy, offTopic) : ctx' = Ctx(policy, remote, offTopic, grades, restate)
  BY DEF Asks
<1>2. PICK remote \in Admitted(policy, offTopic) : ctx' = Ctx(policy, remote, offTopic, grades, restate)
  BY <1>1
<1>3. offTopic => remote = {}
  BY <1>2 DEF Admitted
<1>4. /\ ctx'.policy = policy /\ ctx'.remote = remote /\ ctx'.offTopic = offTopic
      /\ (ctx'.external <=> policy = "agent_choice") /\ (ctx'.gated <=> policy = "corpus_first_weak")
      /\ (ctx'.drop <=> offTopic \/ (policy = "corpus_first_weak" /\ remote # {}))
  BY <1>2 DEF Ctx
<1>5. Gate(ctx')
  BY <1>3, <1>4 DEF Gate
<1>6. g' = Fresh(ctx')
  BY DEF Asks
<1>. QED
  BY <1>5, <1>6, FreshWithin, FreshOutside DEF AgInv

LEMMA AgLive == ASSUME AgInv, LiveModel \/ LiveRetrieve \/ LiveGrade \/ LiveFinal PROVE AgInv'
<1>1. phase = "live" /\ phase' = phase /\ ctx' = ctx /\ Within(g) /\ Outside(ctx, g)
  BY DEF AgInv, LiveModel, LiveRetrieve, LiveGrade, LiveFinal, At
<1>2. ASSUME LiveModel PROVE AgInv'
  <2>1. PICK turn \in LiveTurns : g' = ModelNode(ctx, g, turn)
    BY <1>2 DEF LiveModel
  <2>2. g.node = "model" /\ IsList(turn.calls)
    BY <1>2, LiveCalls DEF LiveModel, At
  <2>3. Within(g') /\ Outside(ctx, g')
    BY <1>1, <2>1, <2>2, ModelWithin, ModelOutside
  <2>. QED
    BY <1>1, <2>3 DEF AgInv
<1>3. ASSUME LiveRetrieve PROVE AgInv'
  <2>1. PICK found \in [DOMAIN g.turn.calls -> UNION {LiveResults(g.turn.calls[i]) : i \in DOMAIN g.turn.calls}] :
          (\A i \in DOMAIN found : found[i] \in LiveResults(g.turn.calls[i])) /\ g' = RetrieveNode(ctx, g, found)
    BY <1>3 DEF LiveRetrieve
  <2>2. g.node = "retrieve" /\ IsList(g.turn.calls)
    BY <1>1, <1>3 DEF LiveRetrieve, At, Outside
  <2>3. IsList(found)
    <3>1. PICK n \in Nat : g.turn.calls = [i \in 1..n |-> g.turn.calls[i]]
      BY <2>2 DEF IsList
    <3>2. DOMAIN g.turn.calls = 1..n
      BY <3>1
    <3>3. found = [i \in 1..n |-> found[i]]
      BY <2>1, <3>2
    <3>. QED
      BY <3>3 DEF IsList
  <2>4. \A i \in DOMAIN found : Call(found[i]) /\ (found[i].sources = <<>> => found[i].pieces = <<>>)
    BY <2>1, LiveFound
  <2>5. Within(g') /\ Outside(ctx, g')
    BY <1>1, <2>1, <2>2, <2>3, <2>4, RetrieveWithin, RetrieveOutside DEF Calls
  <2>. QED
    BY <1>1, <2>5 DEF AgInv
<1>4. ASSUME LiveGrade PROVE AgInv'
  <2>1. PICK verdicts : g' = GradeNode(ctx, g, verdicts)
    BY <1>4 DEF LiveGrade
  <2>2. g.node = "grade"
    BY <1>4 DEF LiveGrade, At
  <2>3. Within(g') /\ Outside(ctx, g')
    BY <1>1, <2>1, <2>2, GradeWithin, GradeOutside
  <2>. QED
    BY <1>1, <2>3 DEF AgInv
<1>5. ASSUME LiveFinal PROVE AgInv'
  <2>1. PICK turn : g' = FinalNode(g, turn)
    BY <1>5 DEF LiveFinal
  <2>2. g.node = "final"
    BY <1>5 DEF LiveFinal, At
  <2>3. Within(g') /\ Outside(ctx, g')
    BY <1>1, <2>1, <2>2, FinalWithin, FinalOutside
  <2>. QED
    BY <1>1, <2>3 DEF AgInv
<1>. QED
  BY <1>2, <1>3, <1>4, <1>5

LEMMA AgBoth == ASSUME AgInv, Falls \/ Emits PROVE AgInv'
<1>1. ASSUME Falls PROVE AgInv'
  <2>1. g.node = "fallback" /\ g' = FallbackNode(ctx, g) /\ phase' = phase /\ ctx' = ctx
    BY <1>1 DEF Falls
  <2>2. Within(g') /\ (phase \notin {"replay", "compared"} => Outside(ctx, g'))
    BY <2>1, FallbackWithin, FallbackOutside DEF AgInv
  <2>. QED
    BY <2>1, <2>2 DEF AgInv
<1>2. ASSUME Emits PROVE AgInv'
  <2>1. g.node = "emit" /\ g' = EmitNode(ctx, g) /\ phase' = phase /\ ctx' = ctx
    BY <1>2 DEF Emits
  <2>2. Within(g') /\ (phase \notin {"replay", "compared"} => Outside(ctx, g'))
    BY <2>1, EmitWithin, EmitOutside DEF AgInv
  <2>. QED
    BY <2>1, <2>2 DEF AgInv
<1>. QED
  BY <1>1, <1>2

(* a replay drives the same nodes, with whatever its script hands it *)
LEMMA AgReplay == ASSUME AgInv, Replay PROVE AgInv'
<1>1. phase' \in {"replay", "compared"}
  BY DEF Replay, Replays, ReplayModel, ReplayRetrieve, ReplayGrade, ReplayFinal, Compares, At
<1>2. Within(g')
  <2>1. ASSUME Replays PROVE Within(g')
    BY <2>1, FreshWithin DEF Replays
  <2>2. ASSUME ReplayModel PROVE Within(g')
    BY <2>2, ModelWithin DEF ReplayModel, At, AgInv
  <2>3. ASSUME ReplayRetrieve PROVE Within(g')
    BY <2>3, RetrieveWithin DEF ReplayRetrieve, At, AgInv
  <2>4. ASSUME ReplayGrade PROVE Within(g')
    <3>1. g.node = "grade" /\ Within(g) /\ \E verdicts : g' = GradeNode(ctx, g, verdicts)
      BY <2>4 DEF ReplayGrade, At, AgInv
    <3>. QED
      BY <3>1, GradeWithin
  <2>5. ASSUME ReplayFinal PROVE Within(g')
    BY <2>5, FinalWithin DEF ReplayFinal, At, AgInv
  <2>6. ASSUME Compares PROVE Within(g')
    BY <2>6 DEF Compares, AgInv
  <2>. QED
    BY <2>1, <2>2, <2>3, <2>4, <2>5, <2>6 DEF Replay
<1>. QED
  BY <1>1, <1>2 DEF AgInv

(* a graph that raised leaves the state it was handed, failed *)
LEMMA AgBreaks == ASSUME AgInv, Breaks PROVE AgInv'
<1>1. phase' = phase /\ ctx' = ctx /\ phase = "live" /\ g' = Broken(ctx)
  BY DEF Breaks
<1>2. Shaped(Broken(ctx))
  BY DEF Shaped, AgFields, Broken, Fresh
<1>3. /\ Broken(ctx).node = "end" /\ Broken(ctx).hops = 0 /\ Broken(ctx).steps = 0
      /\ Broken(ctx).failed = TRUE /\ Broken(ctx).text = NoText
  BY DEF Broken, Fresh
<1>4. Within(Broken(ctx))
  BY <1>2, <1>3, GraphAssumption DEF Within, Turning
<1>5. Outside(ctx, g) => Outside(ctx, Broken(ctx))
  <2>1. /\ Broken(ctx).offered = Fresh(ctx).offered /\ Broken(ctx).spans = Fresh(ctx).spans
        /\ Broken(ctx).hops = Fresh(ctx).hops
    BY DEF Broken, Fresh
  <2>2. Outside(ctx, g) => Reasoned(ctx, Fresh(ctx)) /\ Gate(ctx)
    BY FreshOutside DEF Outside
  <2>3. Reasoned(ctx, Fresh(ctx)) => Reasoned(ctx, Broken(ctx))
    <3>1. Spans(Broken(ctx)) = Spans(Fresh(ctx))
      BY <2>1 DEF Spans
    <3>. QED
      BY <2>1, <3>1 DEF Reasoned
  <2>. QED
    BY <1>3, <2>2, <2>3 DEF Outside, Turning
<1>. QED
  BY <1>1, <1>4, <1>5 DEF AgInv

LEMMA AgStep == ASSUME AgInv, Next \/ UNCHANGED agvars PROVE AgInv'
<1>1. ASSUME StandFails \/ Logs PROVE AgInv'
  <2>1. ASSUME StandFails PROVE AgInv'
    <3>1. phase = "live" /\ g' = Fresh(ctx) /\ ctx' = ctx
      BY <2>1 DEF StandFails
    <3>2. Gate(ctx)
      BY <3>1 DEF AgInv, Outside
    <3>. QED
      BY <3>1, <3>2, FreshWithin, FreshOutside DEF AgInv
  <2>2. ASSUME Logs PROVE AgInv'
    BY <2>2 DEF Logs, At, AgInv
  <2>. QED
    BY <1>1, <2>1, <2>2
<1>2. ASSUME Rests \/ UNCHANGED agvars PROVE AgInv'
  BY <1>2 DEF Rests, agvars, AgInv
<1>. QED
  BY <1>1, <1>2, AgAsks, AgLive, AgBoth, AgBreaks, AgReplay DEF Next, Live

(* the part of TurnHolds that is not of a fold over the row *)
TurnKept == NeverRunsAway /\ FailedIsNotAnswered /\ (phase \notin {"replay", "compared"} => OutsideNeedsEmptyCorpus)
LEMMA TurnIsKept == ASSUME AgInv PROVE TurnKept
<1>1. NeverRunsAway
  <2>1. MaxHops \in Nat /\ g.steps \in Nat /\ g.hops \in Nat
    BY GraphAssumption DEF AgInv, Within
  <2>2. CASE g.node = "end"
    BY <2>1, <2>2 DEF AgInv, Within, NeverRunsAway, RecursionLimit
  <2>3. CASE g.node # "end"
    <3>1. Ahead[g.node] \in Nat
      BY <2>3 DEF AgInv, Within, Turning, Ahead
    <3>. QED
      BY <2>1, <2>3, <3>1 DEF AgInv, Within, NeverRunsAway, RecursionLimit
  <2>. QED
    BY <2>2, <2>3
<1>2. FailedIsNotAnswered
  BY DEF AgInv, Within, FailedIsNotAnswered, Outcome
<1>3. phase \notin {"replay", "compared"} => OutsideNeedsEmptyCorpus
  BY DEF AgInv, Outside, Reasoned, OutsideNeedsEmptyCorpus, Dry
<1>. QED
  BY <1>1, <1>2, <1>3 DEF TurnKept

-----------------------------------------------------------------------------
(* The parts together: a behavior is of one of them *)

MeasuresInv ==
  /\ which = "compare" => CmpInv
  /\ which = "residency" => RsInv
  /\ which = "gold" => GdInv

(* Whatever steps interleave: a comparison reports arms measured under their own settings over one set   *)
(* of questions (retrieval_compare.py); a converter is scored on the section its gold is of              *)
(* (converter_gold.py); a run's verdicts of the engines their passes were let in for are of one engine   *)
(* and, where jobs ran in order and none was a conversion, two runs read as one residency were judged   *)
(* by each model in one load (judging.py).                                                              *)
THEOREM MeasuresAreHeld == AnswersSpec => []MeasuresHold
PROOF
<1>1. AnswersInit => MeasuresInv
  BY CmpStarts, RsStarts, GdStarts DEF AnswersInit, MeasuresInv
<1>2. MeasuresInv /\ [AnswersNext]_answers => MeasuresInv'
  <2>1. SUFFICES ASSUME MeasuresInv, [AnswersNext]_answers PROVE MeasuresInv'
    OBVIOUS
  <2>2. /\ which' = which
        /\ which = "compare" => C!CmpNext \/ UNCHANGED comparison
        /\ which = "residency" => R!RsNext \/ UNCHANGED instrument
        /\ which = "gold" => G!GdNext \/ UNCHANGED standard
    BY <2>1, Zenon DEF AnswersNext, answers
  <2>. QED
    BY <2>1, <2>2, CmpStep, RsStep, GdStep DEF MeasuresInv
<1>3. MeasuresInv => MeasuresHold
  BY CompareIsHeld, InstrumentIsHeld, GoldIsHeld DEF MeasuresInv, MeasuresHold
<1>. QED
  BY <1>1, <1>2, <1>3, PTL DEF AnswersSpec

(* However many hops a question is allowed and whatever the model, the tools and the grader answer: the  *)
(* graph ends under its recursion limit (graph.py, recursion_limit), a turn that failed leaves no text,  *)
(* and a live run is offered the tools of the outside only by the model's own choice or after a hop      *)
(* whose search gave nothing to read, never because the grader threw it all out (fallback_node).         *)
THEOREM TurnIsBounded ==
  AnswersSpec => [](/\ NeverRunsAway /\ FailedIsNotAnswered
                    /\ phase \notin {"replay", "compared"} => OutsideNeedsEmptyCorpus)
PROOF
<1>1. AnswersInit => AgInv
  BY AgStarts DEF AnswersInit
<1>2. AgInv /\ [AnswersNext]_answers => AgInv'
  <2>1. [AnswersNext]_answers => Next \/ UNCHANGED agvars
    BY Zenon DEF AnswersNext, answers
  <2>. QED
    BY <2>1, AgStep
<1>3. AgInv => TurnKept
  BY TurnIsKept
<1>. QED
  BY <1>1, <1>2, <1>3, PTL DEF AnswersSpec, TurnKept
=============================================================================
