------------------------------- MODULE MCAgent -------------------------------
(***************************************************************************)
(* What the stand answers and what it makes of the answers, in parts that  *)
(* share no variable: a question through the answering graph and its       *)
(* replay, the comparison of retrieval arms, the instrument that scored    *)
(* two runs, and the gold a converter is scored by.  A behavior is of one  *)
(* part.                                                                   *)
(***************************************************************************)
EXTENDS Agent

CONSTANTS MaxCmpMoves, MaxCmpTries, MaxRows, MaxJobs, MaxAmiss, Books, Sites, MaxReleases, MaxOdd

(* a document has a source repository or a site, and the bounds of the model are numbers *)
ASSUME MeasuresAssumption ==
  /\ Books \cap Sites = {}
  /\ \A bound \in {MaxCmpMoves, MaxCmpTries, MaxRows, MaxJobs, MaxAmiss, MaxReleases, MaxOdd} : bound \in Nat

VARIABLES which,
  axes, param, fixed, settings, set, corpus, counted, cancelled,
  step, arm, measured, shortfall, results, tries, moves,
  seat, card, load, began, jobs, pass, rows, orderly, shifts,
  upstream, disk, ledger, drawn, cuts, index, golds, pages, html, pageGold, out, behind, spoilt, odd, torn

Questions == {<<"q1", "s1">>, <<"q2", "s1">>, <<"q3", "s2">>}
PairOf == [q \in Questions |-> IF q[1] = "q3" THEN "p2" ELSE "p1"]
HalfOf == [p \in {"p1", "p2"} |-> IF p = "p1" THEN "A" ELSE "B"]

(* a judge of an ollama and one of a vLLM are seated by turns, a job may name a second of the ollama *)
Seats == {<<"o", "j1">>, <<"v", "j3">>}
Named == {<<"o", "j2">>}
Generator == <<"o", "g">>
Converter == <<"c", "tool">>

(* the second release of a document has lost its first section *)
Titles == <<<<"s1", "s2">>, <<"s2">>>>

C == INSTANCE Compare
R == INSTANCE Residency
G == INSTANCE Gold

comparison == <<axes, param, fixed, settings, set, corpus, counted, cancelled,
  step, arm, measured, shortfall, results, tries, moves>>

instrument == <<seat, card, load, began, jobs, pass, rows, orderly, shifts>>

standard == <<upstream, disk, ledger, drawn, cuts, index, golds, pages, html, pageGold, out, behind, spoilt, odd, torn>>

NoComparison ==
  /\ axes = <<>> /\ param = <<>> /\ fixed = {} /\ settings = <<>> /\ set = {} /\ corpus = 0 /\ counted = 0
  /\ cancelled = FALSE /\ step = "none" /\ arm = <<>> /\ measured = <<>> /\ shortfall = {} /\ results = <<>>
  /\ tries = 0 /\ moves = 0

NoInstrument ==
  /\ seat = <<>> /\ card = <<>> /\ load = 0 /\ began = 0 /\ jobs = <<>> /\ pass = <<>> /\ rows = <<>>
  /\ orderly = TRUE /\ shifts = 0

NoGold ==
  /\ upstream = <<>> /\ disk = <<>> /\ ledger = <<>> /\ drawn = <<>> /\ cuts = <<>> /\ index = <<>> /\ golds = <<>>
  /\ pages = <<>> /\ html = <<>> /\ pageGold = <<>> /\ out = <<>> /\ behind = <<>> /\ spoilt = {} /\ odd = 0 /\ torn = {}

AnswersInit ==
  /\ which \in {"agent", "compare", "residency", "gold"}
  /\ Init
  /\ IF which = "compare" THEN C!CmpInit ELSE NoComparison
  /\ IF which = "residency" THEN R!RsInit ELSE NoInstrument
  /\ IF which = "gold" THEN G!GdInit ELSE NoGold
AnswersNext ==
  /\ UNCHANGED which
  /\ \/ which = "agent" /\ Next /\ UNCHANGED <<comparison, instrument, standard>>
     \/ which = "compare" /\ C!CmpNext /\ UNCHANGED <<agvars, instrument, standard>>
     \/ which = "residency" /\ R!RsNext /\ UNCHANGED <<agvars, comparison, standard>>
     \/ which = "gold" /\ G!GdNext /\ UNCHANGED <<agvars, comparison, instrument>>
answers == <<which, agvars, comparison, instrument, standard>>
AnswersSpec == AnswersInit /\ [][AnswersNext]_answers
InstrumentSpec == AnswersInit /\ which = "residency" /\ [][AnswersNext]_answers

(* Compare: an arm is measured under its own settings and compared over one set of questions. *)
(* Residency: verdicts read under one residency are verdicts of one load of their judge.      *)
(* Gold: a converter is scored on the section its gold is of, whatever commands came between.  *)
MeasuresHold ==
  /\ which = "compare" => C!CompareHolds
  /\ which = "residency" => R!ResidencyHolds
  /\ which = "gold" => G!GoldHolds

(* "any other model on the card evicts" (judging.py:482) the judge, and a residency is one load of *)
(* it (docs/api.md:290): so no two runs of one residency have a conversion's load between them.    *)
ConversionEndsAResidency == which = "residency" => R!ConversionEndsAResidency
=============================================================================
