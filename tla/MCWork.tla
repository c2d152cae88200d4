------------------------------- MODULE MCWork --------------------------------
(***************************************************************************)
(* What a job reaches for while it runs, in parts that share no variable:  *)
(* the calls of a walk over rows, the weights a pull brings, the pieces of *)
(* a file that is converted, and the text on its way from the pages of a   *)
(* file to the one copy that is searched.  A behavior is of one part.      *)
(***************************************************************************)
EXTENDS Calls

CONSTANTS Shards, Stray, MaxPulls, MaxFaults, Parts, MaxMoved, MaxRuns, MaxStops,
  MaxPages, MaxSize, Window, MaxCells, MaxPiece, Titles, Captions, Deepest, MaxRows,
  MaxLines, Ceilings, Sliver, Texts, MaxDocs, WideFiles, Sources, Bodies, MaxEdits, MaxIndexes

(* what the code is configured with, and the bounds of the model *)
ASSUME WorkAssumption ==
  /\ PaceTries \in Nat /\ MaxTurns \in Nat /\ MaxPulls \in Nat /\ MaxFaults \in Nat
  /\ Parts \subseteq Nat /\ Parts # {} /\ MaxMoved \in Nat /\ MaxRuns \in Nat \ {0} /\ MaxStops \in Nat
  /\ IsFiniteSet(Sources) /\ MaxEdits \in Nat

VARIABLES which,
  blob, links, writer, pull, pulls, faults, serves, tag,
  arm, build, rules, source, moved, status, runs, stopsLeft, record, part, target, cache,
  place, mine, now, piece, key, got, bad, shifted,
  task, done, parts, whole, given, repaired, file, policy, made, cut, merged,
  texts, run, cutOf, chunks, keptBy, index, edits, indexes

NumberOf == [t \in Titles |-> IF t = "numbered" THEN 2 ELSE 0]
Releases == <<"new", "old">>
Files == <<"f1", "f2">>
TrustOf == [s \in Sources |-> IF s = "book" THEN 1 ELSE 0]

H == INSTANCE Weights
C == INSTANCE Convert WITH at <- place
M == INSTANCE Markup
T == INSTANCE Cuts
U == INSTANCE Versions
O == INSTANCE Copies

weights == <<blob, links, writer, pull, pulls, faults, serves, tag>>
conversion == <<arm, build, rules, source, moved, status, runs, stopsLeft, record, part, target, cache,
  place, mine, now, piece, key, got, bad, shifted>>
text == <<task, done, parts, whole, given, repaired, file, policy, made, cut, merged>>
copies == <<texts, run, cutOf, chunks, keptBy, index, edits, indexes>>
workVars == <<which, wvars, weights, conversion, text, copies>>

(* only the part a behavior is of chooses among its initial states *)
WorkInit ==
  /\ which \in {"calls", "weights", "conversion", "pages", "joins", "headings", "cuts", "versions", "copies"}
  /\ WInit /\ H!HInit /\ C!CInit
  /\ which # "calls" => kind = "vllm" /\ what = "score" /\ \A r \in Rows : input[r] = "fits"
  /\ which # "conversion" => arm = "plain"
  /\ O!DInit /\ (which # "copies" => \A s \in Sources : texts[s] = {})
  /\ IF which = "pages" THEN M!PInit ELSE task = <<>> /\ done = <<>>
  /\ IF which = "joins" THEN M!JInit ELSE parts = <<>> /\ whole = <<>>
  /\ IF which = "headings" THEN M!HInit ELSE given = <<>> /\ repaired = <<>>
  /\ IF which = "cuts" THEN T!TInit ELSE file = <<>> /\ policy = <<>> /\ made = <<>>
  /\ IF which = "versions" THEN U!UInit ELSE cut = <<>> /\ merged = <<>>
(* the parts whose text is one step from its input *)
TextNext ==
  \/ which = "pages" /\ M!PNext /\ UNCHANGED <<parts, whole, given, repaired, file, policy, made, cut, merged>>
  \/ which = "joins" /\ M!JNext /\ UNCHANGED <<task, done, given, repaired, file, policy, made, cut, merged>>
  \/ which = "headings" /\ M!HNext /\ UNCHANGED <<task, done, parts, whole, file, policy, made, cut, merged>>
  \/ which = "cuts" /\ T!TNext /\ UNCHANGED <<task, done, parts, whole, given, repaired, cut, merged>>
  \/ which = "versions" /\ U!UNext /\ UNCHANGED <<task, done, parts, whole, given, repaired, file, policy, made>>
WorkNext ==
  /\ UNCHANGED which
  /\ \/ which = "calls" /\ WNext /\ UNCHANGED <<weights, conversion, text, copies>>
     \/ which = "weights" /\ H!HNext /\ UNCHANGED <<wvars, conversion, text, copies>>
     \/ which = "conversion" /\ C!CNext /\ UNCHANGED <<wvars, weights, text, copies>>
     \/ TextNext /\ UNCHANGED <<wvars, weights, conversion, copies>>
     \/ which = "copies" /\ O!DNext /\ UNCHANGED <<wvars, weights, conversion, text>>
WorkSpec == WorkInit /\ [][WorkNext]_workVars

(* Calls: every answer is in its tallies, and a row fails by what is its own. *)
CallsHold == WTypeOK /\ AnswersAreCounted /\ RefusalIsTheRuns
(* Weights: a windowed tag carries the penalty of its base. *)
TagHolds == H!HTypeOK /\ H!TagHolds
(* Convert: a kept piece is of the record's configuration, and a done job is whole. *)
ConversionHolds == C!CTypeOK /\ C!KeptIsOfRecord /\ C!DoneIsWhole
(* Markup, Cuts and Versions: no page, line, chunk or version's text is lost or misplaced; *)
(* Copies: a source short of a text says who keeps it. *)
TextIsKept ==
  /\ which = "pages" => M!PagesHold
  /\ which = "joins" => M!JoinsHold
  /\ which = "headings" => M!HeadingsHold
  /\ which = "cuts" => T!CutsHold
  /\ which = "versions" => U!VersionsHold
  /\ O!DTypeOK /\ O!GapIsTold
(* Weights and Convert: a pull says ready of whole weights and spares a sibling's; a piece read stays; *)
(* Copies: a drop leaves one copy of what it drops. *)
FilesAreKept == H!ReadyByIndex /\ H!SiblingKept /\ C!KeptStays /\ O!DropLosesNoText /\ O!OneCopy
=============================================================================
