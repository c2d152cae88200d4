------------------------------ MODULE MCSources ------------------------------
(***************************************************************************)
(* How a source becomes chunks, in parts that share no variable: the raw   *)
(* folder an onboarding fills, the row with its folders and its cut, the   *)
(* declaration and the knobs it is read by, and the supervisor of a        *)
(* converter.  A behavior is of one part.                                  *)
(***************************************************************************)
EXTENDS Onboard

CONSTANTS MaxPrint, MaxRows, MaxDeaths, Tools, Stoppers, MaxTakes, Limit, MaxTurns, MaxRuns

(* The bounds of the model are numbers, and a converter has finitely many children. *)
ASSUME SourcesAssumption ==
  /\ MaxPrint \in Nat \ {0} /\ {MaxRows, MaxDeaths, MaxTakes, Limit, MaxTurns, MaxRuns} \subseteq Nat
  /\ IsFiniteSet(Tools)

VARIABLES which,
  print, row, rows, disk, chunks, jobs, lane, door, deaths, raced,
  kids, starts, live, told, stuck, exited, stopping, reason, waits, crossed,
  entry, auto, pending, hand, searched, request, turns, runs, rounds, met

I == INSTANCE Intake
S == INSTANCE Supervisor
K == INSTANCE Knobs WITH row <- entry, jobs <- pending, lane <- hand, chunks <- searched

intake == <<print, row, rows, disk, chunks, jobs, lane, door, deaths, raced>>
supervisor == <<kids, starts, live, told, stuck, exited, stopping, reason, waits, crossed>>
knobs == <<entry, auto, pending, hand, searched, request, turns, runs, rounds, met>>
all == <<which, ovars, intake, supervisor, knobs>>

SourcesInit ==
  /\ which \in {"onboard", "intake", "supervisor", "knobs"}
  /\ Init /\ I!Init /\ S!Init /\ K!KnInit /\ (which # "knobs" => auto)
SourcesNext ==
  \/ which = "onboard" /\ Next /\ UNCHANGED <<which, intake, supervisor, knobs>>
  \/ which = "intake" /\ I!Next /\ UNCHANGED <<which, ovars, supervisor, knobs>>
  \/ which = "supervisor" /\ S!Next /\ UNCHANGED <<which, ovars, intake, knobs>>
  \/ which = "knobs" /\ K!KnNext /\ UNCHANGED <<which, ovars, intake, supervisor>>
SourcesSpec == SourcesInit /\ [][SourcesNext]_all /\ S!SupervisorFair

(* Intake, violated: the comment at use_cases/source_intake.py:79. *)
ReplacedReadsMoved == I!ReplacedReadsMoved
(* Supervisor: free is said of an empty card. *)
FreeUnlessCrossed == S!FreeUnlessCrossed
(* Supervisor: a stop that began ends. *)
StopEnds == S!StopEnds
(* Onboard and Intake: the report, the accepted folder, the chunks and the digest each speak of one run. *)
FoldersHold ==
  /\ which = "onboard" => TypeOK /\ ReportIsOfItsFiles
  /\ which = "intake" => I!TypeOK /\ I!CutIsWhole /\ I!AcceptedOnDisk /\ I!CurrentUnlessRaced
  /\ which = "supervisor" => S!TypeOK
  /\ which = "knobs" => K!KnobsHold
(* Onboard: a stop keeps every finished piece, and a cancel begins none. *)
StopsKeepPieces == StopsLoseNothing /\ CancelBeginsNothing
=============================================================================
