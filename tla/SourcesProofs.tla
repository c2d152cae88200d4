---------------------------- MODULE SourcesProofs ----------------------------
(***************************************************************************)
(* Theorems about how a source becomes chunks, for any pieces, routes,     *)
(* fingerprints, children, knobs and bounds: the onboarding, the row with  *)
(* its folders, the supervisor and the declaration each keep an invariant  *)
(* of their own.                                                           *)
(***************************************************************************)
EXTENDS MCSources, Sequences, FiniteSetTheorems, WellFoundedInduction, TLAPS

LEMMA StepOfSources ==
  ASSUME [SourcesNext]_all
  PROVE  [Next]_ovars /\ [I!Next]_intake /\ [S!Next]_supervisor /\ [K!KnNext]_knobs /\ UNCHANGED which
  BY DEF SourcesNext, all

LEMMA BoundsOfSources ==
  /\ MaxPrint \in Nat /\ MaxPrint > 0 /\ MaxRows \in Nat /\ MaxDeaths \in Nat /\ MaxTakes \in Nat
  /\ Limit \in Nat /\ MaxTurns \in Nat /\ MaxRuns \in Nat /\ IsFiniteSet(Tools)
  BY SourcesAssumption

(* A set of numbers has a least one: the sets of the numbers below its members are ordered by inclusion. *)
LEMMA LeastIs ==
  ASSUME NEW D \in SUBSET Nat, D # {}
  PROVE  \E p \in D : \A q \in D : p <= q
<1> DEFINE Below(p) == {q \in D : q < p}
           T == {Below(p) : p \in D}
<1>1. \A p \in D : IsFiniteSet(Below(p))
  <2> SUFFICES ASSUME NEW p \in D
               PROVE  IsFiniteSet(Below(p))
    OBVIOUS
  <2> QED
    BY FS_BoundedSetOfNaturals, Below(p) \in SUBSET Nat, \A s \in Below(p) : s <= p
<1>2. T \subseteq FiniteSubsetsOf(D) /\ T # {}
  BY <1>1 DEF FiniteSubsetsOf
<1>3. PICK x \in T : \A y \in T : ~(<<y, x>> \in StrictSubsetOrdering(D))
  <2> HIDE DEF T
  <2> QED
    BY <1>2, WFMin, FS_StrictSubsetOrderingWellFounded
<1>4. PICK p \in D : x = Below(p)
  OBVIOUS
<1>5. ASSUME NEW q \in D, q < p
      PROVE  FALSE
  <2>3. (\A r \in D : r < q => r < p) /\ ~(q < q)
    BY <1>5
  <2>1. Below(q) \subseteq Below(p) /\ q \in Below(p) /\ q \notin Below(q)
    BY <1>5, <2>3, Zenon
  <2>2. <<Below(q), Below(p)>> \in StrictSubsetOrdering(D)
    BY <2>1 DEF StrictSubsetOrdering
  <2> QED
    BY <1>3, <1>4, <2>2
<1>6. \A q \in D : ~(q < p)
  BY <1>5
<1> HIDE DEF T, Below
<1> QED
  BY <1>6

-----------------------------------------------------------------------------
(* The onboarding.  Between attempts the record's row of a piece names the *)
(* version of its text, save where an attempt cut off left the two apart;  *)
(* so what an attempt keeps, by the row, is of its own version.            *)

TextIsOfItsRow(units) == \A p \in Pieces \ torn : units[p] # None => units[p].version = text[p].version
RowsAreText ==
  /\ at = "idle" => TextIsOfItsRow(record.rows)
  /\ at # "idle" => TextIsOfItsRow(rec.rows) /\ reads \in Versions
PassedIsOfRun ==
  at # "idle" => \A p \in Pieces \ left :
    rec.rows[p].version = reads /\ (p \notin torn => text[p].version = reads)
PlaceIsItsPieces ==
  /\ at # "idle" => rec.route \in Routes
  /\ (at = "reading" => left # {}) /\ (at = "finishing" => left = {})
OnboardInv == TypeOK /\ RowsAreText /\ PassedIsOfRun /\ PlaceIsItsPieces /\ ReportIsOfItsFiles

LEMMA RowsAreVersioned ==
  /\ NoRecord \in Record /\ \A p \in Pieces : NoRecord.rows[p].version = 0
  /\ \A x \in Reading \cup {None} : x.version \in 0..MaxVersion
  /\ \A r \in Record, p \in Pieces : r.rows[p] \in Reading \cup {None} /\ r.rows[p].version \in Nat
  /\ \A t \in [Pieces -> Reading \cup {None}], p \in Pieces : t[p].version \in Nat /\ (t[p] # None => t[p].version > 0)
  /\ \A r \in Record, s \in Routes : [r EXCEPT !.route = s] \in Record /\ [r EXCEPT !.route = s].rows = r.rows
<1> USE OnboardAssumption
<1>1. \A x \in Reading \cup {None} : x.version \in 0..MaxVersion /\ (x # None => x.version > 0)
  BY DEF Reading, None, Versions
<1>2. NoRecord \in Record /\ \A p \in Pieces : NoRecord.rows[p].version = 0
  BY DEF NoRecord, Record, None
<1>3. \A r \in Record, p \in Pieces : r.rows[p] \in Reading \cup {None}
  BY DEF Record
<1>4. \A r \in Record, s \in Routes : [r EXCEPT !.route = s] \in Record /\ [r EXCEPT !.route = s].rows = r.rows
  BY DEF Record
<1> QED
  BY <1>1, <1>2, <1>3, <1>4

LEMMA OnboardInit == Init => OnboardInv
<1> SUFFICES ASSUME Init
             PROVE  OnboardInv
  OBVIOUS
<1> USE OnboardAssumption DEF Init
<1>1. [p \in Pieces |-> None] \in [Pieces -> Reading \cup {None}] /\ \A p \in Pieces : record.rows[p] = None
  BY DEF NoRecord
<1>5. fresh \in BOOLEAN /\ same \in BOOLEAN
  OBVIOUS
<1>2. TypeOK
  BY <1>1, <1>5, RowsAreVersioned DEF TypeOK, Versions
<1>3. RowsAreText /\ PassedIsOfRun /\ PlaceIsItsPieces
  BY <1>1 DEF RowsAreText, TextIsOfItsRow, PassedIsOfRun, PlaceIsItsPieces
<1>4. ReportIsOfItsFiles
  BY DEF ReportIsOfItsFiles, NoReport
<1> QED
  BY <1>2, <1>3, <1>4 DEF OnboardInv

(* A step of the doors and of the origin leaves the folder, the attempt and the report. *)
LEMMA OnboardDoors ==
  ASSUME OnboardInv, UNCHANGED <<folder, attempt, report>>, version' \in Versions, edits' \in 0..MaxEdits, route' \in Routes,
         job' \in {"none", "new", "running", "done", "error", "cancelled"}, fresh' \in BOOLEAN,
         tries' \in 0..MaxAttempts, asks' \in 0..MaxAsks, stopped' \in 0..MaxHalts
  PROVE  OnboardInv'
<1> USE DEF OnboardInv, folder, attempt
<1>1. TypeOK'
  BY DEF TypeOK
<1>2. RowsAreText' /\ PassedIsOfRun' /\ PlaceIsItsPieces' /\ ReportIsOfItsFiles'
  BY DEF RowsAreText, TextIsOfItsRow, PassedIsOfRun, PlaceIsItsPieces, ReportIsOfItsFiles
<1> QED
  BY <1>1, <1>2

LEMMA OnboardBegins ==
  ASSUME OnboardInv, Begins
  PROVE  OnboardInv'
<1> USE DEF Begins, OnboardInv, origin, folder
<1>1. rec' \in Record /\ rec'.rows = record.rows
  BY RowsAreVersioned DEF TypeOK
<1>2. TypeOK'
  BY <1>1, OnboardAssumption DEF TypeOK, Versions
<1>3. RowsAreText'
  BY <1>1 DEF RowsAreText, TextIsOfItsRow, TypeOK
<1>4. PassedIsOfRun' /\ ReportIsOfItsFiles'
  BY <1>1 DEF PassedIsOfRun, ReportIsOfItsFiles
<1>5. PlaceIsItsPieces'
  BY RowsAreVersioned DEF PlaceIsItsPieces, TypeOK, Record
<1> QED
  BY <1>2, <1>3, <1>4, <1>5

(* The attempt lets the folder go, with its record written or not: what is torn is said of the record left. *)
LEMMA OnboardLets ==
  ASSUME OnboardInv, record' \in {record, rec}, at' = "idle", rec' = NoRecord, same' = FALSE, reads' = 0, left' = {},
         UNCHANGED origin, text' \in [Pieces -> Reading \cup {None}], kept' \subseteq Pieces \X Versions,
         torn' \subseteq Pieces, TextIsOfItsRow(record.rows)', report' = report \/ ReportIsOfItsFiles',
         job' \in {"none", "new", "running", "done", "error", "cancelled"}, fresh' \in BOOLEAN,
         tries' \in 0..MaxAttempts, asks' \in 0..MaxAsks, stopped' \in 0..MaxHalts
  PROVE  OnboardInv'
<1> USE DEF OnboardInv, origin
<1>4. same' \in BOOLEAN
  OBVIOUS
<1>1. TypeOK'
  <2>1. record' \in Record /\ rec' \in Record /\ reads' \in 0..MaxVersion /\ left' \subseteq Pieces
    BY RowsAreVersioned, OnboardAssumption DEF TypeOK
  <2> QED
    BY <1>4, <2>1 DEF TypeOK
<1>3. RowsAreText' /\ PassedIsOfRun' /\ PlaceIsItsPieces' /\ ReportIsOfItsFiles'
  BY DEF RowsAreText, PassedIsOfRun, PlaceIsItsPieces, ReportIsOfItsFiles
<1> QED
  BY <1>1, <1>3

LEMMA OnboardKeeps ==
  ASSUME OnboardInv, KeepsPiece
  PROVE  OnboardInv'
<1> USE DEF KeepsPiece, OnboardInv, origin, asked, folder
<1>1. TypeOK'
  BY DEF TypeOK
<1>2. ASSUME Next1 \in Pieces
      PROVE  rec.rows[Next1].version = reads /\ (Next1 \notin torn => text[Next1].version = reads)
  BY <1>2 DEF Kept, RowsAreText, TextIsOfItsRow
<1>3. PassedIsOfRun'
  BY <1>2 DEF PassedIsOfRun
<1>4. RowsAreText' /\ PlaceIsItsPieces' /\ ReportIsOfItsFiles'
  BY DEF RowsAreText, TextIsOfItsRow, PlaceIsItsPieces, ReportIsOfItsFiles
<1> QED
  BY <1>1, <1>3, <1>4

LEMMA OnboardChecks ==
  ASSUME OnboardInv, ChecksPiece
  PROVE  OnboardInv'
<1> USE DEF ChecksPiece
<1>1. CASE Looks
  <2>1. /\ job' \in {"none", "new", "running", "done", "error", "cancelled"} /\ fresh' \in BOOLEAN
        /\ tries' \in 0..MaxAttempts /\ asks' \in 0..MaxAsks /\ stopped' \in 0..MaxHalts
        /\ text' \in [Pieces -> Reading \cup {None}] /\ kept' \subseteq Pieces \X Versions /\ torn' \subseteq Pieces
    BY DEF OnboardInv, TypeOK, asked
  <2>2. TextIsOfItsRow(record.rows)'
    BY <1>1 DEF OnboardInv, RowsAreText, TextIsOfItsRow, Stops
  <2> QED
    BY <1>1, <2>1, <2>2, OnboardLets DEF Stops
<1>2. CASE ~Looks
  <2> USE <1>2 DEF OnboardInv, origin, asked
  <2>1. TypeOK'
    BY DEF TypeOK
  <2>2. RowsAreText' /\ PassedIsOfRun' /\ PlaceIsItsPieces' /\ ReportIsOfItsFiles'
    BY DEF RowsAreText, TextIsOfItsRow, PassedIsOfRun, PlaceIsItsPieces, ReportIsOfItsFiles
  <2> QED
    BY <2>1, <2>2
<1> QED
  BY <1>1, <1>2

LEMMA ReadsAPiece == ASSUME TypeOK, left # {} PROVE Next1 \in left
<1>1. left \in SUBSET Nat
  BY OnboardAssumption DEF TypeOK
<1> QED
  BY <1>1, LeastIs DEF Next1

(* A reading of a piece on disk leaves every text and every kept reading well formed. *)
LEMMA WritesAText ==
  ASSUME OnboardInv, NEW p \in Pieces, at # "idle", NEW read \in Readings(p), Writes(p, read)
  PROVE  /\ read \in Reading /\ read.version = reads
         /\ text' \in [Pieces -> Reading \cup {None}] /\ kept' \subseteq Pieces \X Versions
         /\ text'[p] = read /\ \A q \in Pieces \ {p} : text'[q] = text[q]
<1>1. reads \in Versions /\ rec.route \in Routes
  BY DEF OnboardInv, RowsAreText, PlaceIsItsPieces
<1>2. read \in Reading /\ read.version = reads
  BY <1>1 DEF Readings, Reading
<1>3. text' \in [Pieces -> Reading \cup {None}] /\ text'[p] = read /\ \A q \in Pieces \ {p} : text'[q] = text[q]
  <2> HIDE DEF Reading, None
  <2> QED
    BY <1>2 DEF Writes, OnboardInv, TypeOK
<1>4. kept' \subseteq Pieces \X Versions
  BY <1>1 DEF Writes, OnboardInv, TypeOK
<1> QED
  BY <1>2, <1>3, <1>4

LEMMA OnboardReads ==
  ASSUME OnboardInv, ReadsPiece
  PROVE  OnboardInv'
<1> DEFINE p == Next1
<1> USE DEF OnboardInv
<1>1. p \in left /\ p \in Pieces /\ at = "reading" /\ reads \in Versions
  BY ReadsAPiece DEF ReadsPiece, PlaceIsItsPieces, TypeOK, RowsAreText
<1>2. PICK new \in Readings(p) : Writes(p, new) /\ rec' = [rec EXCEPT !.rows[p] = new]
  BY DEF ReadsPiece
<1>3. /\ record' \in {record, rec'} /\ left' = left \ {p} /\ at' = "pieces" /\ torn' = torn \ {p}
      /\ UNCHANGED <<origin, asked, same, reads, report, stopped>>
  BY DEF ReadsPiece
<1>4. /\ new \in Reading /\ new.version = reads
      /\ text' \in [Pieces -> Reading \cup {None}] /\ kept' \subseteq Pieces \X Versions
      /\ text'[p] = new /\ \A q \in Pieces \ {p} : text'[q] = text[q]
  BY <1>1, <1>2, WritesAText
<1>5. /\ rec' \in Record /\ rec'.route = rec.route
      /\ rec'.rows[p] = new /\ \A q \in Pieces \ {p} : rec'.rows[q] = rec.rows[q]
  <2> HIDE DEF p
  <2> QED
    BY <1>1, <1>2, <1>4 DEF TypeOK, Record
<1> HIDE DEF p
<1>6. TypeOK'
  <2>1. record' \in Record /\ left' \subseteq Pieces /\ torn' \subseteq Pieces
    BY <1>3, <1>5 DEF TypeOK
  <2> QED
    BY <1>1, <1>3, <1>4, <1>5, <2>1 DEF TypeOK, origin, asked
<1>7. RowsAreText'
  BY <1>1, <1>3, <1>4, <1>5 DEF RowsAreText, TextIsOfItsRow
<1>8. PassedIsOfRun'
  BY <1>1, <1>3, <1>4, <1>5 DEF PassedIsOfRun
<1>9. PlaceIsItsPieces' /\ ReportIsOfItsFiles'
  BY <1>1, <1>3, <1>5 DEF PlaceIsItsPieces, ReportIsOfItsFiles
<1> QED
  BY <1>6, <1>7, <1>8, <1>9

LEMMA OnboardRaises ==
  ASSUME OnboardInv, Raises
  PROVE  OnboardInv'
<1> USE OnboardAssumption DEF OnboardInv
<1>1. /\ job' \in {"none", "new", "running", "done", "error", "cancelled"} /\ fresh' = fresh
      /\ tries' \in 0..MaxAttempts /\ asks' = asks /\ stopped' \in 0..MaxHalts
  BY DEF Raises, EndsInRetry, Halts, TypeOK
<1>2. fresh' \in BOOLEAN /\ asks' \in 0..MaxAsks
  BY <1>1 DEF TypeOK
<1>3. /\ text' \in [Pieces -> Reading \cup {None}] /\ kept' \subseteq Pieces \X Versions /\ torn' \subseteq Pieces
      /\ TextIsOfItsRow(record.rows)'
  <2>1. CASE UNCHANGED <<text, kept, torn>>
    BY <2>1 DEF Raises, Stops, TypeOK, RowsAreText, TextIsOfItsRow
  <2>2. ASSUME at = "reading", NEW read \in Readings(Next1), Writes(Next1, read), torn' = Torn(rec.rows, text')
        PROVE  /\ text' \in [Pieces -> Reading \cup {None}] /\ kept' \subseteq Pieces \X Versions
               /\ torn' \subseteq Pieces /\ TextIsOfItsRow(record.rows)'
    <3>1. Next1 \in Pieces
      BY <2>2, ReadsAPiece DEF PlaceIsItsPieces, TypeOK
    <3>2. text' \in [Pieces -> Reading \cup {None}] /\ kept' \subseteq Pieces \X Versions
      BY <2>2, <3>1, WritesAText
    <3> QED
      BY <2>2, <3>2 DEF Raises, Stops, TextIsOfItsRow, Torn
  <2> QED
    BY <2>1, <2>2 DEF Raises
<1> QED
  BY <1>1, <1>2, <1>3, OnboardLets DEF Raises, Stops

LEMMA OnboardFinishes ==
  ASSUME OnboardInv, Finishes
  PROVE  OnboardInv'
<1> USE DEF OnboardInv
<1>1. /\ job' \in {"none", "new", "running", "done", "error", "cancelled"} /\ fresh' \in BOOLEAN
      /\ tries' \in 0..MaxAttempts /\ asks' \in 0..MaxAsks /\ stopped' \in 0..MaxHalts
      /\ text' \in [Pieces -> Reading \cup {None}] /\ kept' \subseteq Pieces \X Versions /\ torn' \subseteq Pieces
  BY DEF Finishes, TypeOK
<1>2. ReportIsOfItsFiles'
  BY DEF Finishes, ReportIsOfItsFiles, PassedIsOfRun, PlaceIsItsPieces
<1>3. TextIsOfItsRow(record.rows)'
  BY DEF Finishes, Stops, RowsAreText, TextIsOfItsRow
<1> QED
  BY <1>1, <1>2, <1>3, OnboardLets DEF Finishes, Stops

LEMMA OnboardDies ==
  ASSUME OnboardInv, Dies
  PROVE  OnboardInv'
<1> USE OnboardAssumption DEF OnboardInv
<1>1. /\ job' \in {"none", "new", "running", "done", "error", "cancelled"} /\ fresh' \in BOOLEAN
      /\ tries' \in 0..MaxAttempts /\ asks' \in 0..MaxAsks /\ stopped' \in 0..MaxHalts
      /\ text' \in [Pieces -> Reading \cup {None}] /\ kept' \subseteq Pieces \X Versions
  BY DEF Dies, Halts, TypeOK
<1>2. torn' \subseteq Pieces /\ TextIsOfItsRow(record.rows)'
  BY DEF Dies, Torn, TextIsOfItsRow
<1> QED
  BY <1>1, <1>2, OnboardLets DEF Dies

LEMMA OnboardReadsAll ==
  ASSUME OnboardInv, ReadsAll
  PROVE  OnboardInv'
<1> USE DEF ReadsAll, OnboardInv, origin, asked
<1>1. TypeOK'
  BY DEF TypeOK
<1>2. RowsAreText' /\ PassedIsOfRun' /\ PlaceIsItsPieces' /\ ReportIsOfItsFiles'
  BY DEF RowsAreText, TextIsOfItsRow, PassedIsOfRun, PlaceIsItsPieces, ReportIsOfItsFiles
<1> QED
  BY <1>1, <1>2

LEMMA OnboardAsks ==
  ASSUME OnboardInv,
         Edits \/ Cancels \/ (\E anew \in BOOLEAN : Asks(anew)) \/ (\E r \in Routes : SetsKnobs(r)) \/ UNCHANGED ovars
  PROVE  OnboardInv'
<1>1. UNCHANGED <<folder, attempt, report>>
  BY DEF Edits, Cancels, Asks, SetsKnobs, ovars
<1>2. /\ job' \in {"none", "new", "running", "done", "error", "cancelled"} /\ route' \in Routes
      /\ tries' \in 0..MaxAttempts /\ asks' \in 0..MaxAsks /\ stopped' \in 0..MaxHalts
      /\ version' \in Versions /\ edits' \in 0..MaxEdits
  BY OnboardAssumption DEF OnboardInv, TypeOK, Edits, Moves, Cancels, Asks, SetsKnobs, ovars, origin, asked, Halts
<1>3. fresh' \in BOOLEAN
  BY DEF OnboardInv, TypeOK, Edits, Cancels, Asks, SetsKnobs, ovars, asked
<1> QED
  BY <1>1, <1>2, <1>3, OnboardDoors

LEMMA OnboardStep ==
  ASSUME OnboardInv, [Next]_ovars
  PROVE  OnboardInv'
  BY OnboardAsks, OnboardBegins, OnboardKeeps, OnboardChecks, OnboardReads, OnboardRaises, OnboardFinishes, OnboardDies,
     OnboardReadsAll
     DEF Next, Handler

-----------------------------------------------------------------------------
(* The row and its folders.  What a request or a job in flight has seen is *)
(* of the row's past: its stage goes one way, and a row made since then is *)
(* a bare declaration.                                                     *)

Ids == 1..MaxRows
Runs == {r \in I!Run : r.print # 0}
Lanes ==
  {[at |-> "idle"]} \cup [at : {"writing", "taking"}, id : Ids, run : Runs]
  \cup [at : {"taken"}, id : Ids, seen : I!Row, new : I!Row, gone : SUBSET I!Folders]
  \cup [at : {"clearing"}, gone : SUBSET I!Folders] \cup [at : {"provision"}, folder : I!Folders]
  \cup [at : {"opening", "closing"}, folder : I!Folders, id : Ids, first : 0..MaxPrint]
  \cup [at : {"cut"}, id : Ids, read : (0..MaxPrint) \X (0..MaxPrint)] \cup [at : {"replaced"}, id : Ids]
Doors ==
  {[at |-> "idle"]} \cup [at : {"looked", "decided"}, row : I!Row]
  \cup [at : {"dropping", "removing"}, gone : SUBSET I!Folders] \cup [at : {"removal", "sweeping"}, id : Ids, own : SUBSET I!Folders]
IntakeTyped ==
  /\ print \in I!Prints /\ row \in I!Row /\ rows \in 0..MaxRows /\ disk \in [I!Folders -> 0..MaxPrint]
  /\ chunks \in (0..MaxPrint) \X (0..MaxPrint) /\ jobs \subseteq {"onboard", "index"}
  /\ deaths \in 0..MaxDeaths /\ raced \subseteq {"accept", "index", "take", "sweep"}
  /\ lane \in Lanes /\ door \in Doors

OnboardAt == {"writing", "taking", "taken", "clearing"}
IndexAt == {"provision", "opening", "closing", "cut", "replaced"}
WithId == {"writing", "taking", "taken", "opening", "closing", "cut", "replaced"}
LaneHasJob == (lane.at \in OnboardAt => "onboard" \in jobs) /\ (lane.at \in IndexAt => "index" \in jobs)

(* a row's columns by its stage *)
WellStaged(r) ==
  /\ (r.stage = "none" <=> r.id = 0) /\ r.id <= rows
  /\ r.stage # "accepted" => r.mark = "none" /\ r.cand = I!NoRun
(* what was seen of a row is its past *)
PastOf(r) ==
  /\ WellStaged(r) /\ r.id # 0
  /\ r.id = row.id => (r.stage = "accepted" => row.stage = "accepted") /\ (r.stage = "raw" => row.stage \in {"raw", "accepted"})
(* the run of the onboarding in hand *)
LaneRun == IF lane.at # "taken" THEN lane.run ELSE IF lane.new.cand # I!NoRun THEN lane.new.cand ELSE lane.new.run
TakenFrom(seen, run) ==
  LET taken == I!Taken(seen, run)
  IN  \/ lane.new = taken /\ lane.gone = I!Gone(seen, run)
      \/ lane.new = I!Promoted(taken) /\ lane.gone = I!Gone(seen, run) \cup I!Earlier(taken)

RowsStand ==
  /\ WellStaged(row) /\ LaneHasJob
  /\ lane.at \in WithId => lane.id <= rows /\ (row.id # lane.id => row.stage \in {"none", "declared"})
  /\ lane.at = "taken" =>
       /\ lane.seen.id = lane.id /\ PastOf(lane.seen) /\ LaneRun.print # 0 /\ TakenFrom(lane.seen, LaneRun)
       /\ row.id = lane.id /\ lane.seen.stage = "declared" => row.stage = "declared"
  /\ lane.at = "provision" => row.stage # "raw"
  /\ lane.at \in IndexAt \ {"provision"} /\ row.id = lane.id => row.stage = "accepted"
  /\ door.at \in {"looked", "decided"} => PastOf(door.row)
  /\ door.at = "decided" => door.row.stage = "raw" \/ I!Waiting(door.row)
  /\ door.at \in {"removal", "sweeping"} => door.id <= rows

(* The folders, while nobody wrote after an old look: prints grow from run to run, and the folder of a run that *)
(* follows an accepted one is named by its print, so no two runs of a row meet in a folder. *)
OnDisk(run) == disk[run.folder] = run.print /\ run.print \in 1..print
Follows(run, r) ==
  /\ run.print \in 1..print
  /\ r.stage = "accepted" => /\ run.folder = run.print /\ r.run.print < run.print
                             /\ r.cand # I!NoRun => r.cand.print <= run.print
  /\ r.stage # "accepted" => run.folder = 0
AcceptedStands ==
  row.stage = "accepted" =>
    /\ OnDisk(row.run) /\ row.run.folder \in {0, row.run.print}
    /\ row.cand # I!NoRun => OnDisk(row.cand) /\ row.cand.folder = row.cand.print /\ row.run.print < row.cand.print
RawStands ==
  row.stage = "raw" =>
    /\ row.run.folder = 0 /\ row.run.print \in 1..print
    /\ "onboard" \notin jobs \/ lane.at = "clearing" => OnDisk(row.run)
LaneStands ==
  /\ lane.at \in {"writing", "taking", "taken"} /\ row.id = lane.id => Follows(LaneRun, row)
  /\ lane.at \in {"taking", "taken"} /\ row.id = lane.id => OnDisk(LaneRun)
  /\ lane.at = "taken" /\ row.id = lane.id => Follows(LaneRun, lane.seen)
  /\ lane.at = "clearing" => /\ row.stage \in {"raw", "accepted"} => row.run.folder \notin lane.gone
                             /\ row.cand # I!NoRun => row.cand.folder \notin lane.gone
DropStands ==
  /\ door.at \in {"dropping", "removing"} => row.stage = "accepted" /\ \A f \in door.gone : f < row.run.folder
  /\ door.at = "removing" /\ lane.at \in {"provision", "opening", "closing"} => lane.folder \notin door.gone
CutStands ==
  /\ chunks[1] = chunks[2]
  /\ lane.at = "closing" /\ row.id = lane.id => lane.first = disk[lane.folder]
  /\ lane.at = "cut" /\ row.id = lane.id => lane.read[1] = lane.read[2]
FoldersStand == AcceptedStands /\ RawStands /\ LaneStands /\ DropStands /\ CutStands

(* and the mark, while no accept crossed an index *)
MarkStands ==
  /\ row.mark = "current" /\ lane.at # "replaced" => chunks[1] = row.run.print
  /\ lane.at = "provision" /\ row.stage = "accepted" => lane.folder = row.run.folder
  /\ lane.at \in IndexAt \ {"provision"} /\ row.id = lane.id =>
       /\ lane.at \in {"opening", "closing"} => lane.folder = row.run.folder
       /\ lane.at = "closing" => lane.first = row.run.print
       /\ lane.at = "cut" => lane.read[1] = row.run.print
       /\ lane.at = "replaced" => chunks[1] = row.run.print

IntakeInv ==
  /\ IntakeTyped /\ RowsStand
  /\ raced \subseteq {"index"} => FoldersStand
  /\ raced = {} => MarkStands

Clean == raced \subseteq {"index"}

LEMMA RunsAreTyped ==
  /\ I!NoRun \in I!Run /\ I!NoRow \in I!Row /\ I!NoRun.folder = 0 /\ I!NoRun.print = 0
  /\ I!NoRow.id = 0 /\ I!NoRow.stage = "none" /\ I!NoRow.mark = "none" /\ I!NoRow.cand = I!NoRun /\ I!NoRow.run = I!NoRun
  /\ rows \in 0..(MaxRows - 1) =>
       /\ I!NewRow \in I!Row /\ I!NewRow.id = rows + 1 /\ I!NewRow.stage = "declared" /\ I!NewRow.mark = "none"
       /\ I!NewRow.cand = I!NoRun /\ I!NewRow.run = I!NoRun
<1> USE BoundsOfSources
<1>1. I!NoRun \in I!Run /\ I!NoRun.folder = 0 /\ I!NoRun.print = 0
  BY DEF I!NoRun, I!Run, I!Folders
<1>2. I!NoRow \in I!Row /\ I!NoRow.id = 0 /\ I!NoRow.stage = "none" /\ I!NoRow.mark = "none"
      /\ I!NoRow.cand = I!NoRun /\ I!NoRow.run = I!NoRun
  BY <1>1 DEF I!NoRow, I!Row
<1>3. ASSUME rows \in 0..(MaxRows - 1)
      PROVE  /\ I!NewRow \in I!Row /\ I!NewRow.id = rows + 1 /\ I!NewRow.stage = "declared" /\ I!NewRow.mark = "none"
             /\ I!NewRow.cand = I!NoRun /\ I!NewRow.run = I!NoRun
  <2>1. rows + 1 \in 0..MaxRows
    BY <1>3
  <2> QED
    BY <1>2, <2>1 DEF I!NewRow, I!Row
<1> QED
  BY <1>1, <1>2, <1>3

LEMMA RunsAreNumbers ==
  /\ \A run \in I!Run : run.folder \in I!Folders /\ run.folder \in Nat /\ run.print \in 0..MaxPrint /\ run.print \in Nat
  /\ \A r \in I!Row : r.id \in 0..MaxRows /\ r.run \in I!Run /\ r.cand \in I!Run
  BY BoundsOfSources DEF I!Row, I!Run, I!Folders

LEMMA LaneKinds ==
  ASSUME lane \in Lanes
  PROVE  /\ lane.at \in {"idle"} \cup OnboardAt \cup IndexAt
         /\ lane.at = "idle" => lane = [at |-> "idle"]
         /\ lane.at \in {"writing", "taking"} => lane \in [at : {"writing", "taking"}, id : Ids, run : Runs]
         /\ lane.at = "taken" => lane \in [at : {"taken"}, id : Ids, seen : I!Row, new : I!Row, gone : SUBSET I!Folders]
         /\ lane.at = "clearing" => lane \in [at : {"clearing"}, gone : SUBSET I!Folders]
         /\ lane.at = "provision" => lane \in [at : {"provision"}, folder : I!Folders]
         /\ lane.at \in {"opening", "closing"} => lane \in [at : {"opening", "closing"}, folder : I!Folders, id : Ids, first : 0..MaxPrint]
         /\ lane.at = "cut" => lane \in [at : {"cut"}, id : Ids, read : (0..MaxPrint) \X (0..MaxPrint)]
         /\ lane.at = "replaced" => lane \in [at : {"replaced"}, id : Ids]
         /\ lane.at \in WithId => lane.id \in Ids
  BY DEF Lanes, OnboardAt, IndexAt, WithId

LEMMA DoorKinds ==
  ASSUME door \in Doors
  PROVE  /\ door.at \in {"idle", "looked", "decided", "dropping", "removing", "removal", "sweeping"}
         /\ door.at = "idle" => door = [at |-> "idle"]
         /\ door.at \in {"looked", "decided"} => door \in [at : {"looked", "decided"}, row : I!Row]
         /\ door.at \in {"dropping", "removing"} => door \in [at : {"dropping", "removing"}, gone : SUBSET I!Folders]
         /\ door.at \in {"removal", "sweeping"} => door \in [at : {"removal", "sweeping"}, id : Ids, own : SUBSET I!Folders]
  BY DEF Doors

LEMMA GoneAreNumbers ==
  ASSUME IntakeTyped
  PROVE  door.at \in {"dropping", "removing"} => door.gone \subseteq I!Folders /\ \A f \in door.gone : f \in Nat
<1>1. \A f \in I!Folders : f \in Nat
  BY BoundsOfSources DEF I!Folders
<1>2. ASSUME door.at \in {"dropping", "removing"}
      PROVE  door.gone \subseteq I!Folders
  <2>1. door \in [at : {"dropping", "removing"}, gone : SUBSET I!Folders]
    BY <1>2, DoorKinds DEF IntakeTyped
  <2> QED
    BY <2>1
<1> QED
  BY <1>1, <1>2

LEMMA IntakeInit == I!Init => IntakeInv
<1> SUFFICES ASSUME I!Init
             PROVE  IntakeInv
  OBVIOUS
<1> USE BoundsOfSources, RunsAreTyped DEF I!Init
<1>1. IntakeTyped
  BY DEF IntakeTyped, I!Prints, I!Folders, I!Idle, Lanes, Doors
<1>2. lane.at = "idle" /\ door.at = "idle"
  BY DEF I!Idle
<1>3. RowsStand
  BY <1>2 DEF RowsStand, WellStaged, LaneHasJob, WithId, OnboardAt, IndexAt
<1>4. FoldersStand /\ MarkStands
  BY <1>2 DEF FoldersStand, AcceptedStands, RawStands, LaneStands, DropStands, CutStands, MarkStands, IndexAt
<1> QED
  BY <1>1, <1>3, <1>4 DEF IntakeInv

LEMMA IntakeMoves ==
  ASSUME IntakeInv, I!Moves
  PROVE  IntakeInv'
<1> USE BoundsOfSources DEF I!Moves
<1>1. IntakeTyped'
  BY DEF IntakeInv, IntakeTyped, I!Prints
<1>2. RowsStand'
  BY DEF IntakeInv, RowsStand, LaneHasJob, PastOf, WellStaged, TakenFrom, LaneRun
<1>3. FoldersStand => FoldersStand'
  <2>1. print \in Nat /\ print' = print + 1 /\ 1..print \subseteq 1..print'
    BY DEF IntakeInv, IntakeTyped, I!Prints
  <2> QED
    BY <2>1 DEF FoldersStand, AcceptedStands, RawStands, LaneStands, DropStands, CutStands, OnDisk, Follows, LaneRun
<1>4. MarkStands => MarkStands'
  BY DEF MarkStands
<1> QED
  BY <1>1, <1>2, <1>3, <1>4 DEF IntakeInv

(* A row comes under the name; the doors are where they were. *)
LEMMA NewRowKeeps ==
  ASSUME IntakeInv, row.id = 0, rows < MaxRows, row' = I!NewRow, rows' = rows + 1,
         UNCHANGED lane \/ lane' = [at |-> "idle"], jobs' \subseteq jobs, lane' = lane => jobs' = jobs,
         UNCHANGED <<print, disk, chunks, door, raced>>
  PROVE  /\ row' \in I!Row /\ rows' \in 0..MaxRows /\ RowsStand'
         /\ FoldersStand => FoldersStand'
         /\ MarkStands => MarkStands'
<1>1. rows \in 0..(MaxRows - 1) /\ rows \in Nat
  BY BoundsOfSources DEF IntakeInv, IntakeTyped
<1>2. /\ row' \in I!Row /\ row'.id = rows + 1 /\ row'.stage = "declared" /\ row'.mark = "none" /\ row'.cand = I!NoRun
  BY <1>1, RunsAreTyped
<1>3. rows' \in 0..MaxRows
  BY <1>1, BoundsOfSources
<1>4. row.stage = "none" /\ (lane.at \in WithId => lane.id \in Ids /\ lane.id <= rows)
  BY LaneKinds DEF IntakeInv, IntakeTyped, RowsStand, WellStaged
<1>5. lane.at \in WithId => lane.id # row'.id
  BY <1>1, <1>2, <1>4 DEF Ids
<1>6. \A r \in I!Row : PastOf(r) => PastOf(r)'
  BY <1>1, <1>2, BoundsOfSources DEF PastOf, WellStaged, I!Row
<1>7. RowsStand'
  <2>1. WellStaged(row)' /\ LaneHasJob'
    BY <1>1, <1>2 DEF IntakeInv, RowsStand, WellStaged, LaneHasJob, OnboardAt, IndexAt
  <2>2. lane.at = "taken" => lane.seen \in I!Row
    BY LaneKinds DEF IntakeInv, IntakeTyped
  <2>3. door.at \in {"looked", "decided"} => door.row \in I!Row
    BY DoorKinds DEF IntakeInv, IntakeTyped
  <2>4. door.at \in {"removal", "sweeping"} => door.id \in Ids
    BY DoorKinds DEF IntakeInv, IntakeTyped
  <2>5. lane.at \in WithId => lane.id <= rows' /\ row'.stage \in {"none", "declared"}
    BY <1>1, <1>2, <1>4 DEF WithId, Ids
  <2>6. /\ door.at \in {"looked", "decided"} => PastOf(door.row)'
        /\ door.at \in {"removal", "sweeping"} => door.id <= rows'
    BY <1>1, <1>6, <2>3, <2>4 DEF IntakeInv, RowsStand, Ids
  <2>7. CASE lane' = [at |-> "idle"]
    BY <2>1, <2>6, <2>7 DEF IntakeInv, RowsStand, WithId, IndexAt, I!Waiting
  <2>8. CASE UNCHANGED lane
    BY <1>1, <1>2, <1>4, <1>5, <1>6, <2>1, <2>2, <2>5, <2>6, <2>8
       DEF IntakeInv, RowsStand, WithId, IndexAt, TakenFrom, LaneRun
  <2> QED
    BY <2>7, <2>8
<1>8. FoldersStand => FoldersStand'
  BY <1>2, <1>4, <1>5
     DEF FoldersStand, AcceptedStands, RawStands, LaneStands, DropStands, CutStands, LaneRun, OnDisk, WithId
<1>9. MarkStands => MarkStands'
  BY <1>2, <1>5 DEF MarkStands, WithId, IndexAt
<1> QED
  BY <1>2, <1>3, <1>7, <1>8, <1>9

LEMMA IntakeDeclares ==
  ASSUME IntakeInv, I!Declares
  PROVE  IntakeInv'
<1>1. /\ row' \in I!Row /\ rows' \in 0..MaxRows /\ RowsStand'
      /\ FoldersStand => FoldersStand'
      /\ MarkStands => MarkStands'
  BY NewRowKeeps DEF I!Declares
<1>2. IntakeTyped'
  BY <1>1 DEF IntakeInv, IntakeTyped, I!Declares
<1> QED
  BY <1>1, <1>2 DEF IntakeInv, I!Declares

LEMMA IntakeAsks ==
  ASSUME IntakeInv, I!AsksOnboard \/ I!AsksIndex \/ UNCHANGED intake
  PROVE  IntakeInv'
<1>1. UNCHANGED <<print, row, rows, disk, chunks, lane, door, deaths, raced>> /\ jobs \subseteq jobs' /\ jobs' \subseteq {"onboard", "index"}
  BY DEF I!AsksOnboard, I!AsksIndex, intake, IntakeInv, IntakeTyped
<1>2. IntakeTyped'
  BY <1>1 DEF IntakeInv, IntakeTyped
<1>3. RowsStand'
  BY <1>1 DEF IntakeInv, RowsStand, LaneHasJob, PastOf, WellStaged, TakenFrom, LaneRun
<1>4. FoldersStand => FoldersStand'
  BY <1>1 DEF FoldersStand, AcceptedStands, RawStands, LaneStands, DropStands, CutStands, OnDisk, Follows, LaneRun
<1>5. MarkStands => MarkStands'
  BY <1>1 DEF MarkStands
<1> QED
  BY <1>1, <1>2, <1>3, <1>4, <1>5 DEF IntakeInv

(* The lane is let go, with its job or without. *)
LEMMA LaneLets ==
  ASSUME IntakeInv, lane' = I!Idle, jobs' \subseteq jobs, UNCHANGED <<print, row, rows, disk, chunks, door, raced>>, deaths' \in 0..MaxDeaths,
         Clean /\ row.stage = "raw" /\ "onboard" \notin jobs' => OnDisk(row.run),
         raced = {} /\ row.mark = "current" => chunks[1] = row.run.print
  PROVE  IntakeInv'
<1> USE DEF I!Idle
<1>1. IntakeTyped'
  BY DEF IntakeInv, IntakeTyped, Lanes
<1>2. RowsStand'
  BY DEF IntakeInv, RowsStand, LaneHasJob, PastOf, WellStaged, WithId, OnboardAt, IndexAt
<1>3. FoldersStand /\ Clean => FoldersStand'
  <2>1. FoldersStand => AcceptedStands' /\ LaneStands' /\ DropStands' /\ CutStands'
    BY DEF FoldersStand, AcceptedStands, LaneStands, DropStands, CutStands, OnDisk
  <2>2. FoldersStand /\ Clean => RawStands'
    BY DEF FoldersStand, RawStands, OnDisk
  <2> QED
    BY <2>1, <2>2 DEF FoldersStand
<1>4. raced = {} => MarkStands'
  BY DEF MarkStands, IndexAt
<1> QED
  BY <1>1, <1>2, <1>3, <1>4 DEF IntakeInv, Clean

LEMMA MarkIsOfCut ==
  ASSUME IntakeInv, raced = {}, row.mark = "current", lane.at # "replaced" \/ row.id = lane.id
  PROVE  chunks[1] = row.run.print
  BY DEF IntakeInv, MarkStands, IndexAt

LEMMA IntakeDies ==
  ASSUME IntakeInv, I!Dies
  PROVE  IntakeInv'
<1>1. deaths' \in 0..MaxDeaths
  BY BoundsOfSources DEF I!Dies, IntakeInv, IntakeTyped
<1>2. Clean /\ row.stage = "raw" /\ "onboard" \notin jobs' => OnDisk(row.run)
  BY DEF I!Dies, IntakeInv, FoldersStand, RawStands, Clean
<1>3. raced = {} /\ row.mark = "current" => chunks[1] = row.run.print
  <2>1. CASE lane.at = "replaced" /\ row.id # lane.id
    BY <2>1 DEF IntakeInv, RowsStand, WellStaged, WithId
  <2> QED
    BY <2>1, MarkIsOfCut
<1> QED
  BY <1>1, <1>2, <1>3, LaneLets DEF I!Dies

LEMMA IntakeOnboardBegins ==
  ASSUME IntakeInv, I!OnboardBegins
  PROVE  IntakeInv'
<1> USE DEF I!OnboardBegins
<1>1. CASE row.id = 0 \/ (row.stage = "accepted" /\ row.run.print = print)
  <2>1. row.stage # "raw"
    BY <1>1 DEF IntakeInv, RowsStand, WellStaged
  <2>2. raced = {} /\ row.mark = "current" => chunks[1] = row.run.print
    BY MarkIsOfCut
  <2>3. deaths' \in 0..MaxDeaths
    BY DEF IntakeInv, IntakeTyped
  <2> QED
    BY <1>1, <2>1, <2>2, <2>3, LaneLets DEF I!Ends
<1>2. CASE ~(row.id = 0 \/ (row.stage = "accepted" /\ row.run.print = print))
  <2> DEFINE run == [folder |-> I!FolderOf(row), print |-> print]
  <2>1. lane' = [at |-> "writing", id |-> row.id, run |-> run] /\ jobs' = jobs
    BY <1>2
  <2>2. print \in 1..MaxPrint /\ row \in I!Row /\ rows \in 0..MaxRows /\ row.id \in Ids /\ row.id <= rows
    BY <1>2 DEF IntakeInv, IntakeTyped, I!Prints, I!Row, Ids, RowsStand, WellStaged
  <2>3. run \in Runs /\ run.print = print /\ run.folder = I!FolderOf(row)
    BY <2>2, BoundsOfSources DEF I!Run, I!Folders, I!FolderOf, Runs
  <2> HIDE DEF run
  <2>4. IntakeTyped'
    BY <2>1, <2>2, <2>3 DEF IntakeInv, IntakeTyped, Lanes
  <2>5. RowsStand'
    BY <2>1, <2>2 DEF IntakeInv, RowsStand, LaneHasJob, PastOf, WellStaged, WithId, OnboardAt, IndexAt
  <2>6. FoldersStand => Follows(run, row)
    BY <1>2, <2>2, <2>3, RunsAreTyped DEF FoldersStand, AcceptedStands, Follows, I!FolderOf, OnDisk, I!Row, I!Run
  <2>7. FoldersStand => FoldersStand'
    BY <2>1, <2>6 DEF FoldersStand, AcceptedStands, RawStands, LaneStands, DropStands, CutStands, LaneRun, OnDisk, Follows
  <2>8. MarkStands => MarkStands'
    BY <2>1 DEF MarkStands, IndexAt
  <2> QED
    BY <2>4, <2>5, <2>7, <2>8 DEF IntakeInv
<1> QED
  BY <1>1, <1>2

LEMMA IntakeOnboardWrites ==
  ASSUME IntakeInv, I!OnboardWrites
  PROVE  IntakeInv'
<1> DEFINE run == lane.run
<1>1. /\ lane.at = "writing" /\ lane \in [at : {"writing", "taking"}, id : Ids, run : Runs]
      /\ run \in I!Run /\ run.folder \in I!Folders /\ run.print \in 0..MaxPrint
  BY LaneKinds DEF I!OnboardWrites, IntakeInv, IntakeTyped, I!Run, Runs
<1>2. /\ lane' \in [at : {"writing", "taking"}, id : Ids, run : Runs] /\ lane'.at = "taking" /\ lane'.id = lane.id /\ lane'.run = run
      /\ UNCHANGED <<print, row, rows, chunks, jobs, door, deaths, raced>>
  BY <1>1 DEF I!OnboardWrites
<1>3. /\ disk' \in [I!Folders -> 0..MaxPrint] /\ disk'[run.folder] = run.print
      /\ \A f \in I!Folders : f # run.folder => disk'[f] = disk[f]
  BY <1>1 DEF I!OnboardWrites, IntakeInv, IntakeTyped
<1>4. IntakeTyped'
  BY <1>2, <1>3 DEF IntakeInv, IntakeTyped, Lanes
<1>5. RowsStand'
  BY <1>1, <1>2 DEF IntakeInv, RowsStand, LaneHasJob, PastOf, WellStaged, WithId, OnboardAt, IndexAt
<1>6. ASSUME FoldersStand
      PROVE  FoldersStand'
  <2>1. LaneRun = run /\ LaneRun' = run
    BY <1>1, <1>2 DEF LaneRun
  <2>2. /\ row \in I!Row /\ row.run \in I!Run /\ row.cand \in I!Run /\ print \in Nat
        /\ row.run.folder \in I!Folders /\ row.cand.folder \in I!Folders /\ row.run.print \in Nat /\ row.cand.print \in Nat
    BY RunsAreNumbers, BoundsOfSources DEF IntakeInv, IntakeTyped, I!Prints
  <2>3. row.stage = "accepted" => Follows(run, row)
    BY <1>1, <1>6, <2>1 DEF IntakeInv, RowsStand, WithId, FoldersStand, LaneStands
  <2>4. AcceptedStands'
    BY <1>1, <1>2, <1>3, <1>6, <2>2, <2>3 DEF FoldersStand, AcceptedStands, OnDisk, Follows
  <2>5. RawStands'
    BY <1>1, <1>2, <1>6 DEF IntakeInv, RowsStand, LaneHasJob, OnboardAt, FoldersStand, RawStands
  <2>6. LaneStands'
    BY <1>1, <1>2, <1>3, <1>6, <2>1 DEF FoldersStand, LaneStands, OnDisk, Follows
  <2>7. DropStands' /\ CutStands'
    BY <1>1, <1>2, <1>6 DEF FoldersStand, DropStands, CutStands
  <2> QED
    BY <2>4, <2>5, <2>6, <2>7 DEF FoldersStand
<1>7. MarkStands => MarkStands'
  BY <1>1, <1>2 DEF MarkStands, IndexAt
<1> QED
  BY <1>2, <1>4, <1>5, <1>6, <1>7 DEF IntakeInv

(* What take_run and a promotion make of a row. *)
LEMMA TakenIs ==
  ASSUME NEW r \in I!Row, r.stage # "accepted" => r.cand = I!NoRun /\ r.mark = "none", NEW run \in I!Run, run.print # 0,
         NEW t, t = I!Taken(r, run), NEW p, p = I!Promoted(t)
  PROVE  /\ t \in I!Row /\ t.id = r.id /\ t.mark = r.mark
         /\ r.stage = "accepted" => t.stage = "accepted" /\ t.run = r.run /\ t.cand = run
         /\ r.stage # "accepted" => t.stage = "raw" /\ t.run = run /\ t.cand = I!NoRun
         /\ p \in I!Row /\ p.id = r.id /\ p.stage = "accepted" /\ p.run = run /\ p.cand = I!NoRun
         /\ p.mark = I!Mark(r)
         /\ I!Gone(r, run) \subseteq I!Folders /\ I!Earlier(t) \subseteq I!Folders
<1>0. I!NoRun \in I!Run /\ I!NoRun.print = 0 /\ run # I!NoRun
  BY RunsAreTyped
<1>1. /\ t \in I!Row /\ t.id = r.id /\ t.mark = r.mark
      /\ r.stage = "accepted" => t.stage = "accepted" /\ t.run = r.run /\ t.cand = run
      /\ r.stage # "accepted" => t.stage = "raw" /\ t.run = run /\ t.cand = I!NoRun
  BY DEF I!Taken, I!Row
<1>2. I!Mark(t) = I!Mark(r) /\ I!Mark(t) \in {"none", "current", "replaced"}
  BY <1>1 DEF I!Mark
<1>3. p \in I!Row /\ p.id = r.id /\ p.stage = "accepted" /\ p.run = run /\ p.cand = I!NoRun /\ p.mark = I!Mark(r)
  BY <1>0, <1>1, <1>2 DEF I!Promoted, I!Row
<1>4. I!Gone(r, run) \subseteq I!Folders /\ I!Earlier(t) \subseteq I!Folders
  BY <1>1 DEF I!Gone, I!Earlier, I!Row, I!Run
<1> QED
  BY <1>1, <1>3, <1>4

LEMMA IntakeOnboardTakes ==
  ASSUME IntakeInv, I!OnboardTakes
  PROVE  IntakeInv'
<1>1. /\ lane.at = "taking" /\ lane \in [at : {"writing", "taking"}, id : Ids, run : Runs] /\ lane.run \in I!Run /\ lane.run.print # 0
  BY LaneKinds DEF I!OnboardTakes, IntakeInv, IntakeTyped, Runs
<1>2. CASE row.id # lane.id
  <2>1. row.stage # "raw"
    BY <1>1, <1>2 DEF IntakeInv, RowsStand, WithId
  <2>2. raced = {} /\ row.mark = "current" => chunks[1] = row.run.print
    BY <1>1, MarkIsOfCut
  <2>3. deaths' \in 0..MaxDeaths
    BY DEF IntakeInv, IntakeTyped, I!OnboardTakes
  <2> QED
    BY <1>2, <2>1, <2>2, <2>3, LaneLets DEF I!Ends, I!OnboardTakes
<1>3. CASE row.id = lane.id
  <2> DEFINE run == lane.run
             taken == I!Taken(row, run)
             promoted == I!Promoted(taken)
  <2>1. PICK promote \in BOOLEAN :
          lane' = [at |-> "taken", id |-> lane.id, seen |-> row, new |-> IF promote THEN promoted ELSE taken,
                   gone |-> I!Gone(row, run) \cup (IF promote THEN I!Earlier(taken) ELSE {})]
    BY <1>1, <1>3 DEF I!OnboardTakes
  <2>2. UNCHANGED <<print, row, rows, disk, chunks, jobs, door, deaths, raced>>
    BY <1>3 DEF I!OnboardTakes
  <2>3. row \in I!Row /\ (row.stage # "accepted" => row.cand = I!NoRun /\ row.mark = "none") /\ lane.id \in Ids
    BY <1>1 DEF IntakeInv, IntakeTyped, RowsStand, WellStaged
  <2>4. /\ taken \in I!Row /\ promoted \in I!Row /\ taken.id = row.id /\ promoted.id = row.id
        /\ row.stage = "accepted" => taken.cand = run
        /\ row.stage # "accepted" => taken.run = run /\ taken.cand = I!NoRun
        /\ promoted.run = run /\ promoted.cand = I!NoRun /\ run # I!NoRun
        /\ I!Gone(row, run) \subseteq I!Folders /\ I!Earlier(taken) \subseteq I!Folders
    BY <1>1, <2>3, TakenIs, RunsAreTyped
  <2> HIDE DEF taken, promoted
  <2>5. IntakeTyped'
    BY <2>1, <2>2, <2>3, <2>4 DEF IntakeInv, IntakeTyped, Lanes
  <2>6. lane'.at = "taken" /\ lane'.seen = row /\ lane'.id = lane.id /\ LaneRun' = run
    BY <2>1, <2>4 DEF LaneRun
  <2>7. TakenFrom(lane.seen, LaneRun)' /\ LaneRun'.print # 0
    BY <1>1, <2>1, <2>6 DEF TakenFrom, taken, promoted
  <2>8. RowsStand'
    BY <1>1, <1>3, <2>2, <2>3, <2>6, <2>7
       DEF IntakeInv, RowsStand, LaneHasJob, PastOf, WellStaged, WithId, OnboardAt, IndexAt, Ids
  <2>9. FoldersStand => FoldersStand'
    <3>1. LaneRun = run
      BY <1>1 DEF LaneRun
    <3> QED
      BY <1>1, <1>3, <2>2, <2>6, <3>1
         DEF FoldersStand, AcceptedStands, RawStands, LaneStands, DropStands, CutStands, OnDisk, Follows
  <2>10. MarkStands => MarkStands'
    BY <1>1, <2>2, <2>6 DEF MarkStands, IndexAt
  <2> QED
    BY <2>2, <2>5, <2>8, <2>9, <2>10 DEF IntakeInv
<1> QED
  BY <1>2, <1>3

(* A commit writes the columns its session changed. *)
LEMMA WrittenIs ==
  ASSUME row \in I!Row, NEW seen \in I!Row, NEW new \in I!Row, NEW r, r = I!Written(seen, new)
  PROVE  /\ r \in I!Row /\ r.id = row.id /\ r.run = new.run /\ r.cand = new.cand
         /\ r.stage = (IF new.stage = seen.stage THEN row.stage ELSE new.stage)
         /\ r.mark = (IF new.mark = seen.mark THEN row.mark ELSE new.mark)
<1> DEFINE stage == IF new.stage = seen.stage THEN row.stage ELSE new.stage
           mark == IF new.mark = seen.mark THEN row.mark ELSE new.mark
<1>1. stage \in {"none", "declared", "raw", "accepted"} /\ mark \in {"none", "current", "replaced"}
      /\ new.run \in I!Run /\ new.cand \in I!Run
  BY DEF I!Row
<1>2. r = [row EXCEPT !.run = new.run, !.cand = new.cand, !.stage = stage, !.mark = mark]
  BY DEF I!Written
<1> HIDE DEF stage, mark
<1>3. r \in I!Row /\ r.id = row.id /\ r.run = new.run /\ r.cand = new.cand /\ r.stage = stage /\ r.mark = mark
  BY <1>1, <1>2 DEF I!Row
<1> QED
  BY <1>3 DEF stage, mark

LEMMA IntakeOnboardCommits ==
  ASSUME IntakeInv, I!OnboardCommits
  PROVE  IntakeInv'
<1>1. /\ lane.at = "taken" /\ lane.id \in Ids /\ lane.seen \in I!Row /\ lane.new \in I!Row /\ lane.gone \subseteq I!Folders
  BY LaneKinds DEF I!OnboardCommits, IntakeInv, IntakeTyped
<1>2. CASE row.id # lane.id
  <2>1. row.stage # "raw"
    BY <1>1, <1>2 DEF IntakeInv, RowsStand, WithId
  <2>2. raced = {} /\ row.mark = "current" => chunks[1] = row.run.print
    BY <1>1, MarkIsOfCut
  <2>3. deaths' \in 0..MaxDeaths
    BY DEF IntakeInv, IntakeTyped, I!OnboardCommits
  <2> QED
    BY <1>2, <2>1, <2>2, <2>3, LaneLets DEF I!Ends, I!OnboardCommits
<1>3. CASE row.id = lane.id
  <2> DEFINE seen == lane.seen
             new == lane.new
             run == LaneRun
  <2>1. /\ row' = I!Written(seen, new) /\ raced' = raced \cup (IF row # seen THEN {"take"} ELSE {})
        /\ lane' = [at |-> "clearing", gone |-> lane.gone]
        /\ UNCHANGED <<print, rows, disk, chunks, jobs, door, deaths>>
    BY <1>1, <1>3 DEF I!OnboardCommits
  <2>2. row \in I!Row /\ seen \in I!Row /\ new \in I!Row /\ row.id # 0 /\ row.id \in Nat
    BY <1>1, <1>3, BoundsOfSources DEF IntakeInv, IntakeTyped, Ids
  <2>3. /\ row'.id = row.id /\ row'.run = new.run /\ row'.cand = new.cand /\ row' \in I!Row
        /\ row'.stage = (IF new.stage = seen.stage THEN row.stage ELSE new.stage)
        /\ row'.mark = (IF new.mark = seen.mark THEN row.mark ELSE new.mark)
    BY <2>1, <2>2, WrittenIs
  <2>6. LaneRun.print # 0 /\ LaneRun \in {lane.new.cand, lane.new.run}
    BY <1>1 DEF IntakeInv, RowsStand, LaneRun
  <2>4. run \in I!Run /\ run.print # 0 /\ run # I!NoRun
    BY <2>2, <2>6, RunsAreNumbers, RunsAreTyped
  <2>5. TakenFrom(seen, run) /\ PastOf(seen) /\ seen.id = row.id
        /\ (seen.stage = "declared" => row.stage = "declared") /\ WellStaged(row) /\ LaneHasJob
    BY <1>1, <1>3 DEF IntakeInv, RowsStand
  <2> DEFINE taken == I!Taken(seen, run)
             gone == lane.gone
             plain == /\ new.mark = seen.mark /\ gone = I!Gone(seen, run)
                      /\ seen.stage = "accepted" => new.stage = "accepted" /\ new.run = seen.run /\ new.cand = run
                      /\ seen.stage # "accepted" => new.stage = "raw" /\ new.run = run /\ new.cand = I!NoRun
             promoted == /\ new.stage = "accepted" /\ new.run = run /\ new.cand = I!NoRun /\ new.mark = I!Mark(seen)
                         /\ gone = I!Gone(seen, run) \cup I!Earlier(taken)
  <2>7. /\ plain \/ promoted
        /\ taken.run = (IF seen.stage = "accepted" THEN seen.run ELSE run)
        /\ taken.cand = (IF seen.stage = "accepted" THEN run ELSE I!NoRun)
    BY <2>2, <2>4, <2>5, TakenIs DEF TakenFrom, PastOf, WellStaged
  <2>8. /\ \A f \in I!Gone(seen, run) : /\ seen.stage = "accepted" /\ seen.cand # I!NoRun /\ f = seen.cand.folder
                                        /\ f # run.folder /\ f # seen.run.folder
        /\ \A f \in I!Earlier(taken) : seen.stage = "accepted" /\ f = seen.run.folder /\ f # run.folder
    BY <2>7 DEF I!Gone, I!Earlier
  <2>9. lane'.at = "clearing" /\ lane'.gone = gone
    BY <2>1
  <2> HIDE DEF taken, gone, seen, new, run
  <2>10. IntakeTyped'
    <3>1. lane' \in Lanes
      BY <1>1, <2>1 DEF Lanes, gone
    <3> QED
      BY <2>1, <2>3, <3>1 DEF IntakeTyped, IntakeInv
  <2>11. /\ row'.stage = "accepted" \/ (row'.stage \in {"raw", "accepted"} /\ new.stage = "raw" /\ seen.stage # "accepted")
         /\ row.stage = "accepted" => row'.stage = "accepted"
         /\ row'.stage # "accepted" => row'.mark = "none" /\ row'.cand = I!NoRun
    BY <2>2, <2>3, <2>5, <2>7 DEF PastOf, WellStaged, I!Row, I!Mark
  <2>12. RowsStand'
    <3>1. WellStaged(row)'
      BY <2>1, <2>2, <2>3, <2>5, <2>11 DEF WellStaged
    <3>2. door.at \in {"looked", "decided"} => PastOf(door.row)'
      BY <2>1, <2>3, <2>11 DEF IntakeInv, RowsStand, PastOf, WellStaged
    <3>3. LaneHasJob'
      BY <1>1, <2>1, <2>9 DEF IntakeInv, RowsStand, LaneHasJob, OnboardAt, IndexAt
    <3> QED
      BY <2>1, <2>9, <3>1, <3>2, <3>3 DEF IntakeInv, RowsStand, WithId, IndexAt, I!Waiting
  <2>13. ASSUME Clean', FoldersStand
         PROVE  FoldersStand'
    <3>1. row = seen /\ OnDisk(run) /\ Follows(run, row)
      BY <1>1, <1>3, <2>1, <2>13 DEF FoldersStand, LaneStands, Clean, run
    <3>2. /\ row'.id = row.id /\ row'.run = new.run /\ row'.cand = new.cand /\ row'.stage = new.stage /\ row'.mark = new.mark
      BY <2>3, <3>1
    <3>3. /\ row.run \in I!Run /\ row.cand \in I!Run /\ row.run.print \in Nat /\ row.run.folder \in Nat
          /\ run.print \in Nat /\ run.folder \in Nat /\ row.cand.print \in Nat
      BY <2>2, <2>4, RunsAreNumbers
    <3>4. AcceptedStands'
      BY <2>1, <2>4, <2>7, <2>13, <3>1, <3>2, <3>3 DEF FoldersStand, AcceptedStands, OnDisk, Follows
    <3>5. RawStands'
      BY <2>1, <2>4, <2>7, <2>13, <3>1, <3>2, <3>3 DEF FoldersStand, RawStands, OnDisk, Follows
    <3>6. LaneStands'
      BY <2>4, <2>7, <2>8, <2>9, <2>13, <3>1, <3>2, <3>3 DEF FoldersStand, LaneStands, AcceptedStands, Follows, OnDisk
    <3>8. row.stage = "accepted" => row'.stage = "accepted" /\ row'.run.folder \in Nat /\ row.run.folder <= row'.run.folder
      BY <2>4, <2>7, <2>13, <3>1, <3>2, <3>3 DEF FoldersStand, AcceptedStands, Follows
    <3>9. door.at \in {"dropping", "removing"} => \A f \in door.gone : f \in Nat
      BY GoneAreNumbers DEF IntakeInv
    <3>7. DropStands' /\ CutStands'
      BY <2>1, <2>9, <2>13, <3>3, <3>8, <3>9 DEF FoldersStand, DropStands, CutStands
    <3> QED
      BY <3>4, <3>5, <3>6, <3>7 DEF FoldersStand
  <2>14. ASSUME raced' = {}, MarkStands
         PROVE  MarkStands'
    <3>1. row = seen
      BY <2>1, <2>14
    <3> QED
      BY <1>1, <2>1, <2>3, <2>5, <2>7, <2>9, <2>14, <3>1 DEF MarkStands, IndexAt, I!Mark, WellStaged
  <2> QED
    BY <2>1, <2>10, <2>12, <2>13, <2>14 DEF IntakeInv, Clean
<1> QED
  BY <1>2, <1>3

LEMMA ClearedIs ==
  ASSUME IntakeTyped, NEW gone \in SUBSET I!Folders
  PROVE  /\ I!Cleared(gone) \in [I!Folders -> 0..MaxPrint]
         /\ \A f \in I!Folders : f \notin gone => I!Cleared(gone)[f] = disk[f]
  BY BoundsOfSources DEF IntakeTyped, I!Cleared

LEMMA IntakeOnboardClears ==
  ASSUME IntakeInv, I!OnboardClears
  PROVE  IntakeInv'
<1>1. lane.at = "clearing" /\ lane.gone \subseteq I!Folders
  BY LaneKinds DEF I!OnboardClears, IntakeInv, IntakeTyped
<1>2. /\ lane' = [at |-> "idle"] /\ jobs' \subseteq jobs
      /\ UNCHANGED <<print, row, rows, chunks, door, deaths, raced>>
  BY DEF I!OnboardClears, I!Ends, I!Idle
<1>3. disk' \in [I!Folders -> 0..MaxPrint] /\ \A f \in I!Folders : f \notin lane.gone => disk'[f] = disk[f]
  BY <1>1, ClearedIs DEF I!OnboardClears, IntakeInv, IntakeTyped
<1>4. row.run.folder \in I!Folders /\ row.cand.folder \in I!Folders
  BY RunsAreNumbers DEF IntakeInv, IntakeTyped
<1>5. IntakeTyped'
  BY <1>2, <1>3 DEF IntakeInv, IntakeTyped, Lanes
<1>6. RowsStand'
  BY <1>2 DEF IntakeInv, RowsStand, LaneHasJob, PastOf, WellStaged, WithId, OnboardAt, IndexAt
<1>7. FoldersStand => FoldersStand'
  BY <1>1, <1>2, <1>3, <1>4
     DEF FoldersStand, AcceptedStands, RawStands, LaneStands, DropStands, CutStands, OnDisk
<1>8. MarkStands => MarkStands'
  BY <1>1, <1>2 DEF MarkStands, IndexAt
<1> QED
  BY <1>2, <1>5, <1>6, <1>7, <1>8 DEF IntakeInv

LEMMA IntakeIndexBegins ==
  ASSUME IntakeInv, I!IndexBegins
  PROVE  IntakeInv'
<1> USE DEF I!IndexBegins
<1>1. CASE row.stage # "accepted"
  <2>1. Clean /\ row.stage = "raw" /\ "onboard" \notin jobs' => OnDisk(row.run)
    BY <1>1 DEF I!Ends, IntakeInv, FoldersStand, RawStands, Clean
  <2>2. raced = {} /\ row.mark = "current" => chunks[1] = row.run.print
    BY MarkIsOfCut
  <2>3. deaths' \in 0..MaxDeaths
    BY DEF IntakeInv, IntakeTyped
  <2> QED
    BY <1>1, <2>1, <2>2, <2>3, LaneLets DEF I!Ends
<1>2. CASE row.stage = "accepted"
  <2>1. lane' = [at |-> "provision", folder |-> row.run.folder] /\ UNCHANGED <<print, row, rows, disk, chunks, jobs, door, deaths, raced>>
        /\ lane.at = "idle" /\ "index" \in jobs
    BY <1>2
  <2>2. row.run.folder \in I!Folders /\ row.run.folder \in Nat
    BY RunsAreNumbers DEF IntakeInv, IntakeTyped
  <2>3. IntakeTyped'
    BY <2>1, <2>2 DEF IntakeInv, IntakeTyped, Lanes
  <2>4. RowsStand'
    BY <1>2, <2>1 DEF IntakeInv, RowsStand, LaneHasJob, PastOf, WellStaged, WithId, OnboardAt, IndexAt
  <2>5. FoldersStand => DropStands'
    BY <1>2, <2>1, <2>2, GoneAreNumbers DEF IntakeInv, FoldersStand, DropStands
  <2>6. FoldersStand => AcceptedStands' /\ RawStands' /\ LaneStands' /\ CutStands'
    BY <1>2, <2>1 DEF FoldersStand, AcceptedStands, RawStands, LaneStands, CutStands, OnDisk
  <2>7. MarkStands => MarkStands'
    BY <2>1 DEF MarkStands, IndexAt
  <2> QED
    BY <2>1, <2>3, <2>4, <2>5, <2>6, <2>7 DEF IntakeInv, FoldersStand
<1> QED
  BY <1>1, <1>2

LEMMA IntakeIndexProvisions ==
  ASSUME IntakeInv, I!IndexProvisions
  PROVE  IntakeInv'
<1> USE DEF I!IndexProvisions
<1>1. CASE row.id = 0
  <2>1. row.stage = "none"
    BY <1>1 DEF IntakeInv, RowsStand, WellStaged
  <2>2. /\ rows < MaxRows /\ row' = I!NewRow /\ rows' = rows + 1 /\ lane' = [at |-> "idle"] /\ jobs' \subseteq jobs
        /\ UNCHANGED <<print, disk, chunks, door, deaths, raced>>
    BY <1>1, <2>1 DEF I!Ends, I!Idle
  <2>3. /\ row' \in I!Row /\ rows' \in 0..MaxRows /\ RowsStand'
        /\ FoldersStand => FoldersStand'
        /\ MarkStands => MarkStands'
    BY <1>1, <2>2, NewRowKeeps
  <2>4. IntakeTyped'
    BY <2>2, <2>3 DEF IntakeInv, IntakeTyped, Lanes
  <2> QED
    BY <2>2, <2>3, <2>4 DEF IntakeInv
<1>2. CASE row.id # 0 /\ row.stage # "accepted"
  <2>1. row.stage # "raw"
    BY DEF IntakeInv, RowsStand
  <2>2. raced = {} /\ row.mark = "current" => chunks[1] = row.run.print
    BY <1>2 DEF IntakeInv, RowsStand, WellStaged
  <2>3. deaths' \in 0..MaxDeaths
    BY DEF IntakeInv, IntakeTyped
  <2> QED
    BY <1>2, <2>1, <2>2, <2>3, LaneLets DEF I!Ends
<1>3. CASE row.id # 0 /\ row.stage = "accepted"
  <2>1. /\ lane' = [at |-> "opening", folder |-> lane.folder, id |-> row.id, first |-> 0]
        /\ UNCHANGED <<print, row, rows, disk, chunks, jobs, door, deaths, raced>>
    BY <1>3
  <2>2. lane.at = "provision" /\ lane.folder \in I!Folders /\ row.id \in Ids /\ row.id <= rows
    <3>1. lane \in [at : {"provision"}, folder : I!Folders]
      BY LaneKinds DEF IntakeInv, IntakeTyped
    <3>2. row.id \in Ids /\ row.id <= rows
      BY <1>3, RunsAreNumbers, BoundsOfSources DEF IntakeInv, IntakeTyped, RowsStand, WellStaged, Ids
    <3> QED
      BY <3>1, <3>2
  <2>3. IntakeTyped'
    BY <2>1, <2>2, BoundsOfSources DEF IntakeInv, IntakeTyped, Lanes
  <2>4. RowsStand'
    BY <1>3, <2>1, <2>2 DEF IntakeInv, RowsStand, LaneHasJob, PastOf, WellStaged, WithId, OnboardAt, IndexAt
  <2>5. FoldersStand => FoldersStand'
    BY <2>1, <2>2 DEF FoldersStand, AcceptedStands, RawStands, LaneStands, DropStands, CutStands, OnDisk
  <2>6. MarkStands => MarkStands'
    BY <1>3, <2>1, <2>2 DEF MarkStands, IndexAt
  <2> QED
    BY <2>1, <2>3, <2>4, <2>5, <2>6 DEF IntakeInv
<1> QED
  BY <1>1, <1>2, <1>3

LEMMA IntakeIndexOpens ==
  ASSUME IntakeInv, I!IndexOpens
  PROVE  IntakeInv'
<1>1. /\ lane.at = "opening" /\ lane \in [at : {"opening", "closing"}, folder : I!Folders, id : Ids, first : 0..MaxPrint]
      /\ UNCHANGED <<print, row, rows, disk, chunks, jobs, door, deaths, raced>>
  BY LaneKinds DEF I!IndexOpens, IntakeInv, IntakeTyped
<1>2. disk[lane.folder] \in 0..MaxPrint
  BY <1>1 DEF IntakeInv, IntakeTyped
<1>3. /\ lane' \in [at : {"opening", "closing"}, folder : I!Folders, id : Ids, first : 0..MaxPrint] /\ lane'.at = "closing"
      /\ lane'.folder = lane.folder /\ lane'.id = lane.id /\ lane'.first = disk[lane.folder]
  BY <1>1, <1>2 DEF I!IndexOpens
<1>4. IntakeTyped'
  BY <1>1, <1>3 DEF IntakeInv, IntakeTyped, Lanes
<1>5. RowsStand'
  BY <1>1, <1>3 DEF IntakeInv, RowsStand, LaneHasJob, PastOf, WellStaged, WithId, OnboardAt, IndexAt
<1>6. FoldersStand => FoldersStand'
  BY <1>1, <1>3 DEF FoldersStand, AcceptedStands, RawStands, LaneStands, DropStands, CutStands, OnDisk
<1>7. FoldersStand /\ MarkStands => MarkStands'
  BY <1>1, <1>3 DEF FoldersStand, AcceptedStands, OnDisk, MarkStands, IndexAt, IntakeInv, RowsStand
<1> QED
  BY <1>1, <1>4, <1>5, <1>6, <1>7 DEF IntakeInv

LEMMA IntakeIndexCloses ==
  ASSUME IntakeInv, I!IndexCloses
  PROVE  IntakeInv'
<1>1. /\ lane.at = "closing" /\ lane \in [at : {"opening", "closing"}, folder : I!Folders, id : Ids, first : 0..MaxPrint]
      /\ UNCHANGED <<print, row, rows, disk, chunks, door, deaths, raced>>
  BY LaneKinds DEF I!IndexCloses, IntakeInv, IntakeTyped
<1> DEFINE second == disk[lane.folder]
<1>2. CASE lane' = I!Idle /\ jobs' = jobs \ {"index"}
  <2>1. Clean /\ row.stage = "raw" /\ "onboard" \notin jobs' => OnDisk(row.run)
    BY <1>2 DEF IntakeInv, FoldersStand, RawStands, Clean
  <2>2. raced = {} /\ row.mark = "current" => chunks[1] = row.run.print
    BY <1>1, MarkIsOfCut
  <2>3. deaths' \in 0..MaxDeaths
    BY <1>1 DEF IntakeInv, IntakeTyped
  <2> QED
    BY <1>1, <1>2, <2>1, <2>2, <2>3, LaneLets
<1>3. CASE lane' = [at |-> "cut", id |-> lane.id, read |-> <<lane.first, second>>] /\ jobs' = jobs
  <2>1. second \in 0..MaxPrint /\ lane.first \in 0..MaxPrint /\ lane.id \in Ids
    BY <1>1 DEF IntakeInv, IntakeTyped
  <2>2. IntakeTyped'
    BY <1>1, <1>3, <2>1 DEF IntakeInv, IntakeTyped, Lanes
  <2>3. RowsStand'
    BY <1>1, <1>3 DEF IntakeInv, RowsStand, LaneHasJob, PastOf, WellStaged, WithId, OnboardAt, IndexAt
  <2>4. lane'.at = "cut" /\ lane'.id = lane.id /\ lane'.read[1] = lane.first /\ lane'.read[2] = second
    BY <1>3
  <2>5. FoldersStand => FoldersStand'
    BY <1>1, <1>3, <2>4 DEF FoldersStand, AcceptedStands, RawStands, LaneStands, DropStands, CutStands, OnDisk
  <2>6. MarkStands => MarkStands'
    BY <1>1, <2>4 DEF MarkStands, IndexAt
  <2> QED
    BY <1>1, <2>2, <2>3, <2>5, <2>6 DEF IntakeInv
<1> QED
  BY <1>2, <1>3 DEF I!IndexCloses, I!Ends

LEMMA IntakeIndexReplaces ==
  ASSUME IntakeInv, I!IndexReplaces
  PROVE  IntakeInv'
<1>1. /\ lane.at = "cut" /\ lane \in [at : {"cut"}, id : Ids, read : (0..MaxPrint) \X (0..MaxPrint)]
      /\ UNCHANGED <<print, row, rows, disk, door, deaths, raced>>
  BY LaneKinds DEF I!IndexReplaces, IntakeInv, IntakeTyped
<1>2. CASE row.id # lane.id
  <2>1. row.stage # "raw"
    BY <1>1, <1>2 DEF IntakeInv, RowsStand, WithId
  <2>2. raced = {} /\ row.mark = "current" => chunks[1] = row.run.print
    BY <1>1, MarkIsOfCut
  <2>3. deaths' \in 0..MaxDeaths
    BY <1>1 DEF IntakeInv, IntakeTyped
  <2> QED
    BY <1>1, <1>2, <2>1, <2>2, <2>3, LaneLets DEF I!Ends, I!IndexReplaces
<1>3. CASE row.id = lane.id
  <2>1. chunks' = lane.read /\ lane' = [at |-> "replaced", id |-> lane.id] /\ jobs' = jobs
    BY <1>1, <1>3 DEF I!IndexReplaces
  <2>2. IntakeTyped'
    BY <1>1, <2>1 DEF IntakeInv, IntakeTyped, Lanes
  <2>3. RowsStand'
    BY <1>1, <2>1 DEF IntakeInv, RowsStand, LaneHasJob, PastOf, WellStaged, WithId, OnboardAt, IndexAt
  <2>4. FoldersStand => FoldersStand'
    BY <1>1, <1>3, <2>1 DEF FoldersStand, AcceptedStands, RawStands, LaneStands, DropStands, CutStands, OnDisk
  <2>5. MarkStands => MarkStands'
    BY <1>1, <1>3, <2>1 DEF MarkStands, IndexAt
  <2> QED
    BY <1>1, <2>2, <2>3, <2>4, <2>5 DEF IntakeInv
<1> QED
  BY <1>2, <1>3

LEMMA IntakeIndexMarks ==
  ASSUME IntakeInv, I!IndexMarks
  PROVE  IntakeInv'
<1>1. /\ lane.at = "replaced" /\ lane' = [at |-> "idle"] /\ jobs' = jobs \ {"index"}
      /\ UNCHANGED <<print, rows, disk, chunks, door, deaths, raced>>
  BY DEF I!IndexMarks, I!Ends, I!Idle
<1>2. CASE row.id # lane.id
  <2>1. row.stage # "raw" /\ row.mark # "current"
    BY <1>1, <1>2 DEF IntakeInv, RowsStand, WithId, WellStaged
  <2>2. deaths' \in 0..MaxDeaths
    BY <1>1 DEF IntakeInv, IntakeTyped
  <2> QED
    BY <1>1, <1>2, <2>1, <2>2, LaneLets DEF I!Idle, I!IndexMarks
<1>3. CASE row.id = lane.id
  <2>1. row.stage = "accepted" /\ row \in I!Row
    BY <1>1, <1>3 DEF IntakeInv, IntakeTyped, RowsStand, IndexAt
  <2>2. /\ row' \in I!Row /\ row'.id = row.id /\ row'.stage = row.stage /\ row'.run = row.run /\ row'.cand = row.cand
        /\ row'.mark = "current"
    BY <1>3, <2>1 DEF I!IndexMarks, I!Row
  <2>3. IntakeTyped'
    BY <1>1, <2>2 DEF IntakeInv, IntakeTyped, Lanes
  <2>4. RowsStand'
    BY <1>1, <2>1, <2>2 DEF IntakeInv, RowsStand, LaneHasJob, PastOf, WellStaged, WithId, OnboardAt, IndexAt
  <2>5. FoldersStand => FoldersStand'
    BY <1>1, <2>1, <2>2 DEF FoldersStand, AcceptedStands, RawStands, LaneStands, DropStands, CutStands, OnDisk
  <2>6. MarkStands => MarkStands'
    BY <1>1, <1>3, <2>2 DEF MarkStands, IndexAt
  <2> QED
    BY <1>1, <2>3, <2>4, <2>5, <2>6 DEF IntakeInv
<1> QED
  BY <1>2, <1>3

-----------------------------------------------------------------------------
LEMMA DoorSees ==
  ASSUME IntakeInv, door.at \in {"looked", "decided"}
  PROVE  door.row \in I!Row /\ PastOf(door.row)
<1>1. door \in [at : {"looked", "decided"}, row : I!Row]
  BY DoorKinds DEF IntakeInv, IntakeTyped
<1> QED
  BY <1>1 DEF IntakeInv, RowsStand

(* The door is let go, or is at a step that holds no folder. *)
LEMMA DoorLets ==
  ASSUME IntakeInv, door' \in Doors, UNCHANGED <<print, row, rows, disk, chunks, jobs, lane, deaths, raced>>,
         door'.at \notin {"dropping", "removing"},
         door'.at \in {"looked", "decided"} => PastOf(door'.row),
         door'.at = "decided" => door'.row.stage = "raw" \/ I!Waiting(door'.row),
         door'.at \in {"removal", "sweeping"} => door'.id <= rows
  PROVE  IntakeInv'
<1>1. IntakeTyped'
  BY DEF IntakeInv, IntakeTyped
<1>2. PastOf(door'.row) => PastOf(door.row)'
  BY DEF PastOf, WellStaged
<1>3. lane.at = "taken" => PastOf(lane.seen)'
  BY DEF IntakeInv, RowsStand, PastOf, WellStaged
<1>4. RowsStand'
  BY <1>2, <1>3 DEF IntakeInv, RowsStand, LaneHasJob, WellStaged, TakenFrom, LaneRun, I!Waiting
<1>5. FoldersStand => FoldersStand'
  BY DEF FoldersStand, AcceptedStands, RawStands, LaneStands, DropStands, CutStands, OnDisk, Follows, LaneRun
<1>6. MarkStands => MarkStands'
  BY DEF MarkStands
<1> QED
  BY <1>1, <1>4, <1>5, <1>6 DEF IntakeInv

LEMMA IntakeAcceptLooks ==
  ASSUME IntakeInv, I!AcceptLooks
  PROVE  IntakeInv'
<1>1. row \in I!Row /\ PastOf(row)
  BY DEF I!AcceptLooks, IntakeInv, IntakeTyped, RowsStand, PastOf
<1>2. door' \in Doors /\ door'.at = "looked" /\ door'.row = row
  BY <1>1 DEF I!AcceptLooks, Doors
<1> QED
  BY <1>1, <1>2, DoorLets DEF I!AcceptLooks

LEMMA IntakeAcceptDecides ==
  ASSUME IntakeInv, I!AcceptDecides
  PROVE  IntakeInv'
<1>1. door \in [at : {"looked", "decided"}, row : I!Row] /\ PastOf(door.row)
  BY DoorKinds, DoorSees DEF I!AcceptDecides, IntakeInv, IntakeTyped
<1>2. CASE I!AcceptRefused(door.row)
  <2>1. door' = [at |-> "idle"]
    BY <1>2 DEF I!AcceptDecides, I!Idle
  <2> QED
    BY <2>1, DoorLets DEF I!AcceptDecides, Doors
<1>3. CASE ~I!AcceptRefused(door.row)
  <2>1. door' = [door EXCEPT !.at = "decided"]
    BY <1>3 DEF I!AcceptDecides
  <2>2. door' \in [at : {"looked", "decided"}, row : I!Row] /\ door'.at = "decided" /\ door'.row = door.row
    BY <1>1, <2>1
  <2>3. door.row.stage = "raw" \/ I!Waiting(door.row)
    BY <1>3 DEF I!AcceptRefused
  <2> QED
    BY <1>1, <2>2, <2>3, DoorLets DEF I!AcceptDecides, Doors
<1> QED
  BY <1>2, <1>3

LEMMA PromotedIs ==
  ASSUME NEW r \in I!Row, NEW p, p = I!Promoted(r)
  PROVE  /\ p \in I!Row /\ p.id = r.id /\ p.stage = "accepted" /\ p.cand = I!NoRun /\ p.mark = I!Mark(r)
         /\ p.run = (IF r.cand = I!NoRun THEN r.run ELSE r.cand)
<1> DEFINE run == IF r.cand = I!NoRun THEN r.run ELSE r.cand
<1>1. I!Mark(r) \in {"none", "current", "replaced"} /\ run \in I!Run /\ I!NoRun \in I!Run
  BY RunsAreTyped DEF I!Mark, I!Row
<1>2. p = [r EXCEPT !.stage = "accepted", !.cand = I!NoRun, !.mark = I!Mark(r), !.run = run]
  BY DEF I!Promoted
<1> HIDE DEF run
<1>3. p \in I!Row /\ p.id = r.id /\ p.stage = "accepted" /\ p.cand = I!NoRun /\ p.mark = I!Mark(r) /\ p.run = run
  BY <1>1, <1>2 DEF I!Row
<1> QED
  BY <1>3 DEF run

LEMMA IntakeAcceptCommits ==
  ASSUME IntakeInv, I!AcceptCommits
  PROVE  IntakeInv'
<1>1. CASE row.id # door.row.id
  <2>1. door' = [at |-> "idle"] /\ UNCHANGED <<print, row, rows, disk, chunks, jobs, lane, deaths, raced>>
    BY <1>1 DEF I!AcceptCommits, I!Idle
  <2> QED
    BY <2>1, DoorLets DEF Doors
<1>2. CASE row.id = door.row.id
  <2> DEFINE seen == door.row
             new == I!Promoted(seen)
  <2>1. /\ row' = I!Written(seen, new) /\ door' = [at |-> "dropping", gone |-> I!Earlier(seen)]
        /\ raced' = raced \cup (IF row # seen \/ "onboard" \in jobs THEN {"accept"} ELSE {})
                          \cup (IF I!Waiting(seen) /\ "index" \in jobs THEN {"index"} ELSE {})
        /\ UNCHANGED <<print, rows, disk, chunks, jobs, lane, deaths>> /\ door.at = "decided"
    BY <1>2 DEF I!AcceptCommits
  <2>2. seen \in I!Row /\ PastOf(seen) /\ row \in I!Row /\ (seen.stage = "raw" \/ I!Waiting(seen)) /\ WellStaged(row)
    BY <2>1, DoorSees DEF IntakeInv, IntakeTyped, RowsStand
  <2>3. /\ new \in I!Row /\ new.stage = "accepted" /\ new.cand = I!NoRun /\ new.mark = I!Mark(seen)
        /\ new.run = (IF seen.cand = I!NoRun THEN seen.run ELSE seen.cand)
    BY <2>2, PromotedIs
  <2>4. row.stage \in {"raw", "accepted"} /\ (seen.stage = "accepted" => row.stage = "accepted")
    BY <1>2, <2>2 DEF PastOf, I!Waiting
  <2> HIDE DEF new, seen
  <2>5. /\ row' \in I!Row /\ row'.id = row.id /\ row'.run = new.run /\ row'.cand = I!NoRun /\ row'.stage = "accepted"
        /\ row'.mark = (IF I!Mark(seen) = seen.mark THEN row.mark ELSE I!Mark(seen))
    BY <2>1, <2>2, <2>3, <2>4, WrittenIs
  <2>6. I!Earlier(seen) \subseteq I!Folders
    BY <2>2 DEF I!Earlier, I!Row, I!Run
  <2>7. IntakeTyped'
    BY <2>1, <2>5, <2>6 DEF IntakeInv, IntakeTyped, Doors
  <2>8. RowsStand'
    <3>1. lane.at = "taken" => PastOf(lane.seen)' /\ ~(row.id = lane.id /\ lane.seen.stage = "declared")
      BY <2>1, <2>4, <2>5 DEF IntakeInv, RowsStand, PastOf, WellStaged
    <3>2. lane.at \in WithId => (row.id # lane.id => row.stage \in {"none", "declared"})
      BY DEF IntakeInv, RowsStand
    <3>3. WellStaged(row)' /\ LaneHasJob'
      BY <2>1, <2>4, <2>5 DEF IntakeInv, RowsStand, WellStaged, LaneHasJob
    <3>4. door'.at = "dropping"
      BY <2>1
    <3> QED
      BY <2>1, <2>4, <2>5, <3>1, <3>2, <3>3, <3>4 DEF IntakeInv, RowsStand, TakenFrom, LaneRun
  <2>9. ASSUME Clean', FoldersStand
        PROVE  FoldersStand'
    <3>1. row = seen /\ "onboard" \notin jobs
      BY <2>1, <2>9 DEF Clean
    <3>2. lane.at \notin {"writing", "taking", "taken", "clearing"}
      BY <3>1 DEF IntakeInv, RowsStand, LaneHasJob, OnboardAt
    <3>3. /\ row.run.folder \in Nat /\ row.run.print \in Nat /\ row.cand.print \in Nat /\ print \in Nat
      BY <2>2, RunsAreNumbers, BoundsOfSources DEF IntakeInv, IntakeTyped, I!Prints
    <3>4. AcceptedStands'
      BY <2>1, <2>2, <2>3, <2>4, <2>5, <2>9, <3>1, <3>3
         DEF FoldersStand, AcceptedStands, RawStands, OnDisk, I!Waiting, WellStaged
    <3>5. RawStands' /\ LaneStands' /\ CutStands'
      BY <2>1, <2>5, <2>9, <3>2 DEF FoldersStand, RawStands, LaneStands, CutStands
    <3>6. \A f \in I!Earlier(seen) : f < row'.run.folder
      BY <2>3, <2>5, <2>9, <2>2, <3>1, <3>3 DEF FoldersStand, AcceptedStands, OnDisk, I!Earlier, I!Waiting, WellStaged
    <3>7. DropStands'
      BY <2>1, <2>5, <3>6 DEF DropStands
    <3> QED
      BY <3>4, <3>5, <3>7 DEF FoldersStand
  <2>10. ASSUME raced' = {}, MarkStands
         PROVE  MarkStands'
    <3>1. row = seen /\ "onboard" \notin jobs /\ (I!Waiting(row) => "index" \notin jobs)
      BY <2>1, <2>10
    <3>2. row.stage = "raw" => lane.at \notin IndexAt \/ (lane.at # "provision" /\ row.id # lane.id)
      BY DEF IntakeInv, RowsStand
    <3>3. row'.mark # "current"
      BY <2>5, <3>1 DEF I!Mark
    <3>4. I!Waiting(row) => lane.at \notin IndexAt
      BY <3>1 DEF IntakeInv, RowsStand, LaneHasJob
    <3> QED
      BY <2>1, <2>2, <2>5, <2>10, <3>1, <3>2, <3>3, <3>4 DEF MarkStands, IndexAt
  <2> QED
    BY <2>1, <2>7, <2>8, <2>9, <2>10 DEF IntakeInv, Clean
<1> QED
  BY <1>1, <1>2

LEMMA IntakeDropLooks ==
  ASSUME IntakeInv, I!DropLooks
  PROVE  IntakeInv'
<1>1. door.at = "dropping" /\ door \in [at : {"dropping", "removing"}, gone : SUBSET I!Folders]
      /\ UNCHANGED <<print, row, rows, disk, chunks, jobs, lane, deaths, raced>>
  BY DoorKinds DEF I!DropLooks, IntakeInv, IntakeTyped
<1>2. CASE ~I!MayDrop
  <2>1. door' = [at |-> "idle"]
    BY <1>2 DEF I!DropLooks, I!Idle
  <2> QED
    BY <1>1, <2>1, DoorLets DEF Doors
<1>3. CASE I!MayDrop
  <2>1. door' \in [at : {"dropping", "removing"}, gone : SUBSET I!Folders] /\ door'.at = "removing" /\ door'.gone = door.gone
    BY <1>1, <1>3 DEF I!DropLooks
  <2>2. lane.at \notin IndexAt
    BY <1>3 DEF I!MayDrop, IntakeInv, RowsStand, LaneHasJob
  <2>3. IntakeTyped'
    BY <1>1, <2>1 DEF IntakeInv, IntakeTyped, Doors
  <2>4. RowsStand'
    <3>1. lane.at = "taken" => PastOf(lane.seen)'
      BY <1>1 DEF IntakeInv, RowsStand, PastOf, WellStaged
    <3> QED
      BY <1>1, <2>1, <3>1 DEF IntakeInv, RowsStand, LaneHasJob, WellStaged, TakenFrom, LaneRun
  <2>5. FoldersStand => FoldersStand'
    BY <1>1, <2>1, <2>2
       DEF FoldersStand, AcceptedStands, RawStands, LaneStands, DropStands, CutStands, OnDisk, Follows, LaneRun, IndexAt
  <2>6. MarkStands => MarkStands'
    BY <1>1 DEF MarkStands
  <2> QED
    BY <1>1, <2>3, <2>4, <2>5, <2>6 DEF IntakeInv
<1> QED
  BY <1>2, <1>3

(* The run an onboarding holds, or the folder an index reads, is not taken away under it. *)
LEMMA LaneFolders ==
  ASSUME IntakeInv
  PROVE  /\ lane.at \in {"writing", "taking", "taken"} => LaneRun \in I!Run
         /\ lane.at \in {"provision", "opening", "closing"} => lane.folder \in I!Folders
<1>1. ASSUME lane.at \in {"writing", "taking"}
      PROVE  LaneRun \in I!Run
  <2>1. lane \in [at : {"writing", "taking"}, id : Ids, run : Runs]
    BY <1>1, LaneKinds DEF IntakeInv, IntakeTyped
  <2> QED
    BY <1>1, <2>1 DEF LaneRun, Runs
<1>2. ASSUME lane.at = "taken"
      PROVE  LaneRun \in I!Run
  <2>1. lane.new \in I!Row
    BY <1>2, LaneKinds DEF IntakeInv, IntakeTyped
  <2> QED
    BY <1>2, <2>1, RunsAreNumbers DEF LaneRun
<1>3. ASSUME lane.at \in {"provision", "opening", "closing"}
      PROVE  lane.folder \in I!Folders
  <2>1. \/ lane \in [at : {"provision"}, folder : I!Folders]
        \/ lane \in [at : {"opening", "closing"}, folder : I!Folders, id : Ids, first : 0..MaxPrint]
    BY <1>3, LaneKinds DEF IntakeInv, IntakeTyped
  <2> QED
    BY <2>1
<1> QED
  BY <1>1, <1>2, <1>3

LEMMA IntakeDropRemoves ==
  ASSUME IntakeInv, I!DropRemoves
  PROVE  IntakeInv'
<1>1. door.at = "removing" /\ door' = [at |-> "idle"] /\ UNCHANGED <<print, row, rows, chunks, jobs, lane, deaths, raced>>
  BY DEF I!DropRemoves, I!Idle
<1>2. door.gone \subseteq I!Folders /\ \A f \in door.gone : f \in Nat
  BY <1>1, GoneAreNumbers DEF IntakeInv
<1>3. disk' \in [I!Folders -> 0..MaxPrint] /\ \A f \in I!Folders : f \notin door.gone => disk'[f] = disk[f]
  BY <1>2, ClearedIs DEF I!DropRemoves, IntakeInv
<1>4. IntakeTyped'
  BY <1>1, <1>3 DEF IntakeInv, IntakeTyped, Doors
<1>5. RowsStand'
  <2>1. lane.at = "taken" => PastOf(lane.seen)'
    BY <1>1 DEF IntakeInv, RowsStand, PastOf, WellStaged
  <2> QED
    BY <1>1, <2>1 DEF IntakeInv, RowsStand, LaneHasJob, WellStaged, TakenFrom, LaneRun
<1>6. ASSUME FoldersStand
      PROVE  FoldersStand'
  <2>1. row.stage = "accepted" /\ \A f \in door.gone : f < row.run.folder
    BY <1>1, <1>6 DEF FoldersStand, DropStands
  <2>2. /\ row.run.folder \in I!Folders /\ row.run.folder \in Nat /\ row.run.print \in Nat
        /\ row.cand.folder \in I!Folders /\ row.cand.folder \in Nat /\ row.cand.print \in Nat
    BY RunsAreNumbers DEF IntakeInv, IntakeTyped
  <2>3. row.run.folder \notin door.gone /\ (row.cand # I!NoRun => row.cand.folder \notin door.gone)
    BY <1>2, <1>6, <2>1, <2>2 DEF FoldersStand, AcceptedStands, OnDisk
  <2>4. ASSUME lane.at \in {"taking", "taken"}, row.id = lane.id
        PROVE  LaneRun.folder \in I!Folders /\ LaneRun.folder \notin door.gone
    <3>1. LaneRun.folder \in I!Folders /\ LaneRun.folder \in Nat /\ LaneRun.print \in Nat
      BY <2>4, LaneFolders, RunsAreNumbers
    <3>2. LaneRun.folder = LaneRun.print /\ row.run.print < LaneRun.print
      BY <1>6, <2>1, <2>4 DEF FoldersStand, LaneStands, Follows
    <3>3. row.run.folder < LaneRun.folder
      BY <1>6, <2>1, <2>2, <3>1, <3>2 DEF FoldersStand, AcceptedStands
    <3> QED
      BY <1>2, <2>1, <2>2, <3>1, <3>3
  <2>5. lane.at \in {"opening", "closing"} => lane.folder \in I!Folders /\ lane.folder \notin door.gone
    BY <1>1, <1>6, LaneFolders DEF FoldersStand, DropStands
  <2>6. AcceptedStands' /\ RawStands' /\ DropStands'
    BY <1>1, <1>3, <1>6, <2>1, <2>2, <2>3 DEF FoldersStand, AcceptedStands, RawStands, DropStands, OnDisk
  <2>7. LaneStands'
    BY <1>1, <1>3, <1>6, <2>4 DEF FoldersStand, LaneStands, OnDisk, Follows, LaneRun
  <2>8. CutStands'
    BY <1>1, <1>3, <1>6, <2>5 DEF FoldersStand, CutStands
  <2> QED
    BY <2>6, <2>7, <2>8 DEF FoldersStand
<1>7. MarkStands => MarkStands'
  BY <1>1 DEF MarkStands
<1> QED
  BY <1>1, <1>4, <1>5, <1>6, <1>7 DEF IntakeInv

LEMMA IntakeRemoveLooks ==
  ASSUME IntakeInv, I!RemoveLooks
  PROVE  IntakeInv'
<1>1. row.id \in Ids /\ row.id <= rows
  BY RunsAreNumbers, BoundsOfSources DEF I!RemoveLooks, IntakeInv, IntakeTyped, RowsStand, WellStaged, Ids
<1> DEFINE own == {f \in I!Folders : disk[f] # 0}
<1>2. door' = [at |-> "removal", id |-> row.id, own |-> own] /\ own \in SUBSET I!Folders
  BY DEF I!RemoveLooks
<1> HIDE DEF own
<1>3. door' \in Doors /\ door'.at = "removal" /\ door'.id = row.id
  BY <1>1, <1>2 DEF Doors
<1> QED
  BY <1>1, <1>3, DoorLets DEF I!RemoveLooks

LEMMA IntakeRemoveDeletes ==
  ASSUME IntakeInv, I!RemoveDeletes
  PROVE  IntakeInv'
<1>1. door.at = "removal" /\ door \in [at : {"removal", "sweeping"}, id : Ids, own : SUBSET I!Folders] /\ door.id <= rows
  BY DoorKinds DEF I!RemoveDeletes, IntakeInv, IntakeTyped, RowsStand
<1>2. /\ door' \in [at : {"removal", "sweeping"}, id : Ids, own : SUBSET I!Folders]
      /\ door'.at = "sweeping" /\ door'.id = door.id
      /\ UNCHANGED <<print, rows, disk, jobs, lane, deaths, raced>>
  BY <1>1 DEF I!RemoveDeletes
<1>3. CASE row.id # door.id
  BY <1>1, <1>2, <1>3, DoorLets DEF I!RemoveDeletes, Doors
<1>4. CASE row.id = door.id
  <2>1. row' = I!NoRow /\ chunks' = <<0, 0>>
    BY <1>4 DEF I!RemoveDeletes
  <2>2. row' \in I!Row /\ row'.id = 0 /\ row'.stage = "none" /\ row'.mark = "none" /\ row'.cand = I!NoRun
    BY <2>1, RunsAreTyped
  <2>3. lane.at \in WithId => lane.id # 0
    BY LaneKinds DEF IntakeInv, IntakeTyped, Ids
  <2>4. IntakeTyped'
    BY <1>2, <2>1, <2>2, BoundsOfSources DEF IntakeInv, IntakeTyped, Doors
  <2>5. RowsStand'
    <3>1. lane.at = "taken" => PastOf(lane.seen)'
      BY <1>2, <2>2 DEF IntakeInv, RowsStand, PastOf, WellStaged
    <3>2. WellStaged(row)' /\ LaneHasJob'
      BY <1>2, <2>2, BoundsOfSources DEF IntakeInv, IntakeTyped, RowsStand, WellStaged, LaneHasJob
    <3> QED
      BY <1>1, <1>2, <2>2, <2>3, <3>1, <3>2 DEF IntakeInv, RowsStand, TakenFrom, LaneRun, WithId, IndexAt
  <2>6. FoldersStand'
    BY <1>2, <2>1, <2>2, <2>3 DEF FoldersStand, AcceptedStands, RawStands, LaneStands, DropStands, CutStands, WithId
  <2>7. MarkStands'
    BY <1>2, <2>2, <2>3 DEF MarkStands, WithId, IndexAt
  <2> QED
    BY <1>2, <2>4, <2>5, <2>6, <2>7 DEF IntakeInv
<1> QED
  BY <1>3, <1>4

LEMMA IntakeRemoveSweeps ==
  ASSUME IntakeInv, I!RemoveSweeps
  PROVE  IntakeInv'
<1>1. door.at = "sweeping" /\ door \in [at : {"removal", "sweeping"}, id : Ids, own : SUBSET I!Folders]
  BY DoorKinds DEF I!RemoveSweeps, IntakeInv, IntakeTyped
<1>2. /\ door' = [at |-> "idle"] /\ UNCHANGED <<print, row, rows, chunks, jobs, lane, deaths>>
      /\ raced' = raced \cup (IF row.id # 0 THEN {"sweep"} ELSE {})
  BY DEF I!RemoveSweeps, I!Idle
<1>3. disk' \in [I!Folders -> 0..MaxPrint]
  BY <1>1, ClearedIs DEF I!RemoveSweeps, IntakeInv
<1>4. IntakeTyped'
  BY <1>2, <1>3 DEF IntakeInv, IntakeTyped, Doors
<1>5. RowsStand'
  <2>1. lane.at = "taken" => PastOf(lane.seen)'
    BY <1>2 DEF IntakeInv, RowsStand, PastOf, WellStaged
  <2> QED
    BY <1>2, <2>1 DEF IntakeInv, RowsStand, LaneHasJob, WellStaged, TakenFrom, LaneRun
<1>6. lane.at \in WithId => lane.id # 0
  BY LaneKinds DEF IntakeInv, IntakeTyped, Ids
<1>7. ASSUME Clean', FoldersStand
      PROVE  FoldersStand'
  <2>1. row.id = 0 /\ row.stage = "none" /\ row.cand = I!NoRun
    BY <1>2, <1>7 DEF Clean, IntakeInv, RowsStand, WellStaged
  <2> QED
    BY <1>2, <1>6, <1>7, <2>1
       DEF FoldersStand, AcceptedStands, RawStands, LaneStands, DropStands, CutStands, WithId
<1>8. MarkStands => MarkStands'
  BY <1>2 DEF MarkStands
<1> QED
  BY <1>2, <1>4, <1>5, <1>7, <1>8 DEF IntakeInv, Clean

LEMMA IntakeStep ==
  ASSUME IntakeInv, [I!Next]_intake
  PROVE  IntakeInv'
<1>1. ASSUME I!Onboards
      PROVE  IntakeInv'
  BY <1>1, IntakeOnboardBegins, IntakeOnboardWrites, IntakeOnboardTakes, IntakeOnboardCommits, IntakeOnboardClears
     DEF I!Onboards
<1>2. ASSUME I!Indexes
      PROVE  IntakeInv'
  BY <1>2, IntakeIndexBegins, IntakeIndexProvisions, IntakeIndexOpens, IntakeIndexCloses, IntakeIndexReplaces,
     IntakeIndexMarks DEF I!Indexes
<1>3. ASSUME I!Accepts \/ I!Removes
      PROVE  IntakeInv'
  BY <1>3, IntakeAcceptLooks, IntakeAcceptDecides, IntakeAcceptCommits, IntakeDropLooks, IntakeDropRemoves,
     IntakeRemoveLooks, IntakeRemoveDeletes, IntakeRemoveSweeps DEF I!Accepts, I!Removes
<1> QED
  BY <1>1, <1>2, <1>3, IntakeMoves, IntakeDeclares, IntakeAsks, IntakeDies DEF I!Next

LEMMA IntakeHolds ==
  ASSUME IntakeInv
  PROVE  I!TypeOK /\ I!CutIsWhole /\ I!AcceptedOnDisk /\ I!CurrentUnlessRaced
<1>1. I!TypeOK
  BY LaneKinds, DoorKinds DEF IntakeInv, IntakeTyped, I!TypeOK, OnboardAt, IndexAt
<1>2. I!CutIsWhole /\ I!AcceptedOnDisk
  BY DEF IntakeInv, FoldersStand, CutStands, AcceptedStands, OnDisk, I!CutIsWhole, I!AcceptedOnDisk
<1>3. I!CurrentUnlessRaced
  BY DEF IntakeInv, MarkStands, I!CurrentUnlessRaced
<1> QED
  BY <1>1, <1>2, <1>3

-----------------------------------------------------------------------------
(* The supervisor.  A process that is alive is a child the supervisor      *)
(* knows, and one a let_go waits for, as long as there is one child and no *)
(* two waits cross.                                                        *)

ProcsStand ==
  /\ S!TypeOK /\ waits \in [Stoppers -> (SUBSET S!Procs) \cup {S!NoStop}]
  /\ \A p \in kids \cup live \cup exited : p[1] <= starts
  /\ exited \cap live = {}
OneChildStands ==
  Cardinality(Tools) = 1 /\ ~crossed =>
    /\ live \subseteq kids /\ \A p, q \in kids : p = q
    /\ \A t \in Stoppers : ~S!Stopped(t) => stopping /\ live \subseteq waits[t]
    /\ \A t, u \in Stoppers : ~S!Stopped(t) /\ ~S!Stopped(u) => t = u
SupervisorInv == ProcsStand /\ OneChildStands

LEMMA SupervisorInit == S!Init => SupervisorInv
<1> SUFFICES ASSUME S!Init
             PROVE  SupervisorInv
  OBVIOUS
<1> USE BoundsOfSources DEF S!Init
<1>3. stopping \in BOOLEAN /\ reason \in BOOLEAN /\ crossed \in BOOLEAN
  OBVIOUS
<1>4. /\ kids \cup live \cup exited = {} /\ told = {} /\ stuck = {} /\ starts \in 0..MaxTakes
      /\ waits \in [Stoppers -> (SUBSET S!Procs) \cup {S!NoStop}] /\ \A t \in Stoppers : waits[t] = S!NoStop
  OBVIOUS
<1>1. ProcsStand
  <2>1. S!TypeOK
    BY <1>3, <1>4 DEF S!TypeOK
  <2> QED
    BY <1>4, <2>1 DEF ProcsStand
<1>2. OneChildStands
  BY DEF OneChildStands, S!Stopped
<1> QED
  BY <1>1, <1>2 DEF SupervisorInv

LEMMA SupervisorTakes ==
  ASSUME SupervisorInv, S!Takes
  PROVE  SupervisorInv'
<1> USE BoundsOfSources DEF S!Takes
<1>1. starts \in Nat /\ starts' = starts + 1 /\ starts' \in 1..MaxTakes /\ \A p \in kids \cup live \cup exited : p[1] <= starts
  BY DEF SupervisorInv, ProcsStand, S!TypeOK
<1>2. \A p \in kids' : p \in S!Procs /\ p[1] = starts + 1
  BY <1>1 DEF S!Procs
<1>3. \A p \in kids \cup live \cup exited : p[1] \in Nat
  BY DEF SupervisorInv, ProcsStand, S!TypeOK, S!Procs
<1>4. exited' \cap live' = {}
  BY <1>1, <1>2, <1>3 DEF SupervisorInv, ProcsStand
<1>5. \A p \in kids' \cup live' \cup exited' : p[1] <= starts'
  BY <1>1, <1>2, <1>3
<1>9. reason' \in BOOLEAN /\ stopping' \in BOOLEAN /\ crossed' \in BOOLEAN
  BY DEF SupervisorInv, ProcsStand, S!TypeOK
<1>6. ProcsStand'
  <2>1. S!TypeOK'
    BY <1>1, <1>2, <1>9 DEF SupervisorInv, ProcsStand, S!TypeOK
  <2> QED
    BY <1>4, <1>5, <2>1 DEF SupervisorInv, ProcsStand
<1>7. ASSUME Cardinality(Tools) = 1, ~crossed
      PROVE  live' = kids' /\ \A p, q \in kids' : p = q
  <2>1. PICK tool : Tools = {tool}
    BY <1>7, FS_Singleton
  <2>2. live = {}
    BY <1>7 DEF SupervisorInv, OneChildStands, S!Alive
  <2> QED
    BY <2>1, <2>2
<1>8. OneChildStands'
  BY <1>7 DEF SupervisorInv, OneChildStands, S!Stopped, S!Refuses
<1> QED
  BY <1>6, <1>8 DEF SupervisorInv

LEMMA SupervisorLetsGo ==
  ASSUME SupervisorInv, NEW t \in Stoppers, S!LetsGo(t)
  PROVE  SupervisorInv'
<1> DEFINE procs == kids \cap live
<1>1. S!Stopped(t) /\ UNCHANGED <<starts, live, stuck, exited, reason>>
  BY DEF S!LetsGo
<1>2. CASE procs = {}
  <2>1. kids' = {} /\ UNCHANGED <<told, stopping, waits, crossed>>
    BY <1>2 DEF S!LetsGo
  <2>2. ProcsStand'
    BY <1>1, <2>1 DEF SupervisorInv, ProcsStand, S!TypeOK
  <2>3. OneChildStands'
    BY <1>1, <1>2, <2>1 DEF SupervisorInv, OneChildStands, S!Stopped
  <2> QED
    BY <2>2, <2>3 DEF SupervisorInv
<1>3. CASE procs # {}
  <2>1. /\ stopping' = TRUE /\ told' = told \cup procs /\ waits' = [waits EXCEPT ![t] = procs] /\ kids' = kids
        /\ crossed' = (crossed \/ \E u \in Stoppers : ~S!Stopped(u))
    BY <1>3 DEF S!LetsGo
  <2>2. procs \in SUBSET S!Procs /\ waits \in [Stoppers -> (SUBSET S!Procs) \cup {S!NoStop}]
    BY DEF SupervisorInv, ProcsStand, S!TypeOK
  <2>3. /\ waits' \in [Stoppers -> (SUBSET S!Procs) \cup {S!NoStop}] /\ waits'[t] = procs
        /\ \A u \in Stoppers : u # t => waits'[u] = waits[u]
    BY <2>1, <2>2
  <2>4. crossed' \in BOOLEAN
    BY <2>1
  <2>5. ProcsStand'
    BY <1>1, <2>1, <2>2, <2>3, <2>4 DEF SupervisorInv, ProcsStand, S!TypeOK
  <2>6. OneChildStands'
    BY <1>1, <2>1, <2>3 DEF SupervisorInv, OneChildStands, S!Stopped
  <2> QED
    BY <2>5, <2>6 DEF SupervisorInv
<1> QED
  BY <1>2, <1>3

LEMMA SupervisorEnds ==
  ASSUME SupervisorInv, NEW t \in Stoppers, S!GivesUp(t) \/ S!EndsStop(t)
  PROVE  SupervisorInv'
<1>1. /\ ~S!Stopped(t) /\ stopping' = FALSE /\ waits' = [waits EXCEPT ![t] = S!NoStop]
      /\ UNCHANGED <<starts, live, told, stuck, exited, crossed>> /\ reason' \in BOOLEAN
      /\ kids' = kids \/ (kids' = {} /\ waits[t] \cap live = {})
  BY DEF S!GivesUp, S!EndsStop, S!MayEnd, SupervisorInv, ProcsStand, S!TypeOK
<1>2. /\ waits' \in [Stoppers -> (SUBSET S!Procs) \cup {S!NoStop}] /\ waits'[t] = S!NoStop
      /\ \A u \in Stoppers : u # t => waits'[u] = waits[u]
  BY <1>1 DEF SupervisorInv, ProcsStand
<1>3. ProcsStand'
  BY <1>1, <1>2 DEF SupervisorInv, ProcsStand, S!TypeOK
<1>4. OneChildStands'
  BY <1>1, <1>2 DEF SupervisorInv, OneChildStands, S!Stopped
<1> QED
  BY <1>3, <1>4 DEF SupervisorInv

LEMMA SupervisorExits ==
  ASSUME SupervisorInv, NEW p \in S!Procs, S!Exits(p) \/ S!Sticks(p) \/ S!Watches(p)
  PROVE  SupervisorInv'
<1>1. CASE S!Exits(p)
  <2>1. /\ p \in live \ stuck /\ live' = live \ {p} /\ exited' = exited \cup {p}
        /\ UNCHANGED <<kids, starts, told, stuck, stopping, reason, waits, crossed>>
    BY <1>1 DEF S!Exits
  <2>2. ProcsStand'
    BY <2>1 DEF SupervisorInv, ProcsStand, S!TypeOK
  <2>3. OneChildStands'
    BY <2>1 DEF SupervisorInv, OneChildStands, S!Stopped
  <2> QED
    BY <2>2, <2>3 DEF SupervisorInv
<1>2. CASE S!Sticks(p)
  BY <1>2 DEF S!Sticks, SupervisorInv, ProcsStand, OneChildStands, S!TypeOK, S!Stopped
<1>3. CASE S!Watches(p) /\ p \in kids /\ ~stopping
  <2>1. /\ p \in exited /\ kids' = {} /\ live' = stuck /\ exited' = {} /\ stopping' = FALSE /\ reason' = FALSE
        /\ waits' = [t \in Stoppers |-> S!NoStop] /\ UNCHANGED <<starts, told, stuck, crossed>>
    BY <1>3 DEF S!Watches
  <2>2. ProcsStand'
    BY <2>1 DEF SupervisorInv, ProcsStand, S!TypeOK
  <2>3. Cardinality(Tools) = 1 /\ ~crossed => stuck = {}
    BY <1>3, <2>1 DEF SupervisorInv, ProcsStand, OneChildStands, S!TypeOK
  <2>4. OneChildStands'
    BY <2>1, <2>3 DEF OneChildStands, S!Stopped
  <2> QED
    BY <2>2, <2>4 DEF SupervisorInv
<1>4. CASE S!Watches(p) /\ ~(p \in kids /\ ~stopping)
  <2>1. exited' = exited \ {p} /\ UNCHANGED <<kids, starts, live, told, stuck, stopping, reason, waits, crossed>>
    BY <1>4 DEF S!Watches
  <2>2. ProcsStand'
    BY <2>1 DEF SupervisorInv, ProcsStand, S!TypeOK
  <2>3. OneChildStands'
    BY <2>1 DEF SupervisorInv, OneChildStands, S!Stopped
  <2> QED
    BY <2>2, <2>3 DEF SupervisorInv
<1> QED
  BY <1>1, <1>2, <1>3, <1>4

LEMMA SupervisorStep ==
  ASSUME SupervisorInv, [S!Next]_supervisor
  PROVE  SupervisorInv'
<1>1. CASE UNCHANGED supervisor
  BY <1>1 DEF supervisor, SupervisorInv, ProcsStand, OneChildStands, S!TypeOK, S!Stopped
<1>2. CASE S!Next
  BY <1>2, SupervisorTakes, SupervisorLetsGo, SupervisorEnds, SupervisorExits DEF S!Next, S!Stops
<1> QED
  BY <1>1, <1>2

LEMMA SupervisorHolds ==
  ASSUME SupervisorInv
  PROVE  S!TypeOK /\ S!FreeUnlessCrossed
<1>1. ASSUME Cardinality(Tools) = 1, ~crossed, S!Label = "free"
      PROVE  live = {}
  BY <1>1 DEF SupervisorInv, OneChildStands, S!Label, S!Alive
<1>2. S!Cardinality(Tools) = Cardinality(Tools)
  BY DEF S!Cardinality, Cardinality
<1> QED
  BY <1>1, <1>2 DEF SupervisorInv, ProcsStand, S!FreeUnlessCrossed

-----------------------------------------------------------------------------
(* The declaration and its knobs.  A run that was taken has its number, a  *)
(* row names one from the time it is raw, and one waits beside an accepted *)
(* run only; nothing was cut of a source that is not accepted.             *)

Langs == {"none", "en", "ru"}
Declarations ==
  [origins : SUBSET K!Origins, site : {"none", "r1", "r2"}, cats : SUBSET K!Categories, lang : {"en", "ru"},
   skip : 0..1, route : 0..1, settings : 0..1]
Digests == {K!Rules(d) : d \in Declarations}
RawFolders == {<<>>} \cup {K!FolderOf(d, accepted) : d \in Declarations, accepted \in BOOLEAN}
RawPrints == {<<>>} \cup {K!FingerprintOf(d) : d \in Declarations}
Raws ==
  [run : Nat, folder : RawFolders, print : RawPrints,
   verdict : {"none", "ok", "bad"}, lang : Langs, tried : SUBSET RawFolders]
Entries ==
  [stage : {"none", "declared", "raw", "accepted"}, decl : Declarations, lang : Langs, raw : Raws, cand : Raws,
   indexed : {K!Uncut, K!Replaced} \cup Digests, active : BOOLEAN]
Hands == {[at |-> "idle"]} \cup [at : {"onboard", "index"}, decl : Declarations, stage : {"none", "declared", "raw", "accepted"}]
Requests == [decl : Declarations, lang : Langs, raw : Raws, cand : Raws]
KnobsTyped ==
  entry \in Entries /\ hand \in Hands /\ searched \in {K!Uncut} \cup Digests /\ request \in Requests /\ K!KnTypeOK

(* a row's runs by its stage, of the runs so far *)
WellRun(r, n) ==
  /\ r.stage \in {"raw", "accepted"} => r.raw.run \in 1..n
  /\ r.stage \notin {"raw", "accepted"} => r.raw = K!NoRaw
  /\ r.cand = K!NoRaw \/ (r.stage = "accepted" /\ r.cand.run \in 1..n)
OneRunPerJob ==
  /\ hand.at = "onboard" => runs > 0
  /\ "onboard" \in pending /\ hand.at # "onboard" => runs < MaxRuns
NothingOfNone == entry.stage = "none" => searched = K!Uncut /\ pending = {}
(* what a request wrote now would leave: a declaration as good, and the one in hand as it is, save for a job *)
(* that was queued after its look                                                                            *)
MayWrite(q) ==
  /\ entry.stage # "none" /\ K!Valid(q.decl)
  /\ "onboard" \in pending => "onboard" \in met
  /\ "index" \in pending /\ "index" \notin met => K!Rules(q.decl) = K!Rules(entry.decl)
  /\ searched # K!Uncut /\ "cut" \notin met => q.decl.lang = entry.decl.lang /\ q.decl.cats = entry.decl.cats
  /\ q.raw # K!NoRaw => /\ entry.stage \in {"raw", "accepted"} /\ q.raw.run \in 1..runs
                        /\ q.cand = K!NoRaw \/ (entry.stage = "accepted" /\ q.cand.run \in 1..runs)
RequestStands == request # K!NoRequest => MayWrite(request)
KnobsInv ==
  /\ RequestStands /\ KnobsTyped /\ WellRun(entry, runs) /\ OneRunPerJob /\ NothingOfNone
  /\ K!DeclaredIsReadable /\ K!ReadUnderOne /\ K!MarkTells /\ K!CutAsGuessed

LEMMA DeclarationsAre ==
  /\ \A d \in Declarations :
       /\ K!Rules(d) \in Digests /\ K!Rules(d)[1] = d.lang /\ K!Rules(d)[2] = d.cats
       /\ K!FingerprintOf(d) # <<>> /\ \A accepted \in BOOLEAN : K!FolderOf(d, accepted) \in RawFolders
  /\ K!Uncut \notin Digests /\ K!Uncut # K!Replaced
<1>1. \A d \in Declarations : K!Rules(d)[1] = d.lang /\ K!Rules(d)[2] = d.cats /\ K!Rules(d) # <<>> /\ K!FingerprintOf(d) # <<>>
  BY DEF K!Rules, K!FingerprintOf
<1>2. \A d \in Declarations : K!Rules(d) \in Digests /\ \A accepted \in BOOLEAN : K!FolderOf(d, accepted) \in RawFolders
  BY DEF Digests, RawFolders
<1>3. K!Uncut \notin Digests
  BY <1>1 DEF Digests, K!Uncut
<1>4. K!Uncut # K!Replaced
  BY DEF K!Uncut, K!Replaced
<1> QED
  BY <1>1, <1>2, <1>3, <1>4

LEMMA NoneAre ==
  /\ K!NoRaw \in Raws /\ K!NoRaw.run = 0 /\ K!NoRow \in Entries
  /\ K!NoRow.stage = "none" /\ K!NoRow.raw = K!NoRaw /\ K!NoRow.cand = K!NoRaw /\ K!NoRow.indexed = K!Uncut /\ ~K!NoRow.active
<1> DEFINE none == K!Declared({}, K!None, {})
<1>1. K!NoRaw \in Raws /\ K!NoRaw.run = 0
  BY DEF K!NoRaw, K!None, Raws, RawFolders, RawPrints, Langs
<1>2. none \in Declarations
  BY DEF K!Declared, K!None, Declarations
<1>3. FALSE \in BOOLEAN
  OBVIOUS
<1> HIDE DEF none
<1>4. K!NoRow = [stage |-> "none", decl |-> none, lang |-> K!None, raw |-> K!NoRaw, cand |-> K!NoRaw, indexed |-> K!Uncut,
                 active |-> FALSE]
  BY DEF K!NoRow, none
<1>5. K!NoRow \in Entries
  BY <1>1, <1>2, <1>3, <1>4 DEF Entries, Langs, K!None
<1>6. ~K!NoRow.active
  BY <1>4
<1> QED
  BY <1>1, <1>4, <1>5, <1>6

LEMMA NoRequestIs == K!NoRequest \in Requests /\ K!NoRequest.raw = K!NoRaw
<1> DEFINE none == K!Declared({}, K!None, {})
<1>1. none \in Declarations
  BY DEF K!Declared, K!None, Declarations
<1> HIDE DEF none
<1>2. K!NoRequest = [decl |-> none, lang |-> K!None, raw |-> K!NoRaw, cand |-> K!NoRaw]
  BY DEF K!NoRequest, none
<1> QED
  BY <1>1, <1>2, NoneAre DEF Requests, Langs, K!None

LEMMA KnobsInit == K!KnInit => KnobsInv
<1> SUFFICES ASSUME K!KnInit
             PROVE  KnobsInv
  OBVIOUS
<1> USE NoneAre, NoRequestIs, BoundsOfSources DEF K!KnInit
<1>1. KnobsTyped
  BY DEF KnobsTyped, Hands, K!Idle, K!KnTypeOK
<1>2. WellRun(entry, runs) /\ OneRunPerJob /\ NothingOfNone /\ RequestStands
  BY DEF WellRun, OneRunPerJob, NothingOfNone, RequestStands, K!Idle
<1>3. K!DeclaredIsReadable /\ K!ReadUnderOne /\ K!MarkTells /\ K!CutAsGuessed
  BY DEF K!DeclaredIsReadable, K!ReadUnderOne, K!MarkTells, K!CutAsGuessed, K!Idle
<1> QED
  BY <1>1, <1>2, <1>3 DEF KnobsInv

LEMMA NotedIs ==
  ASSUME NEW raw \in Raws, NEW n, n = K!Noted(raw)
  PROVE  n \in Raws /\ (n = K!NoRaw <=> raw = K!NoRaw) /\ n.run = raw.run
<1>1. CASE raw = K!NoRaw
  BY <1>1 DEF K!Noted
<1>2. CASE raw # K!NoRaw
  <2> DEFINE tried == raw.tried \cup {raw.folder}
  <2>1. tried \in SUBSET RawFolders /\ raw.folder \in tried
    BY DEF Raws
  <2>2. n = [raw EXCEPT !.tried = tried]
    BY <1>2 DEF K!Noted
  <2> HIDE DEF tried
  <2>3. n \in Raws /\ n.run = raw.run /\ n.tried = tried
    BY <2>1, <2>2 DEF Raws
  <2>4. K!NoRaw.tried = {}
    BY DEF K!NoRaw
  <2> QED
    BY <1>2, <2>1, <2>3, <2>4
<1> QED
  BY <1>1, <1>2

LEMMA PromotedOf ==
  ASSUME NEW r \in Entries, NEW k \in Nat, WellRun(r, k), r.stage = "raw" \/ K!Waits(r), NEW p, p = K!Promoted(r)
  PROVE  /\ p \in Entries /\ WellRun(p, k) /\ p.stage = "accepted"
         /\ p.decl = r.decl /\ p.active = r.active /\ p.indexed = (IF r.indexed = K!Uncut THEN K!Uncut ELSE K!Replaced)
<1> DEFINE took == K!Review(r)
           lang == IF took.lang = K!None THEN r.lang ELSE took.lang
           indexed == IF r.indexed = K!Uncut THEN K!Uncut ELSE K!Replaced
<1>1. r.raw \in Raws /\ r.cand \in Raws /\ r.lang \in Langs
  BY DEF Entries
<1>2. took \in Raws /\ took.run \in 1..k
  BY <1>1 DEF K!Review, K!Waits, WellRun
<1>3. lang \in Langs /\ indexed \in {K!Uncut, K!Replaced} \cup Digests
  BY <1>1, <1>2 DEF Raws
<1>4. p = [r EXCEPT !.stage = "accepted", !.cand = K!NoRaw, !.lang = lang, !.raw = took, !.indexed = indexed]
  BY DEF K!Promoted
<1> HIDE DEF took, lang, indexed
<1>6. /\ p \in Entries /\ p.stage = "accepted" /\ p.cand = K!NoRaw /\ p.raw = took /\ p.decl = r.decl /\ p.active = r.active
      /\ p.indexed = indexed
  BY <1>2, <1>3, <1>4, NoneAre DEF Entries
<1> QED
  BY <1>2, <1>6 DEF WellRun, indexed

LEMMA KnobsDeclares ==
  ASSUME KnobsInv, NEW o \in SUBSET K!Origins, NEW site \in {K!None, "r1", "r2"}, K!Declares(K!Declared(o, site, {"new"}))
  PROVE  KnobsInv'
<1> DEFINE d == K!Declared(o, site, {"new"})
<1>1. d \in Declarations /\ d.lang = "en"
  BY DEF K!Declared, K!None, K!Categories, Declarations
<1> HIDE DEF d
<1>2. /\ entry.stage = "none" /\ K!Valid(d) /\ entry' = [K!NoRow EXCEPT !.stage = "declared", !.decl = d, !.lang = d.lang]
      /\ UNCHANGED <<auto, pending, hand, searched, request, turns, runs, rounds, met>>
  BY DEF K!Declares, d
<1>3. /\ entry' \in Entries /\ entry'.stage = "declared" /\ entry'.decl = d /\ entry'.raw = K!NoRaw /\ entry'.cand = K!NoRaw
      /\ entry'.indexed = K!Uncut /\ entry'.active = K!NoRow.active
  BY <1>1, <1>2, NoneAre DEF Entries, Langs
<1>4. searched = K!Uncut /\ pending = {} /\ hand.at = "idle"
  BY <1>2 DEF KnobsInv, KnobsTyped, NothingOfNone, K!KnTypeOK
<1>5. KnobsTyped'
  BY <1>2, <1>3, NoneAre DEF KnobsInv, KnobsTyped, K!KnTypeOK
<1>6. WellRun(entry, runs)' /\ OneRunPerJob' /\ NothingOfNone' /\ RequestStands'
  BY <1>2, <1>3 DEF KnobsInv, WellRun, OneRunPerJob, NothingOfNone, RequestStands, MayWrite
<1>7. K!DeclaredIsReadable' /\ K!ReadUnderOne' /\ K!MarkTells' /\ K!CutAsGuessed'
  BY <1>2, <1>3, <1>4 DEF K!DeclaredIsReadable, K!ReadUnderOne, K!MarkTells, K!CutAsGuessed
<1> QED
  BY <1>5, <1>6, <1>7 DEF KnobsInv

LEMMA HandHasJob ==
  ASSUME KnobsInv
  PROVE  hand.at # "idle" => hand.at \in pending /\ hand.at \in {"onboard", "index"}
  BY DEF KnobsInv, KnobsTyped, K!KnTypeOK

(* A request written, with the lane and the cut as they are. *)
LEMMA KnobsWrites ==
  ASSUME KnobsInv, NEW q \in Requests, MayWrite(q), K!Write(q), turns' \in 0..MaxTurns, request' \in {request, K!NoRequest}
  PROVE  KnobsInv'
<1> DEFINE lang == IF q.lang = K!None THEN entry.lang ELSE q.lang
           raw == IF q.raw = K!NoRaw THEN entry.raw ELSE q.raw
           cand == IF q.raw = K!NoRaw THEN entry.cand ELSE q.cand
<1>1. /\ entry' = [entry EXCEPT !.decl = q.decl, !.lang = lang, !.raw = raw, !.cand = cand]
      /\ rounds' = (IF q.raw = K!NoRaw THEN rounds ELSE rounds \cup {q.raw.run})
      /\ UNCHANGED <<auto, pending, hand, searched, runs, met>>
  BY DEF K!Write, K!Written
<1>2. entry \in Entries /\ lang \in Langs /\ raw \in Raws /\ cand \in Raws /\ q.decl \in Declarations
  BY DEF KnobsInv, KnobsTyped, Entries, Requests
<1>3. /\ entry.stage \in {"raw", "accepted"} => raw.run \in 1..runs
      /\ entry.stage \notin {"raw", "accepted"} => raw = K!NoRaw
      /\ cand = K!NoRaw \/ (entry.stage = "accepted" /\ cand.run \in 1..runs)
  BY DEF KnobsInv, WellRun, MayWrite
<1> HIDE DEF lang, raw, cand
<1>4. /\ entry' \in Entries /\ entry'.stage = entry.stage /\ entry'.decl = q.decl /\ entry'.raw = raw /\ entry'.cand = cand
      /\ entry'.indexed = entry.indexed /\ entry'.active = entry.active
  BY <1>1, <1>2 DEF Entries
<1>5. rounds' \subseteq 1..MaxRuns
  <2>1. runs \in 0..MaxRuns /\ rounds \subseteq 1..MaxRuns
    BY DEF KnobsInv, KnobsTyped, K!KnTypeOK
  <2>2. 1..runs \subseteq 1..MaxRuns
    BY <2>1, BoundsOfSources
  <2>3. q.raw # K!NoRaw => q.raw.run \in 1..runs
    BY DEF MayWrite
  <2> QED
    BY <1>1, <2>1, <2>2, <2>3
<1>6. KnobsTyped'
  <2>1. request' \in Requests
    BY NoRequestIs DEF KnobsInv, KnobsTyped
  <2> QED
    BY <1>1, <1>4, <1>5, <2>1 DEF KnobsInv, KnobsTyped, K!KnTypeOK
<1>7. WellRun(entry, runs)' /\ OneRunPerJob' /\ NothingOfNone'
  BY <1>1, <1>3, <1>4 DEF KnobsInv, WellRun, OneRunPerJob, NothingOfNone
<1>8. K!DeclaredIsReadable' /\ K!MarkTells' /\ K!CutAsGuessed'
  BY <1>1, <1>4 DEF KnobsInv, MayWrite, K!DeclaredIsReadable, K!MarkTells, K!CutAsGuessed
<1>9. K!ReadUnderOne'
  BY <1>1, <1>4, HandHasJob DEF KnobsInv, MayWrite, K!ReadUnderOne
<1>10. RequestStands'
  <2> SUFFICES ASSUME request' # K!NoRequest
               PROVE  MayWrite(request)'
    BY DEF RequestStands
  <2>1. request' = request /\ MayWrite(request)
    BY DEF KnobsInv, RequestStands
  <2> QED
    BY <1>1, <1>4, <2>1 DEF MayWrite
<1> QED
  BY <1>6, <1>7, <1>8, <1>9, <1>10 DEF KnobsInv

(* A door that sets a field: it looks, or looks and writes in the midst of another. *)
LEMMA KnobsSets ==
  ASSUME KnobsInv, NEW q \in Requests, MayWrite(q), K!Sets(q)
  PROVE  KnobsInv'
<1>1. turns' \in 0..MaxTurns
  BY BoundsOfSources DEF K!Sets, KnobsInv, KnobsTyped, K!KnTypeOK
<1>2. CASE request = K!NoRequest
  <2>1. request' = q /\ UNCHANGED <<entry, auto, pending, hand, searched, runs, rounds, met>>
    BY <1>2 DEF K!Sets
  <2>2. KnobsTyped'
    BY <1>1, <2>1 DEF KnobsInv, KnobsTyped, K!KnTypeOK
  <2>3. WellRun(entry, runs)' /\ OneRunPerJob' /\ NothingOfNone' /\ RequestStands'
    BY <2>1 DEF KnobsInv, WellRun, OneRunPerJob, NothingOfNone, RequestStands, MayWrite
  <2>4. K!DeclaredIsReadable' /\ K!ReadUnderOne' /\ K!MarkTells' /\ K!CutAsGuessed'
    BY <2>1 DEF KnobsInv, K!DeclaredIsReadable, K!ReadUnderOne, K!MarkTells, K!CutAsGuessed
  <2> QED
    BY <2>2, <2>3, <2>4 DEF KnobsInv
<1>3. CASE request # K!NoRequest
  BY <1>1, <1>3, KnobsWrites DEF K!Sets
<1> QED
  BY <1>2, <1>3

LEMMA KnobsCommits ==
  ASSUME KnobsInv, K!Commits
  PROVE  KnobsInv'
<1>1. request \in Requests /\ MayWrite(request) /\ K!Write(request) /\ request' = K!NoRequest /\ turns' \in 0..MaxTurns
  BY DEF K!Commits, KnobsInv, RequestStands, KnobsTyped, K!KnTypeOK
<1> QED
  BY <1>1, KnobsWrites

LEMMA AskedIs ==
  ASSUME KnobsInv, entry.stage # "none", NEW d \in Declarations, NEW lang \in Langs, NEW knob \in BOOLEAN, NEW q,
         q = K!Asked(d, lang, knob)
  PROVE  /\ q \in Requests /\ q.decl = d
         /\ q.raw # K!NoRaw => /\ entry.stage \in {"raw", "accepted"} /\ q.raw.run \in 1..runs
                               /\ q.cand = K!NoRaw \/ (entry.stage = "accepted" /\ q.cand.run \in 1..runs)
<1> DEFINE raw == IF knob THEN K!Noted(entry.raw) ELSE K!NoRaw
           cand == IF knob THEN entry.cand ELSE K!NoRaw
           said == IF lang = entry.lang THEN K!None ELSE lang
<1>1. entry.raw \in Raws /\ entry.cand \in Raws
  BY DEF KnobsInv, KnobsTyped, Entries
<1>2. raw \in Raws /\ cand \in Raws /\ said \in Langs /\ (raw # K!NoRaw => knob /\ entry.raw # K!NoRaw /\ raw.run = entry.raw.run)
  BY <1>1, NotedIs, NoneAre DEF Langs, K!None
<1>3. q = [decl |-> d, lang |-> said, raw |-> raw, cand |-> cand]
  BY DEF K!Asked
<1>4. raw # K!NoRaw => cand = entry.cand
  BY <1>2
<1> HIDE DEF raw, cand, said
<1>5. q \in Requests /\ q.decl = d /\ q.raw = raw /\ q.cand = cand
  BY <1>2, <1>3 DEF Requests
<1> QED
  BY <1>2, <1>4, <1>5 DEF KnobsInv, WellRun

LEMMA KnobsSetIntake ==
  ASSUME KnobsInv, NEW rt \in 0..1, NEW settings \in 0..1, K!SetIntake(rt, settings)
  PROVE  KnobsInv'
<1> DEFINE d == [entry.decl EXCEPT !.route = rt, !.settings = settings]
           q == K!Asked(d, entry.lang, TRUE)
<1>1. entry.lang \in Langs /\ entry.decl \in Declarations /\ entry.stage # "none" /\ K!Valid(entry.decl)
  BY DEF KnobsInv, KnobsTyped, Entries, K!SetIntake, K!Sets, K!DeclaredIsReadable
<1>2. /\ d \in Declarations /\ d.lang = entry.decl.lang /\ d.cats = entry.decl.cats /\ d.skip = entry.decl.skip
      /\ d.origins = entry.decl.origins /\ d.site = entry.decl.site
  BY <1>1 DEF Declarations
<1>3. K!Sets(q) /\ "onboard" \notin pending
  BY DEF K!SetIntake
<1> HIDE DEF d
<1>4. K!Valid(d) /\ K!Rules(d) = K!Rules(entry.decl)
  BY <1>1, <1>2 DEF K!Valid, K!OneOrigin, K!Readable, K!Rules
<1>5. q \in Requests /\ MayWrite(q)
  BY <1>1, <1>2, <1>3, <1>4, AskedIs DEF MayWrite
<1> HIDE DEF q
<1> QED
  BY <1>3, <1>5, KnobsSets

LEMMA KnobsSetKnobField ==
  ASSUME KnobsInv, NEW skip \in 0..1, K!SetKnobField(skip)
  PROVE  KnobsInv'
<1> DEFINE d == [entry.decl EXCEPT !.skip = skip]
           q == K!Asked(d, d.lang, TRUE)
<1>1. entry.decl \in Declarations
  BY DEF KnobsInv, KnobsTyped, Entries
<1>2. d \in Declarations /\ d.lang = entry.decl.lang /\ d.cats = entry.decl.cats /\ d.lang \in Langs
  BY <1>1 DEF Declarations, Langs
<1>3. K!Sets(q) /\ pending \cap {"onboard", "index"} = {} /\ K!Valid(d) /\ entry.stage # "none"
  BY DEF K!SetKnobField, K!Sets
<1> HIDE DEF d
<1>5. "onboard" \notin pending /\ "index" \notin pending
  BY <1>3
<1>6. /\ q \in Requests /\ q.decl = d
      /\ q.raw # K!NoRaw => /\ entry.stage \in {"raw", "accepted"} /\ q.raw.run \in 1..runs
                            /\ q.cand = K!NoRaw \/ (entry.stage = "accepted" /\ q.cand.run \in 1..runs)
  BY <1>1, <1>2, <1>3, AskedIs
<1> HIDE DEF q
<1>7. MayWrite(q)
  BY <1>1, <1>2, <1>3, <1>5, <1>6 DEF MayWrite
<1> QED
  BY <1>3, <1>6, <1>7, KnobsSets

LEMMA KnobsSetGuessed ==
  ASSUME KnobsInv, NEW lang \in {"en", "ru"}, NEW cats \in SUBSET K!Categories, K!SetGuessed(lang, cats)
  PROVE  KnobsInv'
<1> DEFINE d == [entry.decl EXCEPT !.lang = lang, !.cats = cats]
           q == K!Asked(d, lang, FALSE)
<1>1. entry.decl \in Declarations /\ lang \in Langs
  BY DEF KnobsInv, KnobsTyped, Entries, Langs
<1>2. d \in Declarations
  BY <1>1 DEF Declarations
<1>3. /\ K!Sets(q) /\ pending \cap {"onboard", "index"} = {} /\ K!Valid(d) /\ entry.indexed = K!Uncut
      /\ entry.stage # "none"
  BY DEF K!SetGuessed, K!MayGuess, K!Sets
<1> HIDE DEF d
<1>4. searched = K!Uncut
  BY <1>3 DEF KnobsInv, K!MarkTells
<1>6. "onboard" \notin pending /\ "index" \notin pending
  BY <1>3
<1>5. /\ q \in Requests /\ q.decl = d
      /\ q.raw # K!NoRaw => /\ entry.stage \in {"raw", "accepted"} /\ q.raw.run \in 1..runs
                            /\ q.cand = K!NoRaw \/ (entry.stage = "accepted" /\ q.cand.run \in 1..runs)
  BY <1>1, <1>2, <1>3, AskedIs
<1> HIDE DEF q
<1>7. MayWrite(q)
  BY <1>1, <1>2, <1>3, <1>4, <1>5, <1>6 DEF MayWrite
<1> QED
  BY <1>3, <1>5, <1>7, KnobsSets

(* A row accepted, switched on or off, or as it is, with the cut as it is. *)
LEMMA KnobsPuts ==
  ASSUME KnobsInv, K!Puts(entry'), entry' \in Entries, WellRun(entry', runs), entry'.decl = entry.decl,
         entry'.stage = "accepted" \/ (entry'.stage = entry.stage /\ ~entry'.active),
         entry'.indexed \in {entry.indexed, K!Replaced}, entry'.indexed = K!Uncut <=> entry.indexed = K!Uncut
  PROVE  KnobsInv'
<1>1. entry.stage # "none" /\ UNCHANGED <<auto, pending, hand, searched, request, turns, runs, rounds, met>>
  BY DEF K!Puts
<1>2. KnobsTyped'
  <2>1. entry'.stage \in {"none", "declared", "raw", "accepted"}
    BY DEF Entries
  <2>2. entry'.active => entry'.stage = "accepted"
    OBVIOUS
  <2> QED
    BY <1>1, <2>1, <2>2 DEF KnobsInv, KnobsTyped, K!KnTypeOK
<1>3. WellRun(entry, runs)' /\ OneRunPerJob' /\ NothingOfNone' /\ RequestStands'
  BY <1>1 DEF KnobsInv, OneRunPerJob, NothingOfNone, WellRun, RequestStands, MayWrite
<1>4. K!DeclaredIsReadable' /\ K!ReadUnderOne' /\ K!MarkTells' /\ K!CutAsGuessed'
  BY <1>1 DEF KnobsInv, K!DeclaredIsReadable, K!ReadUnderOne, K!MarkTells, K!CutAsGuessed
<1> QED
  BY <1>2, <1>3, <1>4 DEF KnobsInv

LEMMA KnobsAccepts ==
  ASSUME KnobsInv, NEW why \in BOOLEAN, K!Accepts(why)
  PROVE  KnobsInv'
<1>1. entry \in Entries /\ runs \in Nat /\ WellRun(entry, runs)
  BY BoundsOfSources DEF KnobsInv, KnobsTyped, K!KnTypeOK
<1>2. entry' = K!Promoted(entry) /\ K!Puts(entry') /\ (entry.stage = "raw" \/ K!Waits(entry))
  BY DEF K!Accepts, K!Puts, K!AcceptRefused
<1>3. /\ entry' \in Entries /\ WellRun(entry', runs) /\ entry'.stage = "accepted" /\ entry'.decl = entry.decl
      /\ entry'.indexed = (IF entry.indexed = K!Uncut THEN K!Uncut ELSE K!Replaced)
  BY <1>1, <1>2, PromotedOf
<1> QED
  BY <1>2, <1>3, KnobsPuts, DeclarationsAre

LEMMA KnobsActivates ==
  ASSUME KnobsInv, NEW on \in BOOLEAN, K!Activates(on)
  PROVE  KnobsInv'
<1>1. entry' = [entry EXCEPT !.active = on] /\ K!Puts(entry') /\ (on => entry.stage = "accepted")
  BY DEF K!Activates, K!ActiveRefused, K!Puts
<1>2. /\ entry' \in Entries /\ entry'.stage = entry.stage /\ entry'.raw = entry.raw /\ entry'.cand = entry.cand
      /\ entry'.decl = entry.decl /\ entry'.indexed = entry.indexed /\ entry'.active = on
  BY <1>1 DEF KnobsInv, KnobsTyped, Entries
<1>3. WellRun(entry', runs)
  BY <1>2 DEF KnobsInv, WellRun
<1> QED
  BY <1>1, <1>2, <1>3, KnobsPuts

LEMMA KnobsRemovesVariant ==
  ASSUME KnobsInv, K!RemovesVariant
  PROVE  KnobsInv'
<1>1. /\ searched' = K!Uncut /\ entry' = [entry EXCEPT !.indexed = K!Uncut]
      /\ met' = met \ {"cut"} /\ UNCHANGED <<auto, pending, hand, request, turns, runs, rounds>>
  BY DEF K!RemovesVariant
<1>2. /\ entry' \in Entries /\ entry'.stage = entry.stage /\ entry'.raw = entry.raw /\ entry'.cand = entry.cand
      /\ entry'.decl = entry.decl /\ entry'.indexed = K!Uncut /\ entry'.active = entry.active
  BY <1>1 DEF KnobsInv, KnobsTyped, Entries
<1>3. KnobsTyped'
  BY <1>1, <1>2 DEF KnobsInv, KnobsTyped, K!KnTypeOK
<1>4. WellRun(entry, runs)' /\ OneRunPerJob' /\ NothingOfNone' /\ RequestStands'
  BY <1>1, <1>2 DEF KnobsInv, WellRun, OneRunPerJob, NothingOfNone, RequestStands, MayWrite
<1>5. K!DeclaredIsReadable' /\ K!ReadUnderOne' /\ K!MarkTells' /\ K!CutAsGuessed'
  BY <1>1, <1>2 DEF KnobsInv, K!DeclaredIsReadable, K!ReadUnderOne, K!MarkTells, K!CutAsGuessed
<1> QED
  BY <1>3, <1>4, <1>5 DEF KnobsInv

LEMMA KnobsAsks ==
  ASSUME KnobsInv, NEW kind \in {"onboard", "index"}, K!Asks(kind)
  PROVE  KnobsInv'
<1>1. /\ entry.stage # "none" /\ kind \notin pending /\ pending' = pending \cup {kind} /\ (kind = "onboard" => runs < MaxRuns)
      /\ met' = (IF request = K!NoRequest THEN met \ {kind} ELSE met \cup {kind})
      /\ UNCHANGED <<entry, auto, hand, searched, request, turns, runs, rounds>>
  BY DEF K!Asks
<1>2. KnobsTyped'
  BY <1>1 DEF KnobsInv, KnobsTyped, K!KnTypeOK
<1>3. WellRun(entry, runs)' /\ OneRunPerJob' /\ NothingOfNone' /\ RequestStands'
  BY <1>1 DEF KnobsInv, WellRun, OneRunPerJob, NothingOfNone, RequestStands, MayWrite
<1>4. K!DeclaredIsReadable' /\ K!ReadUnderOne' /\ K!MarkTells' /\ K!CutAsGuessed'
  BY <1>1, HandHasJob DEF KnobsInv, K!DeclaredIsReadable, K!ReadUnderOne, K!MarkTells, K!CutAsGuessed
<1> QED
  BY <1>2, <1>3, <1>4 DEF KnobsInv

LEMMA KnobsTakes ==
  ASSUME KnobsInv, NEW kind \in {"onboard", "index"}, K!Takes(kind)
  PROVE  KnobsInv'
<1>1. /\ hand.at = "idle" /\ kind \in pending /\ hand' = [at |-> kind, decl |-> entry.decl, stage |-> entry.stage]
      /\ runs' = (IF kind = "onboard" THEN runs + 1 ELSE runs)
      /\ UNCHANGED <<entry, auto, pending, searched, request, turns, rounds, met>>
  BY DEF K!Takes
<1>2. runs \in Nat /\ runs' \in Nat /\ runs <= runs' /\ runs' \in 0..MaxRuns
  BY <1>1, BoundsOfSources DEF KnobsInv, KnobsTyped, K!KnTypeOK, OneRunPerJob
<1>3. entry.decl \in Declarations /\ entry.stage \in {"none", "declared", "raw", "accepted"}
  BY DEF KnobsInv, KnobsTyped, Entries
<1>4. hand' \in Hands /\ hand'.at = kind /\ hand'.decl = entry.decl
  BY <1>1, <1>3 DEF Hands
<1>5. KnobsTyped'
  BY <1>1, <1>2, <1>4 DEF KnobsInv, KnobsTyped, K!KnTypeOK
<1>6. WellRun(entry, runs)' /\ OneRunPerJob' /\ NothingOfNone' /\ RequestStands'
  BY <1>1, <1>2, <1>4 DEF KnobsInv, WellRun, OneRunPerJob, NothingOfNone, RequestStands, MayWrite
<1>7. K!DeclaredIsReadable' /\ K!ReadUnderOne' /\ K!MarkTells' /\ K!CutAsGuessed'
  BY <1>1, <1>4 DEF KnobsInv, K!DeclaredIsReadable, K!ReadUnderOne, K!MarkTells, K!CutAsGuessed
<1> QED
  BY <1>5, <1>6, <1>7 DEF KnobsInv

LEMMA HandOf ==
  ASSUME KnobsInv, hand.at \in {"onboard", "index"}
  PROVE  hand.decl \in Declarations
<1>1. hand \in [at : {"onboard", "index"}, decl : Declarations, stage : {"none", "declared", "raw", "accepted"}]
  BY DEF KnobsInv, KnobsTyped, Hands
<1> QED
  BY <1>1

LEMMA TakenOf ==
  ASSUME KnobsInv, entry.stage # "none", NEW run \in Raws, run.run \in 1..runs, run.lang \in Langs, NEW t, t = K!Taken(run)
  PROVE  /\ t \in Entries /\ WellRun(t, runs) /\ t.decl = entry.decl /\ t.indexed = entry.indexed /\ t.active = entry.active
         /\ t.stage = (IF entry.stage = "accepted" THEN "accepted" ELSE "raw")
<1>1. entry \in Entries /\ entry.raw \in Raws
  BY DEF KnobsInv, KnobsTyped, Entries
<1>2. CASE entry.stage = "accepted"
  <2>1. t = [entry EXCEPT !.cand = run]
    BY <1>2 DEF K!Taken
  <2>2. t \in Entries /\ t.cand = run /\ t.stage = entry.stage /\ t.raw = entry.raw /\ t.decl = entry.decl
        /\ t.indexed = entry.indexed /\ t.active = entry.active
    BY <1>1, <2>1 DEF Entries
  <2> QED
    BY <1>2, <2>2 DEF KnobsInv, WellRun
<1>3. CASE entry.stage # "accepted"
  <2> DEFINE raw == [run EXCEPT !.tried = entry.raw.tried]
  <2>1. raw \in Raws /\ raw.run = run.run
    BY <1>1 DEF Raws
  <2>2. t = [entry EXCEPT !.stage = "raw", !.lang = run.lang, !.raw = raw]
    BY <1>3 DEF K!Taken
  <2> HIDE DEF raw
  <2>3. t \in Entries /\ t.cand = entry.cand /\ t.stage = "raw" /\ t.raw = raw /\ t.decl = entry.decl
        /\ t.indexed = entry.indexed /\ t.active = entry.active
    BY <1>1, <2>1, <2>2 DEF Entries
  <2> QED
    BY <1>3, <2>1, <2>3 DEF KnobsInv, WellRun
<1> QED
  BY <1>2, <1>3

LEMMA KnobsOnboards ==
  ASSUME KnobsInv, NEW verdict \in {"ok", "bad"}, K!Onboards(verdict)
  PROVE  KnobsInv'
<1> DEFINE held == hand.stage = "accepted"
           run == [K!NoRaw EXCEPT !.run = runs, !.folder = K!FolderOf(hand.decl, held), !.print = K!FingerprintOf(hand.decl),
                                  !.verdict = verdict, !.lang = hand.decl.lang]
           took == K!Taken(run)
           others == IF took.stage = "accepted" THEN pending \cap {"index"} ELSE {}
           auto_takes == verdict = "ok" /\ auto /\ ~K!AcceptRefused(took, others, FALSE)
<1>1. /\ hand.at = "onboard" /\ hand' = [at |-> "idle"] /\ pending' = pending \ {"onboard"}
      /\ met' = met \ {"onboard"} /\ UNCHANGED <<auto, searched, request, turns, runs, rounds>>
  BY DEF K!Onboards, K!Ends, K!Idle
<1>2. entry' \in {entry, took, K!Promoted(took)} /\ (entry' # entry /\ entry' # took => took.stage = "raw" \/ K!Waits(took))
  <2>1. entry' = (IF held /\ entry.raw.print = run.print THEN entry ELSE IF auto_takes THEN K!Promoted(took) ELSE took)
    BY DEF K!Onboards
  <2>2. auto_takes => took.stage = "raw" \/ K!Waits(took)
    BY DEF K!AcceptRefused
  <2> HIDE DEF took, auto_takes, run, held
  <2> QED
    BY <2>1, <2>2
<1>3. hand.decl \in Declarations /\ runs \in 1..MaxRuns /\ "onboard" \in pending /\ entry.stage # "none"
  BY <1>1, HandOf, HandHasJob, BoundsOfSources DEF KnobsInv, KnobsTyped, K!KnTypeOK, OneRunPerJob, NothingOfNone
<1>4. run \in Raws /\ run.run = runs /\ run.lang \in Langs
  <2>1. /\ K!FolderOf(hand.decl, held) \in RawFolders /\ hand.decl.lang \in Langs
        /\ K!FingerprintOf(hand.decl) \in RawPrints
    BY <1>3, DeclarationsAre DEF Declarations, Langs, RawPrints
  <2> QED
    <3> DEFINE f == K!FolderOf(hand.decl, held)
               fp == K!FingerprintOf(hand.decl)
               l == hand.decl.lang
    <3>1. f \in RawFolders /\ fp \in RawPrints /\ l \in Langs /\ runs \in Nat
      BY <1>3, <2>1
    <3>2. run = [K!NoRaw EXCEPT !.run = runs, !.folder = f, !.print = fp, !.verdict = verdict, !.lang = l]
      OBVIOUS
    <3> HIDE DEF f, fp, l, run
    <3> QED
      BY <3>1, <3>2, NoneAre DEF Raws
<1> HIDE DEF run, held
<1>5. /\ took \in Entries /\ WellRun(took, runs) /\ took.decl = entry.decl /\ took.indexed = entry.indexed
      /\ took.active = entry.active /\ took.stage = (IF entry.stage = "accepted" THEN "accepted" ELSE "raw")
  BY <1>3, <1>4, TakenOf
<1> HIDE DEF took
<1>6. /\ entry' \in Entries /\ WellRun(entry', runs) /\ entry'.decl = entry.decl /\ entry'.active = entry.active
      /\ entry'.stage # "none" /\ (entry.stage = "accepted" => entry'.stage = "accepted")
      /\ entry.stage = "raw" => entry'.stage \in {"raw", "accepted"}
      /\ entry'.indexed \in {entry.indexed, K!Replaced} /\ (entry'.indexed = K!Uncut <=> entry.indexed = K!Uncut)
  <2>1. CASE entry' = entry
    BY <1>3, <2>1 DEF KnobsInv, KnobsTyped
  <2>2. CASE entry' = took
    BY <1>5, <2>2
  <2>3. CASE entry' = K!Promoted(took) /\ (took.stage = "raw" \/ K!Waits(took))
    <3>1. runs \in Nat
      BY <1>3
    <3>2. /\ entry' \in Entries /\ WellRun(entry', runs) /\ entry'.stage = "accepted" /\ entry'.decl = took.decl
          /\ entry'.active = took.active /\ entry'.indexed = (IF took.indexed = K!Uncut THEN K!Uncut ELSE K!Replaced)
      BY <1>5, <2>3, <3>1, PromotedOf
    <3> QED
      BY <1>5, <3>2, DeclarationsAre
  <2> QED
    BY <1>2, <2>1, <2>2, <2>3
<1>7. KnobsTyped'
  <2>1. entry'.active => entry'.stage = "accepted"
    BY <1>6 DEF KnobsInv, KnobsTyped, K!KnTypeOK
  <2>2. entry'.stage \in {"none", "declared", "raw", "accepted"}
    BY <1>6 DEF Entries
  <2> QED
    BY <1>1, <1>6, <2>1, <2>2 DEF KnobsInv, KnobsTyped, K!KnTypeOK, Hands
<1>8. WellRun(entry, runs)' /\ OneRunPerJob' /\ NothingOfNone' /\ RequestStands'
  BY <1>1, <1>6 DEF KnobsInv, WellRun, OneRunPerJob, NothingOfNone, RequestStands, MayWrite
<1>9. K!DeclaredIsReadable' /\ K!ReadUnderOne' /\ K!MarkTells' /\ K!CutAsGuessed'
  BY <1>1, <1>3, <1>6 DEF KnobsInv, K!DeclaredIsReadable, K!ReadUnderOne, K!MarkTells, K!CutAsGuessed
<1> QED
  BY <1>7, <1>8, <1>9 DEF KnobsInv

LEMMA KnobsIndexes ==
  ASSUME KnobsInv, K!Indexes
  PROVE  KnobsInv'
<1>1. /\ hand.at = "index" /\ hand' = [at |-> "idle"] /\ pending' = pending \ {"index"}
      /\ UNCHANGED <<auto, request, turns, runs, rounds>>
  BY DEF K!Indexes, K!Ends, K!Idle
<1>2. /\ hand.decl \in Declarations /\ ("index" \notin met => K!Rules(hand.decl) = K!Rules(entry.decl)) /\ entry \in Entries /\ entry.decl \in Declarations
      /\ entry.stage # "none"
  BY <1>1, HandOf, HandHasJob DEF KnobsInv, KnobsTyped, K!ReadUnderOne, Entries, NothingOfNone
<1>3. hand.decl.lang \in Langs /\ K!Rules(hand.decl) \in Digests /\ K!Rules(hand.decl) # K!Uncut
  BY <1>2, DeclarationsAre DEF Declarations, Langs
<1>4. /\ entry' \in Entries /\ entry'.stage = entry.stage /\ entry'.raw = entry.raw /\ entry'.cand = entry.cand
      /\ entry'.decl = entry.decl /\ entry'.active = entry.active
      /\ \/ /\ entry'.indexed = K!Rules(hand.decl) /\ searched' = K!Rules(hand.decl)
            /\ met' = (IF "index" \in met THEN (met \ {"index"}) \cup {"cut"} ELSE met \ {"cut"})
         \/ entry'.indexed = entry.indexed /\ searched' = searched /\ met' = met \ {"index"}
  <2>1. CASE entry.stage = "accepted"
    <3>1. /\ searched' = K!Rules(hand.decl) /\ entry' = [entry EXCEPT !.indexed = K!Rules(hand.decl), !.lang = hand.decl.lang]
          /\ met' = (IF "index" \in met THEN (met \ {"index"}) \cup {"cut"} ELSE met \ {"cut"})
      BY <2>1 DEF K!Indexes
    <3> QED
      BY <1>2, <1>3, <3>1 DEF Entries
  <2>2. CASE entry.stage # "accepted"
    BY <1>2, <2>2 DEF K!Indexes
  <2> QED
    BY <2>1, <2>2
<1>5. KnobsTyped'
  BY <1>1, <1>2, <1>3, <1>4 DEF KnobsInv, KnobsTyped, K!KnTypeOK, Hands
<1>6. WellRun(entry, runs)' /\ OneRunPerJob' /\ NothingOfNone'
  BY <1>1, <1>2, <1>4 DEF KnobsInv, WellRun, OneRunPerJob, NothingOfNone
<1>8. RequestStands'
  <2>1. "index" \in pending
    BY <1>1, HandHasJob
  <2> SUFFICES ASSUME request' # K!NoRequest
               PROVE  MayWrite(request)'
    BY DEF RequestStands
  <2>2. request' = request /\ MayWrite(request) /\ request.decl \in Declarations
    BY <1>1 DEF KnobsInv, RequestStands, KnobsTyped, Requests
  <2>3. searched' # K!Uncut /\ "cut" \notin met' => request.decl.lang = entry.decl.lang /\ request.decl.cats = entry.decl.cats
    BY <1>2, <1>4, <2>1, <2>2, DeclarationsAre DEF MayWrite
  <2> QED
    BY <1>1, <1>4, <2>2, <2>3 DEF MayWrite
<1>7. K!DeclaredIsReadable' /\ K!ReadUnderOne' /\ K!MarkTells' /\ K!CutAsGuessed'
  BY <1>1, <1>2, <1>3, <1>4, DeclarationsAre
     DEF KnobsInv, K!DeclaredIsReadable, K!ReadUnderOne, K!MarkTells, K!CutAsGuessed
<1> QED
  BY <1>5, <1>6, <1>7, <1>8 DEF KnobsInv

LEMMA KnobsStep ==
  ASSUME KnobsInv, [K!KnNext]_knobs
  PROVE  KnobsInv'
<1>1. CASE UNCHANGED knobs
  BY <1>1 DEF knobs, KnobsInv, RequestStands, MayWrite, KnobsTyped, WellRun, OneRunPerJob, NothingOfNone, K!KnTypeOK, K!DeclaredIsReadable,
              K!ReadUnderOne, K!MarkTells, K!CutAsGuessed
<1>2. CASE K!KnNext
  <2>1. ASSUME NEW o \in SUBSET K!Origins, NEW site \in {K!None, "r1", "r2"},
               K!Declares(K!Declared(o, site, {"new"}))
        PROVE  KnobsInv'
    BY <2>1, KnobsDeclares
  <2>2. ASSUME NEW rt \in 0..1, NEW settings \in 0..1, K!SetIntake(rt, settings)
        PROVE  KnobsInv'
    BY <2>2, KnobsSetIntake
  <2>3. ASSUME NEW lang \in {"en", "ru"}, NEW cats \in SUBSET K!Categories, K!SetGuessed(lang, cats)
        PROVE  KnobsInv'
    BY <2>3, KnobsSetGuessed
  <2>4. ASSUME NEW kind \in {"onboard", "index"}, K!Asks(kind) \/ K!Takes(kind)
        PROVE  KnobsInv'
    BY <2>4, KnobsAsks, KnobsTakes
  <2>5. ASSUME NEW verdict \in {"ok", "bad"}, K!Onboards(verdict)
        PROVE  KnobsInv'
    BY <2>5, KnobsOnboards
  <2>6. ASSUME NEW block \in {<<0, 0>>, <<1, 0>>, <<0, 1>>}, K!SetIntake(block[1], block[2])
        PROVE  KnobsInv'
    BY <2>2, <2>6
  <2> QED
    BY <1>2, <2>1, <2>3, <2>4, <2>5, <2>6, KnobsSetKnobField, KnobsAccepts, KnobsActivates, KnobsRemovesVariant, KnobsCommits,
       KnobsIndexes DEF K!KnNext
<1> QED
  BY <1>1, <1>2

LEMMA KnobsStand ==
  ASSUME KnobsInv
  PROVE  K!KnobsHold
<1>1. ASSUME K!NextStep = "accept"
      PROVE  ~K!AcceptRefused(entry, pending, FALSE)
  BY <1>1 DEF KnobsInv, WellRun, K!NextStep, K!AcceptRefused, K!Waits, K!Review
<1>2. K!NextStep = "activate" => ~K!ActiveRefused(entry, TRUE)
  BY DEF KnobsInv, KnobsTyped, Entries, WellRun, NothingOfNone, K!NextStep, K!ActiveRefused
<1>3. K!NextStep \in {"index", "nothing"} => entry.stage \in {"none", "accepted"}
  BY DEF KnobsInv, KnobsTyped, Entries, K!NextStep
<1> QED
  BY <1>1, <1>2, <1>3 DEF K!KnobsHold, K!BoardIsHonest, KnobsInv, KnobsTyped

-----------------------------------------------------------------------------
SourcesInv == OnboardInv /\ IntakeInv /\ SupervisorInv /\ KnobsInv

(* The four parts together, whichever a behavior is of. *)
THEOREM SourcesInductive == SourcesSpec => []SourcesInv
<1>1. SourcesInit => SourcesInv
  BY OnboardInit, IntakeInit, SupervisorInit, KnobsInit DEF SourcesInit, SourcesInv
<1>2. SourcesInv /\ [SourcesNext]_all => SourcesInv'
  BY StepOfSources, OnboardStep, IntakeStep, SupervisorStep, KnobsStep DEF SourcesInv
<1> QED
  BY <1>1, <1>2, PTL DEF SourcesSpec

(* job_handlers/onboard.py, use_cases/source_intake.py, job_handlers/index.py: a report is of one version of *)
(* its files but for a piece a death tore, chunks and an accepted folder are of one run while no writer acted *)
(* on an old look, and a mark, a declaration and a board say what they were cut by and what a door will do,   *)
(* but for a job queued between a door's look and its commit.                                                *)
THEOREM SourcesStand == SourcesSpec => []FoldersHold
<1>1. SourcesInv => FoldersHold
  BY IntakeHolds, SupervisorHolds, KnobsStand DEF SourcesInv, OnboardInv, FoldersHold
<1> QED
  BY <1>1, SourcesInductive, PTL

(* converters/supervisor.py: with one child and no two stops at once, free is said of an empty card only, a *)
(* child beyond a kill included.                                                                            *)
THEOREM FreeIsEmpty == SourcesSpec => []FreeUnlessCrossed
<1>1. SourcesInv => FreeUnlessCrossed
  BY SupervisorHolds DEF SourcesInv, FreeUnlessCrossed
<1> QED
  BY <1>1, SourcesInductive, PTL

(* job_handlers/onboard.py: an attempt that stops, save by a death, leaves its record on disk, and after a *)
(* cancel begins no piece.                                                                                  *)
THEOREM PiecesAreKept == SourcesSpec => StopsKeepPieces
<1>1. ASSUME [SourcesNext]_all
      PROVE  [(Handler /\ at' = "idle") => record' = rec]_ovars
  BY DEF Handler, Begins, KeepsPiece, ChecksPiece, Stops, ReadsPiece, Raises, ReadsAll, Finishes
<1>2. ASSUME [SourcesNext]_all
      PROVE  [job = "cancelled" => ~(at = "pieces" /\ at' = "reading")]_ovars
  <2>1. ASSUME Next
        PROVE  job = "cancelled" => ~(at = "pieces" /\ at' = "reading")
    BY <2>1 DEF Next, Handler, Begins, KeepsPiece, ChecksPiece, Stops, Looks, ReadsPiece, Raises, ReadsAll, Finishes, Dies,
                Edits, Cancels, Asks, SetsKnobs, attempt
  <2> QED
    BY <1>2, <2>1, StepOfSources
<1> QED
  BY <1>1, <1>2, PTL DEF SourcesSpec, StopsKeepPieces, StopsLoseNothing, CancelBeginsNothing

=============================================================================
