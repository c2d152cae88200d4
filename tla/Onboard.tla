------------------------------- MODULE Onboard -------------------------------
(***************************************************************************)
(* One raw folder and the onboard_source jobs that fill it: the pieces of  *)
(* a source read one at a time, the record that is their resume point, the *)
(* kept readings of the tool, faults, deaths and cancels on the way.       *)
(* Sources: app/job_handlers/onboard.py, app/use_cases/converting.py,      *)
(* app/worker.py.                                                          *)
(*                                                                         *)
(* A version stands for a file's hash and the settings it is read by, which*)
(* every row names; the route is named once, by the record.  A row keeps   *)
(* here the route it was really read under, which the code's row does not. *)
(* The origin is a fetched one: an attempt reads its own copy of the files. *)
(***************************************************************************)
EXTENDS Naturals, FiniteSets

CONSTANTS
  Pieces,       \* in the order they are read
  Routes,       \* the route rules the stand or the source's knobs may hold
  MaxVersion,   \* bound of the model: texts of the origin, which an edit may bring back
  MaxEdits,     \* bound of the model: edits of the origin and moves of the rules
  MaxAttempts,  \* MAX_ATTEMPTS of the worker
  MaxAsks,      \* bound of the model: onboardings asked for
  MaxHalts      \* bound of the model: faults, deaths and cancels

ASSUME OnboardAssumption ==
  /\ Pieces \subseteq Nat /\ Routes # {} /\ MaxVersion \in Nat \ {0} /\ MaxEdits \in Nat
  /\ MaxAttempts \in Nat \ {0} /\ MaxAsks \in Nat /\ MaxHalts \in Nat

VARIABLES
  version, route, edits,   \* the origin's files and the rules, as they are now
  job, fresh, tries, asks, \* the one onboard job of the source
  record, text,            \* on disk: record.json, and each piece's markdown
  kept,                    \* readings of the tool kept beside the folder
  torn,                    \* ghost: pieces whose text an attempt cut off left of another version than their row
  at, rec, same, reads, left, \* the attempt: place, its record, same_route, its version, pieces to go
  report,                  \* the rows and texts the last finished run was judged on
  stopped

origin  == <<version, route, edits>>
asked   == <<job, fresh, tries, asks>>
folder    == <<record, text, kept, torn>>
attempt == <<at, rec, same, reads, left>>
ovars   == <<origin, asked, folder, attempt, report, stopped>>

Versions == 1..MaxVersion
Reading == [version : Versions, route : Routes, whole : BOOLEAN]
None == [version |-> 0]
Record == [route : Routes \cup {"none"}, rows : [Pieces -> Reading \cup {None}]]
NoRecord == [route |-> "none", rows |-> [p \in Pieces |-> None]]
NoReport == [route |-> "none"]

TypeOK ==
  /\ version \in Versions /\ route \in Routes /\ edits \in 0..MaxEdits /\ torn \subseteq Pieces
  /\ job \in {"none", "new", "running", "done", "error", "cancelled"}
  /\ fresh \in BOOLEAN /\ tries \in 0..MaxAttempts /\ asks \in 0..MaxAsks
  /\ record \in Record /\ text \in [Pieces -> Reading \cup {None}]
  /\ kept \subseteq Pieces \X Versions
  /\ at \in {"idle", "pieces", "reading", "finishing"}
  /\ rec \in Record /\ same \in BOOLEAN /\ reads \in 0..MaxVersion /\ left \subseteq Pieces
  /\ (at = "idle" <=> reads = 0)
  /\ stopped \in 0..MaxHalts

Init ==
  /\ version = 1 /\ route \in Routes /\ edits = 0
  /\ job = "none" /\ fresh = FALSE /\ tries = 0 /\ asks = 0
  /\ record = NoRecord /\ text = [p \in Pieces |-> None] /\ kept = {} /\ torn = {}
  /\ at = "idle" /\ rec = NoRecord /\ same = FALSE /\ reads = 0 /\ left = {}
  /\ report = NoReport /\ stopped = 0

Halts == stopped < MaxHalts /\ stopped' = stopped + 1

(* the origin is edited upstream at any time, back to an earlier text too; knobs move while no attempt runs *)
Moves == edits < MaxEdits /\ edits' = edits + 1
Edits ==
  /\ Moves /\ version' \in Versions \ {version}
  /\ UNCHANGED <<route, asked, folder, attempt, report, stopped>>
SetsKnobs(r) ==
  /\ Moves /\ at = "idle" /\ r # route /\ route' = r
  /\ UNCHANGED <<version, asked, folder, attempt, report, stopped>>

(* the door refuses a second onboard while one waits or runs *)
Asks(anew) ==
  /\ job \notin {"new", "running"} /\ at = "idle" /\ asks < MaxAsks
  /\ job' = "new" /\ fresh' = anew /\ tries' = 0 /\ asks' = asks + 1
  /\ UNCHANGED <<origin, folder, attempt, report, stopped>>

Cancels ==
  /\ job \in {"new", "running"} /\ Halts
  /\ job' = "cancelled"
  /\ UNCHANGED <<origin, fresh, tries, asks, folder, attempt, report>>

-----------------------------------------------------------------------------
(* _set_up and _plan_run: the record is read back, and names the route at    *)
(* once, before any piece is read under it                                   *)
Begins ==
  /\ at = "idle" /\ job = "new" /\ job' = "running"
  /\ rec' = [record EXCEPT !.route = route]
  /\ same' = (record.route = route)
  /\ reads' = version /\ left' = Pieces /\ at' = "pieces"
  /\ UNCHANGED <<origin, fresh, tries, asks, folder, report, stopped>>

Next1 == CHOOSE p \in left : \A q \in left : p <= q

(* _kept, and the piece's markdown is in the folder; mutant: the file's hash is not compared *)
KeptOfAnyFile(p) == ~fresh /\ same /\ rec.rows[p] # None /\ rec.rows[p].whole /\ text[p] # None
Kept(p) == /\ ~fresh /\ same /\ rec.rows[p] # None
           /\ rec.rows[p].version = reads /\ rec.rows[p].whole /\ text[p] # None

StopsUnwritten == at' = "idle" /\ record' = record /\ rec' = NoRecord /\ same' = FALSE /\ reads' = 0 /\ left' = {}

(* the attempt's way out writes the record, whatever ends it *)
Stops == at' = "idle" /\ record' = rec /\ rec' = NoRecord /\ same' = FALSE /\ reads' = 0 /\ left' = {}

KeepsPiece ==
  /\ at = "pieces" /\ left # {} /\ Kept(Next1)
  /\ left' = left \ {Next1}
  /\ UNCHANGED <<origin, asked, folder, at, rec, same, reads, report, stopped>>

(* is_cancelled between two pieces *)
Looks == job = "cancelled"

ChecksPiece ==
  /\ at = "pieces" /\ left # {} /\ ~Kept(Next1)
  /\ IF Looks THEN Stops ELSE at' = "reading" /\ UNCHANGED <<record, rec, same, reads, left>>
  /\ UNCHANGED <<origin, asked, text, kept, torn, report, stopped>>

(* _read_unit: the tool's reading or a kept one, its markdown on disk at once *)
Readings(p) ==
  [version : {reads}, route : {rec.route}, whole : IF <<p, reads>> \in kept /\ ~fresh THEN {TRUE} ELSE BOOLEAN]
Writes(p, read) ==
  /\ text' = [text EXCEPT ![p] = read]
  /\ kept' = IF read.whole THEN kept \cup {<<p, reads>>} ELSE kept
(* its row in memory, and on disk too once 30 s have gone by *)
ReadsPiece ==
  LET p == Next1
  IN  /\ at = "reading"
      /\ \E read \in Readings(p) : Writes(p, read) /\ rec' = [rec EXCEPT !.rows[p] = read]
      /\ record' \in {record, rec'} /\ torn' = torn \ {p}
      /\ left' = left \ {p} /\ at' = "pieces"
      /\ UNCHANGED <<origin, asked, same, reads, report, stopped>>

Torn(rows, texts) == {p \in Pieces : rows[p] # None /\ rows[p].version # texts[p].version}

EndsInRetry ==
  LET worn == tries + 1 >= MaxAttempts
  IN  /\ job' = IF job = "cancelled" THEN job ELSE IF worn THEN "error" ELSE "new"
      /\ tries' = IF job = "cancelled" \/ worn THEN tries ELSE tries + 1
      /\ UNCHANGED <<fresh, asks>>

(* a piece that raises, before its text is on disk or after it, or a fault while the report is put together *)
Raises ==
  /\ at \in {"reading", "finishing"} /\ Halts
  /\ \/ UNCHANGED <<text, kept, torn>>
     \/ /\ at = "reading" /\ \E read \in Readings(Next1) : Writes(Next1, read)
        /\ torn' = Torn(rec.rows, text')
  /\ Stops /\ EndsInRetry
  /\ UNCHANGED <<origin, report>>

ReadsAll ==
  /\ at = "pieces" /\ left = {}
  /\ at' = "finishing" /\ record' = rec
  /\ UNCHANGED <<origin, asked, text, kept, torn, rec, same, reads, left, report, stopped>>

(* _assemble, the report and take_run *)
Finishes ==
  /\ at = "finishing"
  /\ report' = [route |-> rec.route, version |-> reads, rows |-> rec.rows, text |-> text, torn |-> torn]
  /\ job' = IF job = "cancelled" THEN job ELSE "done"
  /\ Stops
  /\ UNCHANGED <<origin, fresh, tries, asks, text, kept, torn, stopped>>

(* the worker's process dies: nothing is written on the way out *)
Dies ==
  /\ at # "idle" /\ Halts
  /\ job' = IF job = "cancelled" THEN job ELSE "new"
  /\ tries' = IF tries < MaxAttempts THEN tries + 1 ELSE tries
  /\ at' = "idle" /\ rec' = NoRecord /\ same' = FALSE /\ reads' = 0 /\ left' = {}
  /\ torn' = Torn(record.rows, text)
  /\ UNCHANGED <<origin, fresh, asks, record, text, kept, report>>

Handler == Begins \/ KeepsPiece \/ ChecksPiece \/ ReadsPiece \/ Raises \/ ReadsAll \/ Finishes
Next ==
  \/ Handler \/ Dies \/ Edits \/ Cancels
  \/ \E anew \in BOOLEAN : Asks(anew)
  \/ \E r \in Routes : SetsKnobs(r)
OnboardSpec == Init /\ [][Next]_ovars

-----------------------------------------------------------------------------
(* A finished run is judged on one version of its files: each row is of the  *)
(* version the run fingerprinted, whatever attempts, deaths and edits it took *)
(* to read them, and so is each piece's text, unless an attempt was cut off   *)
(* between the text and its row (onboard.py:114 and :408) and no attempt read *)
(* the piece again: the row of an earlier text still vouches for the file.    *)
ReportIsOfItsFiles ==
  report.route # "none" =>
    \A p \in Pieces : /\ report.rows[p].version = report.version
                      /\ p \notin report.torn => report.text[p].version = report.version

(* An attempt that stops, save by a death, leaves on disk every reading it   *)
(* took, so the retry reads none of those pieces again.                      *)
StopsLoseNothing ==
  [][(Handler /\ at' = "idle") => record' = rec]_ovars

(* After a cancel no piece is begun: the one in hand is the last.            *)
CancelBeginsNothing == [][job = "cancelled" => ~(at = "pieces" /\ at' = "reading")]_ovars

(* What a comment says and the code does not keep.                           *)
(* job_handlers/onboard.py:271: "the record's pieces were read under this    *)
(* route; a piece read under another is read again".                         *)
ReadUnderItsRoute ==
  report.route # "none" => \A p \in Pieces : report.rows[p].route = report.route
=============================================================================
