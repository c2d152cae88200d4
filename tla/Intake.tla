------------------------------- MODULE Intake -------------------------------
(***************************************************************************)
(* The row of one source, the folders its runs lie in and the chunks cut   *)
(* from them, between the accept and remove doors and the one lane that    *)
(* onboards and indexes.  A door looks, decides and commits in steps of its*)
(* own, and writes only the columns it changed.  Sources:                  *)
(* app/use_cases/source_intake.py, app/use_cases/index.py,                 *)
(* app/job_handlers/onboard.py, app/api/v1/source.py.                      *)
(***************************************************************************)
EXTENDS Naturals, FiniteSets

CONSTANTS
  MaxPrint,   \* bound of the model: fingerprints the origin goes through
  MaxRows,    \* bound of the model: rows ever made under the name
  MaxDeaths   \* bound of the model: deaths of the worker

VARIABLES
  print,    \* the fingerprint of the origin as it is now
  row,      \* the source's row: stage, the run it names, the run that waits, the digest of its cut
  rows,     \* rows made so far
  disk,     \* per raw folder the print its files are of, 0 for no folder
  chunks,   \* the prints the two halves of the cut were read from
  jobs,     \* onboard_source and index_data jobs queued or running
  lane,     \* the job in hand
  door,     \* the accept or remove request in flight
  deaths,
  raced     \* ghost: who wrote after what it had looked at moved

ivars == <<print, row, rows, disk, chunks, jobs, lane, door, deaths, raced>>

Prints == 1..MaxPrint
Folders == 0..MaxPrint       \* 0 is the folder of a raw source, the others are of a print
NoRun == [folder |-> 0, print |-> 0]
Run == [folder : Folders, print : 0..MaxPrint]
NoRow == [id |-> 0, stage |-> "none", run |-> NoRun, cand |-> NoRun, mark |-> "none"]
NewRow == [NoRow EXCEPT !.id = rows + 1, !.stage = "declared"]
Row == [id : 0..MaxRows, stage : {"none", "declared", "raw", "accepted"}, run : Run, cand : Run,
        mark : {"none", "current", "replaced"}]
Idle == [at |-> "idle"]

TypeOK ==
  /\ print \in Prints /\ row \in Row /\ rows \in 0..MaxRows /\ disk \in [Folders -> 0..MaxPrint]
  /\ chunks \in (0..MaxPrint) \X (0..MaxPrint) /\ jobs \subseteq {"onboard", "index"}
  /\ lane.at \in {"idle", "writing", "taking", "taken", "clearing", "provision", "opening", "closing", "cut", "replaced"}
  /\ door.at \in {"idle", "looked", "decided", "dropping", "removing", "removal", "sweeping"}
  /\ deaths \in 0..MaxDeaths /\ raced \subseteq {"accept", "index", "take", "sweep"}

Init ==
  /\ print = 1 /\ row = NoRow /\ rows = 0
  /\ disk = [f \in Folders |-> 0] /\ chunks = <<0, 0>>
  /\ jobs = {} /\ lane = Idle /\ door = Idle /\ deaths = 0 /\ raced = {}

(* an UPDATE of the columns a session changed since it read the row *)
Written(seen, new) ==
  [row EXCEPT !.run = new.run, !.cand = new.cand,
              !.stage = IF new.stage = seen.stage THEN @ ELSE new.stage,
              !.mark = IF new.mark = seen.mark THEN @ ELSE new.mark]

Waiting(r) == r.stage = "accepted" /\ r.cand # NoRun

MarkKept(r) == r.mark
Mark(r) == IF r.mark = "none" THEN "none" ELSE "replaced"
Promoted(r) == [r EXCEPT !.stage = "accepted", !.cand = NoRun, !.mark = Mark(r),
                         !.run = IF r.cand = NoRun THEN r.run ELSE r.cand]
(* the folder a promotion replaced *)
Earlier(r) == IF r.cand # NoRun /\ r.cand.folder # r.run.folder THEN {r.run.folder} ELSE {}

Cleared(folders) == [f \in Folders |-> IF f \in folders THEN 0 ELSE disk[f]]
(* drop_folder: not under an index of the source *)
MayDrop == "index" \notin jobs

-----------------------------------------------------------------------------
Moves ==
  /\ print < MaxPrint /\ print' = print + 1
  /\ UNCHANGED <<row, rows, disk, chunks, jobs, lane, door, deaths, raced>>
Declares ==
  /\ row.id = 0 /\ rows < MaxRows
  /\ row' = NewRow /\ rows' = rows + 1
  /\ UNCHANGED <<print, disk, chunks, jobs, lane, door, deaths, raced>>
AsksOnboard ==
  /\ row.id # 0 /\ "onboard" \notin jobs /\ jobs' = jobs \cup {"onboard"}
  /\ UNCHANGED <<print, row, rows, disk, chunks, lane, door, deaths, raced>>
AsksIndex ==
  /\ "index" \notin jobs /\ jobs' = jobs \cup {"index"}
  /\ UNCHANGED <<print, row, rows, disk, chunks, lane, door, deaths, raced>>

-----------------------------------------------------------------------------
Ends(kind) == jobs' = jobs \ {kind} /\ lane' = Idle

(* _set_up: the row as it is read now says where the run goes *)
FolderOf(r) == IF r.stage = "accepted" THEN print ELSE 0
OnboardBegins ==
  /\ lane.at = "idle" /\ "onboard" \in jobs
  /\ IF row.id = 0 \/ (row.stage = "accepted" /\ row.run.print = print)
     THEN Ends("onboard")
     ELSE /\ lane' = [at |-> "writing", id |-> row.id, run |-> [folder |-> FolderOf(row), print |-> print]]
          /\ UNCHANGED jobs
  /\ UNCHANGED <<print, row, rows, disk, chunks, door, deaths, raced>>
OnboardWrites ==
  /\ lane.at = "writing"
  /\ disk' = [disk EXCEPT ![lane.run.folder] = lane.run.print]
  /\ lane' = [lane EXCEPT !.at = "taking"]
  /\ UNCHANGED <<print, row, rows, chunks, jobs, door, deaths, raced>>

(* take_run on the row as it reads then: a run of its own, or one that waits *)
Taken(r, run) ==
  IF r.stage = "accepted" THEN [r EXCEPT !.cand = run] ELSE [r EXCEPT !.stage = "raw", !.run = run]
Gone(r, run) ==
  IF r.stage = "accepted" /\ r.cand # NoRun /\ r.cand.folder \notin {run.folder, r.run.folder}
  THEN {r.cand.folder} ELSE {}
OnboardTakes ==
  /\ lane.at = "taking"
  /\ IF row.id # lane.id
     THEN Ends("onboard")
     ELSE /\ \E promote \in (IF row.stage = "accepted" /\ "index" \in jobs THEN {FALSE} ELSE BOOLEAN) :
               LET taken == Taken(row, lane.run)
               IN  lane' = [at |-> "taken", id |-> lane.id, seen |-> row,
                            new |-> IF promote THEN Promoted(taken) ELSE taken,
                            gone |-> Gone(row, lane.run) \cup (IF promote THEN Earlier(taken) ELSE {})]
          /\ UNCHANGED jobs
  /\ UNCHANGED <<print, row, rows, disk, chunks, door, deaths, raced>>
OnboardCommits ==
  /\ lane.at = "taken"
  /\ IF row.id # lane.id
     THEN Ends("onboard") /\ UNCHANGED <<row, raced>>
     ELSE /\ row' = Written(lane.seen, lane.new)
          /\ raced' = raced \cup (IF row # lane.seen THEN {"take"} ELSE {})
          /\ lane' = [at |-> "clearing", gone |-> lane.gone]
          /\ UNCHANGED jobs
  /\ UNCHANGED <<print, rows, disk, chunks, door, deaths>>
OnboardClears ==
  /\ lane.at = "clearing"
  /\ disk' = (IF MayDrop THEN Cleared(lane.gone) ELSE disk) /\ Ends("onboard")
  /\ UNCHANGED <<print, row, rows, chunks, door, deaths, raced>>

-----------------------------------------------------------------------------
(* index_data: the accepted row's root, the row provisioned again, the cut *)
IndexBegins ==
  /\ lane.at = "idle" /\ "index" \in jobs
  /\ IF row.stage # "accepted" THEN Ends("index")
     ELSE lane' = [at |-> "provision", folder |-> row.run.folder] /\ UNCHANGED jobs
  /\ UNCHANGED <<print, row, rows, disk, chunks, door, deaths, raced>>
(* a row removed meanwhile is inserted anew, declared, and refused *)
IndexProvisions ==
  /\ lane.at = "provision"
  /\ IF row.id = 0
     THEN rows < MaxRows /\ row' = NewRow /\ rows' = rows + 1
     ELSE UNCHANGED <<row, rows>>
  /\ IF row.stage = "accepted"
     THEN lane' = [at |-> "opening", folder |-> lane.folder, id |-> row.id, first |-> 0] /\ UNCHANGED jobs
     ELSE Ends("index")
  /\ UNCHANGED <<print, disk, chunks, door, deaths, raced>>
IndexOpens ==
  /\ lane.at = "opening"
  /\ lane' = [lane EXCEPT !.at = "closing", !.first = disk[lane.folder]]
  /\ UNCHANGED <<print, row, rows, disk, chunks, jobs, door, deaths, raced>>
IndexCloses ==
  LET second == disk[lane.folder]
  IN  /\ lane.at = "closing"
      /\ IF lane.first = 0 /\ second = 0 THEN Ends("index")
         ELSE lane' = [at |-> "cut", id |-> lane.id, read |-> <<lane.first, second>>] /\ UNCHANGED jobs
      /\ UNCHANGED <<print, row, rows, disk, chunks, door, deaths, raced>>
(* chunks of a row that is gone break its foreign key *)
IndexReplaces ==
  /\ lane.at = "cut"
  /\ IF row.id # lane.id THEN Ends("index") /\ UNCHANGED chunks
     ELSE chunks' = lane.read /\ lane' = [at |-> "replaced", id |-> lane.id] /\ UNCHANGED jobs
  /\ UNCHANGED <<print, row, rows, disk, door, deaths, raced>>
IndexMarks ==
  /\ lane.at = "replaced"
  /\ row' = IF row.id = lane.id THEN [row EXCEPT !.mark = "current"] ELSE row
  /\ Ends("index")
  /\ UNCHANGED <<print, rows, disk, chunks, door, deaths, raced>>

(* the worker dies and its job is put back *)
Dies ==
  /\ lane.at # "idle" /\ deaths < MaxDeaths
  /\ lane' = Idle /\ deaths' = deaths + 1
  /\ UNCHANGED <<print, row, rows, disk, chunks, jobs, door, raced>>

-----------------------------------------------------------------------------
AcceptLooks ==
  /\ door.at = "idle" /\ row.id # 0
  /\ door' = [at |-> "looked", row |-> row]
  /\ UNCHANGED <<print, row, rows, disk, chunks, jobs, lane, deaths, raced>>
AcceptRefused(r) ==
  \/ r.stage # "raw" /\ ~Waiting(r)
  \/ "onboard" \in jobs
  \/ Waiting(r) /\ "index" \in jobs
AcceptDecides ==
  /\ door.at = "looked"
  /\ door' = IF AcceptRefused(door.row) THEN Idle ELSE [door EXCEPT !.at = "decided"]
  /\ UNCHANGED <<print, row, rows, disk, chunks, jobs, lane, deaths, raced>>
AcceptCommits ==
  /\ door.at = "decided"
  /\ IF row.id # door.row.id
     THEN door' = Idle /\ UNCHANGED <<row, raced>>
     ELSE /\ row' = Written(door.row, Promoted(door.row))
          /\ raced' = raced \cup (IF row # door.row \/ "onboard" \in jobs THEN {"accept"} ELSE {})
                           \cup (IF Waiting(door.row) /\ "index" \in jobs THEN {"index"} ELSE {})
          /\ door' = [at |-> "dropping", gone |-> Earlier(door.row)]
  /\ UNCHANGED <<print, rows, disk, chunks, jobs, lane, deaths>>
DropLooks ==
  /\ door.at = "dropping"
  /\ door' = IF MayDrop THEN [door EXCEPT !.at = "removing"] ELSE Idle
  /\ UNCHANGED <<print, row, rows, disk, chunks, jobs, lane, deaths, raced>>
DropRemoves ==
  /\ door.at = "removing"
  /\ disk' = Cleared(door.gone) /\ door' = Idle
  /\ UNCHANGED <<print, row, rows, chunks, jobs, lane, deaths, raced>>

RemoveLooks ==
  /\ door.at = "idle" /\ row.id # 0 /\ jobs = {}
  /\ door' = [at |-> "removal", id |-> row.id, own |-> {f \in Folders : disk[f] # 0}]
  /\ UNCHANGED <<print, row, rows, disk, chunks, jobs, lane, deaths, raced>>
RemoveDeletes ==
  /\ door.at = "removal"
  /\ row' = IF row.id = door.id THEN NoRow ELSE row
  /\ chunks' = IF row.id = door.id THEN <<0, 0>> ELSE chunks
  /\ door' = [door EXCEPT !.at = "sweeping"]
  /\ UNCHANGED <<print, rows, disk, jobs, lane, deaths, raced>>
RemoveSweeps ==
  /\ door.at = "sweeping"
  /\ disk' = Cleared(door.own) /\ door' = Idle
  /\ raced' = raced \cup (IF row.id # 0 THEN {"sweep"} ELSE {})
  /\ UNCHANGED <<print, row, rows, chunks, jobs, lane, deaths>>

Onboards == OnboardBegins \/ OnboardWrites \/ OnboardTakes \/ OnboardCommits \/ OnboardClears
Indexes == IndexBegins \/ IndexProvisions \/ IndexOpens \/ IndexCloses \/ IndexReplaces \/ IndexMarks
Accepts == AcceptLooks \/ AcceptDecides \/ AcceptCommits \/ DropLooks \/ DropRemoves
Removes == RemoveLooks \/ RemoveDeletes \/ RemoveSweeps
Next == Moves \/ Declares \/ AsksOnboard \/ AsksIndex \/ Onboards \/ Indexes \/ Dies \/ Accepts \/ Removes
IntakeSpec == Init /\ [][Next]_ivars

-----------------------------------------------------------------------------
(* While no writer acted on an old look at the row or at the onboard jobs,  *)
(* a source's chunks are all of one run, or there are none: no index, one   *)
(* asked for in the middle of an accept included, commits half of a folder  *)
(* that was taken away under it.                                            *)
CutIsWhole == raced \subseteq {"index"} => chunks[1] = chunks[2]

(* Under the same condition the folder an accepted row names holds the run  *)
(* that was accepted.                                                       *)
AcceptedOnDisk ==
  raced \subseteq {"index"} /\ row.stage = "accepted" => disk[row.run.folder] = row.run.print

(* While no writer acted on an old look, at an index of the source too, a   *)
(* variant whose digest reads as current was cut from the run the row names.*)
CurrentUnlessRaced ==
  raced = {} /\ row.mark = "current" /\ lane.at # "replaced" => chunks[1] = row.run.print

(* What a comment says and the code does not keep.                           *)
(* use_cases/source_intake.py:79: "a variant cut from the run this one       *)
(* replaces reads as moved until it is cut again".                           *)
ReplacedReadsMoved ==
  raced \subseteq {"index"} /\ row.mark = "current" /\ lane.at # "replaced" => chunks[1] = row.run.print
=============================================================================
