------------------------------- MODULE Convert -------------------------------
(***************************************************************************)
(* A convert_source job (job_handlers/convert.py): one file of the gold in *)
(* pieces, each read by a tool or taken from a kept reading, written as a  *)
(* part and then into the run's record, and joined when every part is      *)
(* there.  The job is asked again into the same folder after an end, a     *)
(* cancel or a death.  The plain arm and the intake arm differ in what a   *)
(* failed piece leaves.  Beside them an operator rebuilds the tool, moves  *)
(* the rules and changes the file.                                         *)
(***************************************************************************)
EXTENDS Naturals, FiniteSets

CONSTANTS Parts, MaxMoved, MaxRuns, MaxStops

VARIABLES
  arm,                     \* "plain", "intake"
  build, rules, source,    \* what the supervisor stamps, the settings and route say, the file holds
  moved,                   \* moves so far (bound)
  status, runs, stopsLeft, \* the job; times it was asked and deaths or faults (bounds)
  record, part, target,    \* on disk: record.json, each piece's markdown, the joined file
  cache,                   \* READINGS: key -> what was read
  at, mine, now, piece, key, got, bad,  \* the attempt: place, its record, configuration, piece in hand, failures
  shifted                  \* ghost: pieces read after the tool was rebuilt under the attempt
world == <<arm, build, rules, source, moved>>
asks  == <<status, runs, stopsLeft>>
disk  == <<record, part, target>>
attempt == <<at, mine, now, piece, key, got, bad>>
cvars == <<world, asks, disk, cache, attempt, shifted>>

Whole == {"success", "partial_success"}          \* KEPT_STATUSES
Ways == Whole \cup {"failure", "timeout"}
None == [build |-> 0, rules |-> 0, source |-> 0, status |-> "none"]
Reading == [build : 0..MaxMoved + 1, rules : 0..MaxMoved + 1, source : 0..2, status : Ways \cup {"none"}]
NoRecord == [build |-> 0, rules |-> 0, sha |-> 0, chunks |-> [p \in Parts |-> "none"]]
NoKey == [build |-> 0, rules |-> 0, source |-> 0, piece |-> CHOOSE p \in Parts : TRUE]

CTypeOK ==
  /\ arm \in {"plain", "intake"} /\ moved \in 0..MaxMoved
  /\ {build, rules} \subseteq 1..MaxMoved + 1 /\ source \in 1..2
  /\ status \in {"new", "running", "cancelled", "done", "error"}
  /\ runs \in 0..MaxRuns /\ stopsLeft \in 0..MaxStops
  /\ {record.chunks, mine.chunks} \subseteq [Parts -> Ways \cup {"none"}]
  /\ part \in [Parts -> Reading] /\ target \in [Parts -> Reading]
  /\ \A k \in cache : k.got \in Reading
  /\ at \in {"idle", "pieces", "card", "read", "written"} /\ bad \subseteq Parts
  /\ shifted \subseteq Parts

CInit ==
  /\ arm \in {"plain", "intake"}
  /\ build = 1 /\ rules = 1 /\ source = 1 /\ moved = 0
  /\ status = "new" /\ runs = 1 /\ stopsLeft = MaxStops
  /\ record = NoRecord /\ part = [p \in Parts |-> None] /\ target = [p \in Parts |-> None]
  /\ cache = {} /\ shifted = {}
  /\ at = "idle" /\ mine = NoRecord /\ now = None /\ piece = NoKey.piece /\ key = NoKey /\ got = None /\ bad = {}

Begun(r) == r.sha # 0
(* _kept: a piece's markdown is there and the record says it was read *)
Kept(r, p) == part[p] # None /\ r.chunks[p] \in Whole
ToDo == {p \in Parts : ~Kept(mine, p) /\ p \notin bad}
First == CHOOSE p \in ToDo : \A q \in ToDo : p <= q
(* _refuse_another_configuration *)
AnotherBuild(r) == Begun(r) /\ r.build # build
AnotherConfiguration(r) == Begun(r) /\ <<r.build, r.rules>> # <<build, rules>>
Rest(at_) == at' = at_ /\ UNCHANGED <<mine, now, piece, key, got, bad>>
Idles == at' = "idle" /\ mine' = NoRecord /\ now' = None /\ piece' = NoKey.piece /\ key' = NoKey /\ got' = None /\ bad' = {}

(* _convert_source up to the pieces: the record as the disk has it, under the configuration of now *)
Begins ==
  /\ at = "idle" /\ status = "new" /\ UNCHANGED <<world, runs, stopsLeft, disk, cache, shifted>>
  /\ IF AnotherConfiguration(record)
       THEN status' = "error" /\ UNCHANGED attempt
       ELSE /\ status' = "running" /\ at' = "pieces"
            /\ now' = [None EXCEPT !.build = build, !.rules = rules]
            /\ mine' = [record EXCEPT !.build = build, !.rules = rules, !.sha = IF @ = 0 THEN source ELSE @]
            /\ UNCHANGED <<piece, key, got, bad>>

(* _stopped is read before each piece *)
Stops ==
  /\ at = "pieces" /\ ToDo # {} /\ status = "cancelled"
  /\ record' = mine /\ Idles
  /\ UNCHANGED <<world, asks, part, target, cache, shifted>>

(* a tool rebuilt under the attempt leaves the piece's reading beside the record's build *)
Shifts(p) == shifted' = IF build # now.build THEN shifted \cup {p} ELSE shifted \ {p}

(* converting.convert: the key of the piece, and the reading kept under it; an unkept one waits for the card *)
Looks ==
  /\ at = "pieces" /\ ToDo # {} /\ status # "cancelled"
  /\ piece' = First
  /\ key' = [build |-> build, rules |-> now.rules, source |-> source, piece |-> First]
  /\ IF \E k \in cache : k.key = key'
       THEN /\ at' = "read" /\ got' = (CHOOSE k \in cache : k.key = key').got
            /\ Shifts(First)
       ELSE at' = "card" /\ UNCHANGED <<got, shifted>>
  /\ UNCHANGED <<world, asks, disk, cache, mine, now, bad>>

(* the tool's answer, a whole one kept under the key made before the card was taken *)
Reads ==
  /\ at = "card"
  /\ \E w \in Ways :
       /\ got' = [build |-> build, rules |-> now.rules, source |-> source, status |-> w]
       /\ cache' = IF w = "success" THEN cache \cup {[key |-> key, got |-> got']} ELSE cache
  /\ Shifts(piece)
  /\ at' = "read" /\ UNCHANGED <<world, asks, disk, mine, now, piece, key, bad>>

(* a piece of no markdown leaves no part, but for the intake arm, which writes it empty *)
WritesPart ==
  /\ at = "read"
  /\ part' = IF got.status \in Whole \/ arm = "intake" THEN [part EXCEPT ![piece] = got] ELSE part
  /\ at' = "written" /\ UNCHANGED <<world, asks, record, target, cache, mine, now, piece, key, got, bad, shifted>>
Records ==
  /\ at = "written"
  /\ mine' = [mine EXCEPT !.chunks[piece] = got.status]
  /\ bad' = IF got.status \in Whole THEN bad ELSE bad \cup {piece}
  /\ record' = mine'
  /\ at' = "pieces" /\ UNCHANGED <<world, asks, part, target, cache, now, piece, key, got, shifted>>

(* the join of whatever parts are there, the record, and Final for what failed *)
Joinable == \A p \in Parts : part[p] # None
Ends ==
  /\ at = "pieces" /\ ToDo = {}
  /\ target' = IF Joinable THEN part ELSE target
  /\ record' = mine
  /\ status' = IF status = "cancelled" THEN status ELSE IF bad # {} THEN "error" ELSE "done"
  /\ Idles /\ UNCHANGED <<world, runs, stopsLeft, part, cache, shifted>>

(* an adapter that raises ends the attempt with nothing written; the job is tried again *)
Raises ==
  /\ at = "card" /\ stopsLeft > 0 /\ stopsLeft' = stopsLeft - 1
  /\ status' = IF status = "cancelled" THEN status ELSE "new"
  /\ Idles /\ UNCHANGED <<world, runs, disk, cache, shifted>>
(* the worker's process dies *)
Dies ==
  /\ at # "idle" /\ stopsLeft > 0 /\ stopsLeft' = stopsLeft - 1
  /\ status' = IF status = "cancelled" THEN status ELSE "new"
  /\ Idles /\ UNCHANGED <<world, runs, disk, cache, shifted>>

(* a door: asked again into the same folder, or called off *)
AsksAgain ==
  /\ at = "idle" /\ status \in {"done", "error", "cancelled"} /\ runs < MaxRuns
  /\ status' = "new" /\ runs' = runs + 1
  /\ UNCHANGED <<world, stopsLeft, disk, cache, attempt, shifted>>
Cancels ==
  /\ status \in {"new", "running"} /\ status' = "cancelled"
  /\ UNCHANGED <<world, runs, stopsLeft, disk, cache, attempt, shifted>>
(* external: the tool's image is rebuilt, a setting or a rule edited, the file replaced and put back *)
Moves ==
  /\ moved < MaxMoved /\ moved' = moved + 1
  /\ \/ build' = build + 1 /\ UNCHANGED <<rules, source>>
     \/ rules' = rules + 1 /\ UNCHANGED <<build, source>>
     \/ source' = 3 - source /\ UNCHANGED <<build, rules>>
  /\ UNCHANGED <<arm, asks, disk, cache, attempt, shifted>>

CNext ==
  \/ Begins \/ Stops \/ Looks \/ Reads \/ WritesPart \/ Records \/ Ends \/ Raises
  \/ Dies \/ AsksAgain \/ Cancels \/ Moves

------------------------------------------------------------------------------
(* A piece the record counts as read was read under the configuration the  *)
(* record states (convert.py:48: "a resumed run is the same configuration  *)
(* or it is not resumed"), unless the tool was rebuilt under the attempt.  *)
KeptIsOfRecord ==
  \A p \in Parts :
    Kept(record, p) /\ p \notin shifted =>
      part[p].build = record.build /\ part[p].rules = record.rules
(* A job ends done only over pieces all read, joined as they are.          *)
DoneIsWhole ==
  status = "done" => \A p \in Parts : Kept(record, p) /\ target[p] = part[p]
(* A piece written and recorded is never read again, whatever ended the    *)
(* attempts after it.                                                      *)
KeptStays == [][\A p \in Parts : Kept(record, p) => part'[p] = part[p] /\ Kept(record, p)']_cvars
(* Violated: a piece of another configuration, left by a death before its  *)
(* record was written, is joined after the piece failed again.             *)
TargetIsOfRecord == \A p \in Parts : target[p] # None /\ p \notin shifted => target[p].rules = record.rules
(* Violated: the record's input_sha256 is the first attempt's and is never *)
(* compared with the file a resumed run reads.                             *)
PiecesOfOneInput == \A p \in Parts : Kept(record, p) => part[p].source = record.sha
(* Violated: a reading is kept under the key of the file hashed before the *)
(* wait for the card.                                                      *)
CacheIsOfItsKey == \A k \in cache : k.got.source = k.key.source
==============================================================================
