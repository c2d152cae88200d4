------------------------------- MODULE Knobs --------------------------------
(***************************************************************************)
(* What a source is read by: its declaration, the knobs and the guessed    *)
(* fields the doors set on its row, the run an onboarding reads under them, *)
(* the cut an index makes of it with the mark it leaves.  A request that   *)
(* sets a field looks, and commits in a later step: while one is past its   *)
(* look the jobs and the other doors go on, each of those in one step (the  *)
(* doors that accept and replace a run are split in Intake).  The one lane  *)
(* takes its jobs in turn.  Folders and their removal are in Intake.        *)
(* Sources:                                                                 *)
(* app/sources/declaration.py, app/sources/files.py,                        *)
(* app/use_cases/source_intake.py, app/use_cases/intake_board.py,           *)
(* app/job_handlers/onboard.py, app/job_handlers/index.py.                  *)
(***************************************************************************)
EXTENDS Naturals, FiniteSets, Sequences

CONSTANTS
  Limit,      \* intake.quality.agent_knob_rounds
  MaxTurns,   \* bound of the model: commits of the doors that set a field
  MaxRuns     \* bound of the model: onboardings

VARIABLES
  row,        \* the source's row
  auto,       \* intake.quality.auto_accept_ok
  jobs, lane, \* jobs queued or running that name the source, the one in hand
  chunks,     \* the rules the searched variant's chunks were cut by
  request,    \* a request past its look: the columns it will write
  turns, runs,
  rounds,     \* ghost: the runs that met a knob turned after them
  met         \* ghost: the jobs queued while a request was past its look, "cut" for the chunks such an index left

knvars == <<row, auto, jobs, lane, chunks, request, turns, runs, rounds, met>>

None == "none"
(* the mark of a variant: none, the digest of the rules it was cut by, or that its run was replaced *)
Uncut == <<>>
Replaced == <<"replaced">>
(* one category of the map lists the release a site may name; "old" lists none *)
Categories == {"new", "old"}
Listed(cat) == IF cat = "new" THEN {"r1"} ELSE {}

(* a declaration, by what the doors and the index tell apart: where it comes from, the fields that may be *)
(* set in place (skip_paths and its like; the guessed language and categories) and the intake block       *)
Origins == {"git", "pages"}
Declared(origins, site, cats) ==
  [origins |-> origins, site |-> site, cats |-> cats, lang |-> "en", skip |-> 0, route |-> 0, settings |-> 0]
(* Declaration's validators: exactly one origin, and site settings are of pages *)
OneOrigin(d) == Cardinality(d.origins) = 1 /\ (d.site # None => d.origins = {"pages"})
(* index_refusal: categories of the map, several only with a rule for their files, a release its one category lists *)
Readable(d) ==
  /\ d.cats \subseteq Categories /\ Cardinality(d.cats) <= 1
  /\ d.site # None => \E cat \in Categories : d.cats = {cat} /\ d.site \in Listed(cat)
Valid(d) == OneOrigin(d) /\ Readable(d)
(* cut_rules: what decides the cut; the intake block does not *)
Rules(d) == <<d.lang, d.cats, d.skip>>
(* the fingerprint of a run, and its folder: by the settings alone until a source is accepted *)
FingerprintOf(d) == <<d.settings, d.route, d.skip>>
FolderOf(d, accepted) == IF accepted THEN <<d.settings, FingerprintOf(d)>> ELSE <<d.settings>>

NoRaw == [run |-> 0, folder |-> <<>>, print |-> <<>>, verdict |-> None, lang |-> None,
          tried |-> {}]
NoRow == [stage |-> "none", decl |-> Declared({}, None, {}), lang |-> None, raw |-> NoRaw, cand |-> NoRaw,
          indexed |-> Uncut, active |-> FALSE]
Idle == [at |-> "idle"]
NoRequest == [decl |-> Declared({}, None, {}), lang |-> None, raw |-> NoRaw, cand |-> NoRaw]
KnInit ==
  /\ row = NoRow /\ auto \in BOOLEAN /\ jobs = {} /\ lane = Idle /\ chunks = Uncut
  /\ request = NoRequest /\ turns = 0 /\ runs = 0 /\ rounds = {} /\ met = {}

(* declare: a name once, nothing of it searched before it is accepted *)
Declares(d) ==
  /\ row.stage = "none" /\ Valid(d)
  /\ row' = [NoRow EXCEPT !.stage = "declared", !.decl = d, !.lang = d.lang]
  /\ UNCHANGED <<auto, jobs, lane, chunks, request, turns, runs, rounds, met>>

-----------------------------------------------------------------------------
(* The doors *)
Review(r) == IF r.cand # NoRaw THEN r.cand ELSE r.raw
Waits(r) == r.stage = "accepted" /\ r.cand # NoRaw
(* knob_refusal: the rounds are the runs' folders the knobs were noted against *)
KnobsLeft(r) == r.raw.folder \in r.raw.tried \/ Cardinality(r.raw.tried) < Limit
(* _note_knob *)
Noted(raw) == IF raw = NoRaw THEN raw ELSE [raw EXCEPT !.tried = @ \cup {raw.folder}]
AcceptRefused(r, pending, reason) ==
  \/ r.stage # "raw" /\ ~Waits(r)
  \/ "onboard" \in pending
  \/ Waits(r) /\ "index" \in pending
  \/ Review(r).verdict = "bad" /\ ~reason
(* promote: the run under review is the row's, every cut reads as moved *)
Promoted(r) ==
  LET took == Review(r)
  IN  [r EXCEPT !.stage = "accepted", !.cand = NoRaw, !.lang = IF took.lang = None THEN @ ELSE took.lang,
                !.raw = took, !.indexed = IF @ = Uncut THEN Uncut ELSE Replaced]
ActiveRefused(r, on) == on /\ r.stage # "accepted"

Puts(new) ==
  /\ row.stage # "none" /\ row' = new
  /\ UNCHANGED <<auto, jobs, lane, chunks, request, turns, runs, rounds, met>>
(* what a request leaves for its commit: the declaration whole, the language where it moved, and the runs *)
(* the row had at the look, told of the knob                                                              *)
Asked(decl, lang, knob) ==
  [decl |-> decl, lang |-> IF lang = row.lang THEN None ELSE lang,
   raw |-> IF knob THEN Noted(row.raw) ELSE NoRaw, cand |-> IF knob THEN row.cand ELSE NoRaw]
Written(q) == [row EXCEPT !.decl = q.decl, !.lang = IF q.lang = None THEN @ ELSE q.lang,
                          !.raw = IF q.raw = NoRaw THEN @ ELSE q.raw,
                          !.cand = IF q.raw = NoRaw THEN @ ELSE q.cand]
Write(q) ==
  /\ row' = Written(q) /\ rounds' = (IF q.raw = NoRaw THEN rounds ELSE rounds \cup {q.raw.run})
  /\ UNCHANGED <<auto, jobs, lane, chunks, runs, met>>
(* one request at a time is past its look, and what overlaps it is looked at and written in its midst *)
Sets(q) ==
  /\ row.stage # "none" /\ turns < MaxTurns /\ turns' = turns + 1
  /\ IF request = NoRequest
     THEN request' = q /\ UNCHANGED <<row, auto, jobs, lane, chunks, runs, rounds, met>>
     ELSE Write(q) /\ UNCHANGED request
Commits == request # NoRequest /\ Write(request) /\ request' = NoRequest /\ UNCHANGED turns
(* set_intake: not under an onboarding, within the rounds *)
SetIntake(route, settings) ==
  /\ "onboard" \notin jobs /\ KnobsLeft(row)
  /\ <<route, settings>> # <<row.decl.route, row.decl.settings>>
  /\ Sets(Asked([row.decl EXCEPT !.route = route, !.settings = settings], row.lang, TRUE))
(* set_fields: not under an onboarding or an index; a guessed field only before the first cut *)
SetKnobField(skip) ==
  /\ jobs \cap {"onboard", "index"} = {} /\ KnobsLeft(row) /\ skip # row.decl.skip
  /\ LET d == [row.decl EXCEPT !.skip = skip]
     IN  Valid(d) /\ Sets(Asked(d, d.lang, TRUE))
(* mutant: what was guessed is mended after the cut too *)
MayGuessAlways == TRUE
MayGuess == row.indexed = Uncut
SetGuessed(lang, cats) ==
  /\ jobs \cap {"onboard", "index"} = {} /\ MayGuess
  /\ LET d == [row.decl EXCEPT !.lang = lang, !.cats = cats]
     IN  d # row.decl /\ Valid(d) /\ Sets(Asked(d, lang, FALSE))
Accepts(reason) == ~AcceptRefused(row, jobs, reason) /\ Puts(Promoted(row))
Activates(on) == ~ActiveRefused(row, on) /\ on # row.active /\ Puts([row EXCEPT !.active = on])

(* remove_variant: not under a job that reads the variant *)
RemovesVariant ==
  /\ chunks # Uncut /\ "index" \notin jobs
  /\ chunks' = Uncut /\ row' = [row EXCEPT !.indexed = Uncut] /\ met' = met \ {"cut"}
  /\ UNCHANGED <<auto, jobs, lane, request, turns, runs, rounds>>

-----------------------------------------------------------------------------
(* The lane *)
Asks(kind) ==
  /\ row.stage # "none" /\ kind \notin jobs /\ jobs' = jobs \cup {kind}
  /\ kind = "onboard" => runs < MaxRuns
  /\ met' = IF request = NoRequest THEN met \ {kind} ELSE met \cup {kind}
  /\ UNCHANGED <<row, auto, lane, chunks, request, turns, runs, rounds>>
(* a job reads the declaration, and the run it finds on the row, as it starts *)
Takes(kind) ==
  /\ lane.at = "idle" /\ kind \in jobs
  /\ lane' = [at |-> kind, decl |-> row.decl, stage |-> row.stage]
  /\ runs' = IF kind = "onboard" THEN runs + 1 ELSE runs
  /\ UNCHANGED <<row, auto, jobs, chunks, request, turns, rounds, met>>
Ends(kind) == lane.at = kind /\ lane' = Idle /\ jobs' = jobs \ {kind}

(* take_run: beside an accepted run, else the row's own, with the knobs tried; accepted when it is ok and the stand says *)
Taken(run) ==
  IF row.stage = "accepted" THEN [row EXCEPT !.cand = run]
  ELSE [row EXCEPT !.stage = "raw", !.lang = run.lang, !.raw = [run EXCEPT !.tried = row.raw.tried]]
Onboards(verdict) ==
  /\ Ends("onboard")
  /\ LET accepted == lane.stage = "accepted"
         run == [NoRaw EXCEPT !.run = runs, !.folder = FolderOf(lane.decl, accepted), !.print = FingerprintOf(lane.decl),
                              !.verdict = verdict, !.lang = lane.decl.lang]
         took == Taken(run)
         pending == IF took.stage = "accepted" THEN jobs \cap {"index"} ELSE {}
     IN  row' = IF accepted /\ row.raw.print = run.print THEN row
                ELSE IF verdict = "ok" /\ auto /\ ~AcceptRefused(took, pending, FALSE) THEN Promoted(took)
                ELSE took
  /\ met' = met \ {"onboard"}
  /\ UNCHANGED <<auto, chunks, request, turns, runs, rounds>>
(* collect_data: a source that is not accepted is refused; the mark is the digest of the rules it was cut by *)
Indexes ==
  /\ Ends("index")
  /\ IF row.stage = "accepted"
     THEN /\ chunks' = Rules(lane.decl) /\ row' = [row EXCEPT !.indexed = Rules(lane.decl), !.lang = lane.decl.lang]
          /\ met' = IF "index" \in met THEN (met \ {"index"}) \cup {"cut"} ELSE met \ {"cut"}
     ELSE met' = met \ {"index"} /\ UNCHANGED <<chunks, row>>
  /\ UNCHANGED <<auto, request, turns, runs, rounds>>
KnNext ==
  \/ \E o \in SUBSET Origins, site \in {None, "r1", "r2"} :
       (site = None => o # {"pages"}) /\ Declares(Declared(o, site, {"new"}))
  \/ \E block \in {<<0, 0>>, <<1, 0>>, <<0, 1>>} : SetIntake(block[1], block[2])
  \/ \E skip \in 0..1 : SetKnobField(skip)
  \/ \E lang \in {"en", "ru"}, cats \in SUBSET Categories \ {{}} : SetGuessed(lang, cats)
  \/ \E reason \in BOOLEAN : Accepts(reason)
  \/ \E on \in BOOLEAN : Activates(on)
  \/ RemovesVariant \/ Commits
  \/ \E kind \in {"onboard", "index"} : Asks(kind) \/ Takes(kind)
  \/ \E verdict \in {"ok", "bad"} : Onboards(verdict) \* a dirty run is accepted as an ok one is, by a person only
  \/ Indexes
KnSpec == KnInit /\ [][KnNext]_knvars

-----------------------------------------------------------------------------
(* next_step of the board: whose turn it is, in the words of a door *)
NextStep ==
  IF jobs # {} THEN "queue"
  ELSE IF row.stage = "declared" THEN "onboard"
  ELSE IF row.stage = "raw" THEN IF row.raw.verdict = "ok" THEN "accept" ELSE "person"
  ELSE IF row.cand # NoRaw THEN "person"
  ELSE IF chunks = Uncut THEN "index"
  ELSE IF ~row.active THEN "activate" ELSE "nothing"

KnTypeOK ==
  /\ row.stage \in {"none", "declared", "raw", "accepted"} /\ jobs \subseteq {"onboard", "index"}
  /\ lane.at \in {"idle"} \cup jobs /\ turns \in 0..MaxTurns /\ runs \in 0..MaxRuns /\ rounds \subseteq 1..MaxRuns
  /\ met \subseteq {"onboard", "index", "cut"} /\ (row.active => row.stage = "accepted")

(* A declaration at rest is one the index reads, whichever fields the doors set one after another, *)
(* and one over another: the declaration is written whole.                                         *)
DeclaredIsReadable == row.stage # "none" => Valid(row.decl)

(* An onboarding and an index read one declaration from beginning to end, though a knob of the intake    *)
(* block may be set under an index: the look refuses a field under them, so only a job queued while a    *)
(* request was between its look and its commit may find the declaration moved under it.                  *)
ReadUnderOne == lane.at \in {"onboard", "index"} \ met =>
  Rules(lane.decl) = Rules(row.decl) /\ (lane.at = "onboard" => FingerprintOf(lane.decl) = FingerprintOf(row.decl))

(* The mark of a cut is the rules it was cut by, or says its run was replaced; so a declaration moved *)
(* since is told as moved. *)
MarkTells == (chunks = Uncut <=> row.indexed = Uncut) /\
  (chunks # Uncut => row.indexed \in {chunks, Replaced})

(* What was guessed at the declaration is mended before the cut only: the searched chunks carry the    *)
(* language and the categories the row declares, unless their index was queued while a request was     *)
(* between its look and its commit.                                                                    *)
CutAsGuessed == chunks # Uncut /\ "cut" \notin met => chunks[1] = row.decl.lang /\ chunks[2] = row.decl.cats

(* The board asks for a door that opens, and says nothing waits of a source in search. *)
BoardIsHonest ==
  /\ NextStep = "accept" => ~AcceptRefused(row, jobs, FALSE)
  /\ NextStep = "activate" => ~ActiveRefused(row, TRUE)
  /\ NextStep \in {"index", "nothing"} => row.stage \in {"none", "accepted"}

KnobsHold == KnTypeOK /\ DeclaredIsReadable /\ ReadUnderOne /\ MarkTells /\ CutAsGuessed /\ BoardIsHonest

(* Violated: "past the agent's rounds a person approves a new knob or refuses the source"            *)
(* (source_intake.py:157).  A round is counted by the folder of the run it met, and that folder is    *)
(* named by the settings files, or is the accepted run's: every run of one source is in the one round. *)
RoundsAreBounded == Cardinality(rounds) <= Limit
=============================================================================
