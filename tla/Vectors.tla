------------------------------- MODULE Vectors -------------------------------
(***************************************************************************)
(* Whose vectors a search meets.  The embedding role may be given to       *)
(* another model while an index job cuts a source batch by batch, while    *)
(* embed_questions fills the questions and while a search is under way.    *)
(* Source: use_cases/index.py, job_handlers/indexing.py, corpus_search.py, *)
(* bootstrap.py, llm.py (embed_labelled).                                  *)
(***************************************************************************)
EXTENDS Naturals

CONSTANTS
  Embedders,   \* models the embedding role may be given to
  Texts,       \* the chunks of the one source, each a batch of its own
  Questions,
  MaxMoves,    \* bound of the model: reassignments of the role
  MaxEdits,    \* bound of the model: chunks that change between two cuts
  MaxJobs,     \* bound of the model: jobs queued
  MaxSearches  \* bound of the model: searches begun

VARIABLES
  seated,     \* the model the embedding role holds
  moves, edits, queuedJobs, searches,
  files,      \* per text of the source its version
  stored,     \* per text the chunk committed: version, label and the model that made its vector
  cut,        \* the index job under way
  qvecs,      \* questions: label and maker of the vector
  fill,       \* the embed_questions job under way
  waiting,    \* embed_questions jobs in line
  find,       \* the search under way
  boot        \* the bootstrap under way

vvars == <<seated, moves, edits, queuedJobs, searches, files, stored, cut, qvecs, fill, waiting, find, boot>>
counts == <<moves, edits, queuedJobs, searches>>

None == "none"
Nothing == [ver |-> 0, by |-> None, made |-> None]
Blank == [by |-> None, made |-> None]
NoCut == [step |-> "idle", label |-> None, chunks |-> [t \in Texts |-> Nothing], reused |-> {}, moved |-> FALSE]
NoFill == [step |-> "idle", left |-> {}, moved |-> FALSE]
NoFind == [step |-> "idle", label |-> None, met |-> {}, raced |-> FALSE]

Models == Embedders \cup {None}
Chunk == [ver : 0..MaxEdits + 1, by : Models, made : Models]

VTypeOK ==
  /\ seated \in Embedders
  /\ moves \in 0..MaxMoves /\ edits \in 0..MaxEdits /\ queuedJobs \in 0..MaxJobs /\ searches \in 0..MaxSearches
  /\ files \in [Texts -> 1..MaxEdits + 1] /\ stored \in [Texts -> Chunk]
  /\ cut \in [step : {"idle", "embed"}, label : Models, chunks : [Texts -> Chunk],
              reused : SUBSET Texts, moved : BOOLEAN]
  /\ qvecs \in [Questions -> [by : Models, made : Models]]
  /\ fill \in [step : {"idle", "embed"}, left : SUBSET Questions, moved : BOOLEAN]
  /\ waiting \in 0..MaxJobs
  /\ find \in [step : {"idle", "asks", "reads", "done", "refused"}, label : Models,
               met : SUBSET Models, raced : BOOLEAN]
  /\ boot \in {None} \cup Embedders

VInit ==
  /\ seated \in Embedders /\ moves = 0 /\ edits = 0 /\ queuedJobs = 0 /\ searches = 0
  /\ files = [t \in Texts |-> 1] /\ stored = [t \in Texts |-> Nothing]
  /\ cut = NoCut /\ qvecs = [q \in Questions |-> Blank] /\ fill = NoFill
  /\ waiting = 0 /\ find = NoFind /\ boot = None

Held == {t \in Texts : stored[t] # Nothing}
Labels(chunks) == {chunks[t].by : t \in {u \in Texts : chunks[u] # Nothing}}
Mixed(chunks) == \E a, b \in Labels(chunks) : a # b

-----------------------------------------------------------------------------
(* PUT /v1/role, and a file of the source that changes *)
Seats(m) ==
  /\ m # seated /\ moves < MaxMoves
  /\ seated' = m /\ moves' = moves + 1
  /\ cut' = [cut EXCEPT !.moved = (cut.step # "idle")]
  /\ fill' = [fill EXCEPT !.moved = (fill.step # "idle")]
  /\ UNCHANGED <<edits, queuedJobs, searches, files, stored, qvecs, waiting, find, boot>>

Edits(t) ==
  /\ edits < MaxEdits /\ cut.step = "idle"
  /\ edits' = edits + 1 /\ files' = [files EXCEPT ![t] = @ + 1]
  /\ UNCHANGED <<seated, moves, queuedJobs, searches, stored, cut, qvecs, fill, waiting, find, boot>>

-----------------------------------------------------------------------------
(* index_data: the lane runs one job at a time.  A chunk whose text is      *)
(* unchanged keeps the vector the same embedder made of it.                 *)
LaneFree == cut.step = "idle" /\ fill.step = "idle"

Reusable(label) == {t \in Held : stored[t].ver = files[t] /\ stored[t].by = label}

CutBegins ==
  /\ LaneFree /\ queuedJobs < MaxJobs
  /\ queuedJobs' = queuedJobs + 1
  /\ LET reused == Reusable(seated)
     IN  cut' = [NoCut EXCEPT !.step = "embed", !.label = seated, !.reused = reused,
                 !.chunks = [t \in Texts |-> IF t \in reused THEN stored[t] ELSE Nothing]]
  /\ UNCHANGED <<seated, moves, edits, searches, files, stored, qvecs, fill, waiting, find, boot>>

(* one resolution gives the label and the vectors of the batch *)
Embedded(t) == [ver |-> files[t], by |-> seated, made |-> seated]
CutEmbeds(t) ==
  /\ cut.step = "embed" /\ cut.chunks[t] = Nothing
  /\ cut' = [cut EXCEPT !.chunks[t] = Embedded(t)]
  /\ UNCHANGED <<seated, counts, files, stored, qvecs, fill, waiting, find, boot>>

Whole == \A t \in Texts : cut.chunks[t] # Nothing
Fresh == Texts \ cut.reused
(* the check before the write; a StandFault ends the attempt with nothing written *)
MovedNever == FALSE
MovedUnder ==
  /\ cut.reused # {} /\ Fresh # {}
  /\ \E t, u \in Texts : cut.chunks[t].by # cut.chunks[u].by
MayWrite == cut.step = "embed" /\ Whole /\ ~MovedUnder
CutFails ==
  /\ cut.step = "embed" /\ (~Whole \/ MovedUnder)
  /\ cut' = NoCut
  /\ UNCHANGED <<seated, counts, files, stored, qvecs, fill, waiting, find, boot>>

CutWrites ==
  /\ MayWrite
  /\ stored' = cut.chunks /\ cut' = NoCut
  /\ find' = [find EXCEPT !.raced = (@ \/ find.step = "reads")]
  /\ UNCHANGED <<seated, counts, files, qvecs, fill, waiting, boot>>

-----------------------------------------------------------------------------
(* embed_questions, queued by several doors and by a bootstrap that finds   *)
(* none queued or running                                                   *)
Needs(q, label) == qvecs[q].by # label
Queues ==
  /\ queuedJobs < MaxJobs /\ queuedJobs' = queuedJobs + 1 /\ waiting' = waiting + 1
  /\ UNCHANGED <<seated, moves, edits, searches, files, stored, cut, qvecs, fill, find, boot>>

BootLooks ==
  /\ boot = None /\ queuedJobs < MaxJobs
  /\ \E q \in Questions : Needs(q, seated)
  /\ boot' = seated
  /\ UNCHANGED <<seated, counts, files, stored, cut, qvecs, fill, waiting, find>>
BootQueues ==
  /\ boot # None /\ boot' = None
  /\ IF waiting > 0 \/ fill.step # "idle" THEN UNCHANGED <<waiting, queuedJobs>>
     ELSE queuedJobs < MaxJobs /\ waiting' = waiting + 1 /\ queuedJobs' = queuedJobs + 1
  /\ UNCHANGED <<seated, moves, edits, searches, files, stored, cut, qvecs, fill, find>>

Pending(label) == {q \in Questions : Needs(q, label)}
FillBegins ==
  /\ LaneFree /\ waiting > 0 /\ waiting' = waiting - 1
  /\ fill' = [step |-> "embed", left |-> Pending(seated), moved |-> FALSE]
  /\ UNCHANGED <<seated, counts, files, stored, cut, qvecs, find, boot>>

FillEmbeds(q) ==
  /\ fill.step = "embed" /\ q \in fill.left
  /\ qvecs' = [qvecs EXCEPT ![q] = [by |-> seated, made |-> seated]]
  /\ fill' = [fill EXCEPT !.left = @ \ {q}]
  /\ UNCHANGED <<seated, counts, files, stored, cut, waiting, find, boot>>

FillEnds ==
  /\ fill.step = "embed" /\ fill.left = {}
  /\ fill' = NoFill
  /\ UNCHANGED <<seated, counts, files, stored, cut, qvecs, waiting, find, boot>>

(* a batch that fails or a process that dies: what was committed stays, the job comes again *)
FillFails ==
  /\ fill.step = "embed" /\ queuedJobs < MaxJobs
  /\ fill' = NoFill /\ waiting' = waiting + 1 /\ queuedJobs' = queuedJobs + 1
  /\ UNCHANGED <<seated, moves, edits, searches, files, stored, cut, qvecs, find, boot>>

-----------------------------------------------------------------------------
(* a search asks with a vector and its label, made now or kept on the       *)
(* question, checks the labels held and then reads, in two statements       *)
FindAsks ==
  /\ find.step = "idle" /\ searches < MaxSearches /\ Held # {}
  /\ searches' = searches + 1
  /\ \E label \in {seated} \cup ({qvecs[q].by : q \in Questions} \ {None}) :
       find' = [NoFind EXCEPT !.step = "asks", !.label = label]
  /\ UNCHANGED <<seated, moves, edits, queuedJobs, files, stored, cut, qvecs, fill, waiting, boot>>

ForeignToRole(label) == label # seated
Foreign(label) == Labels(stored) \ {label} # {}
FindChecks ==
  /\ find.step = "asks"
  /\ find' = [find EXCEPT !.step = IF Foreign(find.label) THEN "refused" ELSE "reads"]
  /\ UNCHANGED <<seated, counts, files, stored, cut, qvecs, fill, waiting, boot>>

FindReads ==
  /\ find.step = "reads"
  /\ find' = [find EXCEPT !.step = "done", !.met = {stored[t].made : t \in Held}]
  /\ UNCHANGED <<seated, counts, files, stored, cut, qvecs, fill, waiting, boot>>

FindEnds ==
  /\ find.step \in {"done", "refused"} /\ find' = NoFind
  /\ UNCHANGED <<seated, counts, files, stored, cut, qvecs, fill, waiting, boot>>

Finds == FindAsks \/ FindChecks \/ FindReads \/ FindEnds
Cuts == CutBegins \/ CutFails \/ CutWrites \/ \E t \in Texts : CutEmbeds(t)
Fills == FillBegins \/ FillEnds \/ FillFails \/ \E q \in Questions : FillEmbeds(q)

VNext ==
  \/ \E m \in Embedders : Seats(m)
  \/ \E t \in Texts : Edits(t)
  \/ Cuts \/ Queues \/ BootLooks \/ BootQueues \/ Fills \/ Finds

VSpec == VInit /\ [][VNext]_vvars

-----------------------------------------------------------------------------
(* The label on a chunk or a question is the model that made its vector,    *)
(* wherever the role moved between two batches.                             *)
LabelsTellTheMaker ==
  /\ \A t \in Texts : stored[t].by = stored[t].made
  /\ \A q \in Questions : qvecs[q].by = qvecs[q].made

(* A search that answers compared its vector with vectors of its own model  *)
(* only, unless a cut was committed between its check and its read.         *)
SearchMeetsItsOwn == find.step = "done" /\ ~find.raced => find.met \subseteq {find.label}

(* A cut the role did not move under leaves one geometry, that of the role  *)
(* at its start, and every vector is of the text the cut read, reused or    *)
(* not.                                                                      *)
UnmovedCutIsWhole ==
  [][MayWrite /\ cut' = NoCut /\ ~cut.moved =>
       \A t \in Texts : stored'[t].made = cut.label /\ stored'[t].ver = files[t]]_vvars

(* A mixture of geometries is written by a cut that reused nothing and by   *)
(* no other: a reused vector is never put beside one of another model.      *)
ReusedStaysPure ==
  [][stored' # stored /\ Mixed(stored') => cut.reused = {}]_vvars

(* An embed_questions job that ends with the role where it began leaves no  *)
(* question foreign to it.                                                  *)
FillLeavesNone ==
  [][fill.step = "embed" /\ fill'.step = "idle" /\ fill.left = {} /\ ~fill.moved =>
       \A q \in Questions : qvecs[q].by = seated]_vvars

-----------------------------------------------------------------------------
(* What the comments say and the code does not keep.                        *)
(* use_cases/index.py:74: "an embedder seated between the label read and    *)
(* the embedding must not leave two geometries in one source".              *)
OneGeometry == ~Mixed(stored)

(* bootstrap.py:330: "a role moved to another embedder leaves every         *)
(* question vector foreign to the new one"; the running job that answers    *)
(* the boot drew its list up for the model before.                          *)
BootSkipsNoForeign ==
  [][boot # None /\ boot = seated /\ boot' = None /\ waiting' = 0 =>
       \A q \in Questions : qvecs[q].by = boot \/ (fill.step = "embed" /\ q \in fill.left)]_vvars
=============================================================================
