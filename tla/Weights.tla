------------------------------- MODULE Weights -------------------------------
(***************************************************************************)
(* The weights of one repository in the host's cache (engines/vllm.py) and *)
(* of one windowed tag on ollama (engines/ollama.py).  Pulls and deletes   *)
(* come one at a time from the io lane; beside them a vLLM that starts     *)
(* downloads into the same cache, bytes rot, blobs age and the hub is      *)
(* silent at will.  The model is the repository's newest snapshot.         *)
(***************************************************************************)
EXTENDS Naturals, FiniteSets

CONSTANTS Shards, Stray, MaxPulls, MaxFaults

Files == Shards \cup {"config", "index"}

VARIABLES
  blob,    \* Files \cup {Stray} -> "none", "young", "old" (partial), "whole", "wrong"
  links,   \* the files the snapshot names
  writer,  \* Files \cup {Stray} -> who writes its partial blob: "pull", "sibling", "none"
  pull,    \* [at, broken, asked, verdict] of the pull job; the partial blobs it looked at (seen), the
           \* one it takes for a leftover (found), and, ghost, whether a sibling took that up since (resumed)
  pulls, faults,  \* bounds
  serves,  \* a vLLM runs on these weights: "no", "yes", "silent"
  tag      \* [base, derived, step] of a windowed tag on ollama
hvars == <<blob, links, writer, pull, pulls, faults, serves, tag>>

Blobs == Files \cup {Stray}
Partial == {"young", "old"}
Idle == [at |-> "idle", broken |-> {}, asked |-> {}, verdict |-> "none", seen |-> {}, found |-> {}, resumed |-> FALSE]

HTypeOK ==
  /\ blob \in [Blobs -> {"none", "young", "old", "whole", "wrong"}]
  /\ links \subseteq Files /\ writer \in [Blobs -> {"pull", "sibling", "none"}]
  /\ pull.at \in {"idle", "hashed", "downloads", "downloaded", "asks"}
  /\ pull.broken \subseteq Blobs /\ pull.asked \subseteq Files
  /\ pull.verdict \in {"none", "ready", "failed"}
  /\ pull.seen \subseteq Blobs /\ pull.found \subseteq Blobs /\ pull.resumed \in BOOLEAN
  /\ pulls \in 0..MaxPulls /\ faults \in 0..MaxFaults
  /\ serves \in {"no", "yes", "silent"}
  /\ tag.base \in {"none", "bare", "held"} /\ tag.derived \in {"none", "bare", "held"}
  /\ tag.step \in {"idle", "pulled", "held"}

HInit ==
  /\ blob = [f \in Blobs |-> "none"] /\ links = {}
  /\ writer = [f \in Blobs |-> "none"] /\ pull = Idle
  /\ pulls = 0 /\ faults = 0 /\ serves = "no"
  /\ tag = [base |-> "none", derived |-> "none", step |-> "idle"]

Snapshot == links # {}
Exists(f) == f \in links /\ blob[f] \in {"whole", "wrong"}
(* the files the server will look for, read off the disk: an index names every shard *)
ExpectedFiles ==
  IF Exists("index") THEN {"config"} \cup Shards
  ELSE LET single == {f \in Shards : Exists(f)} IN
       {"config"} \cup (IF single = {} THEN Shards ELSE single)
(* hashed against their names, and links whose blob is gone *)
WrongBytes == {f \in Blobs : blob[f] = "wrong"}
BrokenWeights == WrongBytes \cup {f \in links : blob[f] = "none"}
(* the check with no look at what the expected files are *)
UnfinishedWeights(youngOk) ==
  {f \in Blobs : blob[f] = "old" \/ (blob[f] = "young" /\ ~youngOk)}
    \cup (IF Snapshot THEN {f \in ExpectedFiles : ~Exists(f)} ELSE {})
WeightsCheck(youngOk) == Snapshot /\ BrokenWeights = {} /\ UnfinishedWeights(youngOk) = {}

Others == UNCHANGED <<serves, tag>>

(* pull_weights: hashed once; weights already whole end the pull *)
Hashes ==
  /\ pull.at = "idle" /\ pulls < MaxPulls /\ pulls' = pulls + 1
  /\ pull' = IF WeightsCheck(FALSE)
               THEN [Idle EXCEPT !.verdict = "ready"]
               ELSE [Idle EXCEPT !.at = "hashed", !.broken = WrongBytes]
  /\ Others /\ UNCHANGED <<blob, links, writer, faults>>

(* _drop, and the download begins; a silent hub gives no list, and the same files are asked for *)
Drops ==
  /\ pull.at = "hashed"
  /\ blob' = [f \in Blobs |-> IF f \in pull.broken THEN "none" ELSE blob[f]]
  /\ pull' = [pull EXCEPT !.at = "downloads", !.asked = Files]
  /\ Others /\ UNCHANGED <<links, writer, pulls, faults>>

(* snapshot_download, external: a file begins, ends linked, and a blob of the right name is not fetched *)
Begins(f, who) ==
  /\ blob[f] \in {"none", "young", "old"} /\ writer[f] = "none"
  /\ blob' = [blob EXCEPT ![f] = "young"] /\ writer' = [writer EXCEPT ![f] = who]
  /\ UNCHANGED links
Arrives(f, who) ==
  /\ \/ writer[f] = who /\ blob' = [blob EXCEPT ![f] = "whole"] /\ writer' = [writer EXCEPT ![f] = "none"]
     \/ f \notin links /\ blob[f] \in {"whole", "wrong"} /\ UNCHANGED <<blob, writer>>
  /\ links' = links \cup ({f} \cap Files)
Downloads ==
  /\ pull.at = "downloads"
  /\ \E f \in pull.asked : Begins(f, "pull") \/ Arrives(f, "pull")
  /\ Others /\ UNCHANGED <<pull, pulls, faults>>
Downloaded ==
  /\ pull.at = "downloads" /\ \A f \in pull.asked : Exists(f)
  /\ pull' = [pull EXCEPT !.at = "downloaded"]
  /\ Others /\ UNCHANGED <<blob, links, writer, pulls, faults>>
(* cut by its timeout, a lost worker or the hub: what was begun stays *)
Cut ==
  /\ pull.at = "downloads" /\ faults < MaxFaults /\ faults' = faults + 1
  /\ writer' = [f \in Blobs |-> IF writer[f] = "pull" THEN "none" ELSE writer[f]]
  /\ pull' = [Idle EXCEPT !.verdict = "failed"]
  /\ Others /\ UNCHANGED <<blob, links, pulls>>

(* partial blobs past their age are of files no pattern asks for; a young one may be a sibling's *)
OrphanedAnyAge(f) == blob[f] \in Partial
Orphaned(f) == blob[f] = "old"
(* one partial blob after another: its age is read, and what is old is unlinked after *)
Looks(f) ==
  /\ pull.at = "downloaded" /\ pull.found = {} /\ blob[f] \in Partial /\ f \notin pull.seen
  /\ pull' = [pull EXCEPT !.seen = @ \cup {f}, !.found = IF Orphaned(f) THEN {f} ELSE {}]
  /\ Others /\ UNCHANGED <<blob, links, writer, pulls, faults>>
Unlinks ==
  /\ pull.at = "downloaded" /\ pull.found # {}
  /\ blob' = [f \in Blobs |-> IF f \in pull.found /\ blob[f] \in Partial THEN "none" ELSE blob[f]]
  /\ writer' = [f \in Blobs |-> IF f \in pull.found THEN "none" ELSE writer[f]]
  /\ pull' = [pull EXCEPT !.found = {}, !.resumed = FALSE]
  /\ Others /\ UNCHANGED <<links, pulls, faults>>
Checks ==
  /\ pull.at = "downloaded" /\ pull.found = {} /\ \A f \in Blobs \ pull.seen : ~Orphaned(f)
  /\ Others /\ UNCHANGED <<blob, links, writer, pulls, faults>>
  /\ pull' = [Idle EXCEPT !.verdict = IF WeightsCheck(TRUE) THEN "ready" ELSE "failed"]

(* delete_weights asks every server first; a silence refuses, a server that is gone does not *)
DeleteAsks ==
  /\ pull.at = "idle" /\ serves = "no" /\ pulls < MaxPulls /\ pulls' = pulls + 1
  /\ pull' = [Idle EXCEPT !.at = "asks"]
  /\ Others /\ UNCHANGED <<blob, links, writer, faults>>
Deletes ==
  /\ pull.at = "asks" /\ pull' = Idle
  /\ blob' = [f \in Blobs |-> "none"] /\ links' = {}
  /\ writer' = [f \in Blobs |-> "none"]
  /\ Others /\ UNCHANGED <<pulls, faults>>

(* external: a vLLM that starts downloads what is missing, a stray file of its own among it *)
SiblingLoads ==
  /\ \E f \in Blobs : Begins(f, "sibling") \/ (writer[f] = "sibling" /\ Arrives(f, "sibling"))
  /\ faults < MaxFaults
  /\ pull' = [pull EXCEPT !.resumed = @ \/ \E f \in pull.found : writer'[f] = "sibling"]
  /\ Others /\ UNCHANGED <<pulls, faults>>
SiblingStops ==
  /\ faults < MaxFaults /\ faults' = faults + 1
  /\ serves' \in {"no", "yes", "silent"} \ {serves}
  /\ writer' = [f \in Blobs |-> IF writer[f] = "sibling" THEN "none" ELSE writer[f]]
  /\ UNCHANGED <<blob, links, pull, pulls, tag>>
(* external: a blob nobody writes grows old, a whole one rots *)
Ages ==
  /\ \E f \in Blobs : blob[f] = "young" /\ writer[f] = "none" /\ blob' = [blob EXCEPT ![f] = "old"]
  /\ Others /\ UNCHANGED <<links, writer, pull, pulls, faults>>
Rots ==
  /\ faults < MaxFaults /\ faults' = faults + 1
  /\ \E f \in Files : blob[f] = "whole" /\ blob' = [blob EXCEPT ![f] = "wrong"]
  /\ pull' = [pull EXCEPT !.verdict = "none"]
  /\ Others /\ UNCHANGED <<links, writer, pulls>>

Cache == UNCHANGED <<blob, links, writer, pull, serves>>
(* ollama.pull_model: the base, then its penalty, then the tag made from it *)
PullsBase ==
  /\ tag.step = "idle" /\ pulls < MaxPulls /\ pulls' = pulls + 1
  /\ tag' = [tag EXCEPT !.base = "bare", !.step = "pulled"]
  /\ Cache /\ UNCHANGED faults
DerivesFirst == tag.step \in {"pulled", "held"}
MayDerive == tag.step = "held"
HoldsPenalty ==
  /\ tag.step = "pulled" /\ tag' = [tag EXCEPT !.base = "held", !.step = "held"]
  /\ Cache /\ UNCHANGED <<pulls, faults>>
Derives ==
  /\ MayDerive /\ tag' = [tag EXCEPT !.derived = tag.base, !.step = "idle"]
  /\ Cache /\ UNCHANGED <<pulls, faults>>
PullOfTagFails ==
  /\ tag.step # "idle" /\ faults < MaxFaults /\ faults' = faults + 1
  /\ tag' = [tag EXCEPT !.step = "idle"]
  /\ Cache /\ UNCHANGED pulls

HNext ==
  \/ Hashes \/ Drops \/ Downloads \/ Downloaded \/ Cut \/ (\E f \in Blobs : Looks(f)) \/ Unlinks \/ Checks \/ DeleteAsks \/ Deletes
  \/ SiblingLoads \/ SiblingStops \/ Ages \/ Rots
  \/ PullsBase \/ HoldsPenalty \/ Derives \/ PullOfTagFails

-----------------------------------------------------------------------------
Whole == \A f \in Files : Exists(f) /\ blob[f] = "whole"
(* A pull says ready only of weights whose every file is on disk with its  *)
(* own bytes (vllm.py:430: "the row turns ready only on this check").      *)
ReadyIsWhole == [][(Hashes \/ Checks) /\ pull'.verdict = "ready" => Whole']_hvars
(* The same where the check had an index to read.                          *)
ReadyByIndex == [][(Hashes \/ Checks) /\ pull'.verdict = "ready" /\ Exists("index") => Whole']_hvars
(* What a vLLM is downloading into the cache is not taken for a leftover:  *)
(* it is unlinked only where the download took a leftover up after the     *)
(* pull had read its age, a moment the code leaves open (vllm.py:423-426). *)
SiblingKept ==
  [][\A f \in Blobs : Unlinks /\ writer[f] = "sibling" /\ blob[f] \in Partial /\ blob'[f] = "none"
        => pull.resumed]_hvars
(* A windowed tag carries the penalty its base was given.                  *)
TagHolds == tag.derived # "bare"
=============================================================================
