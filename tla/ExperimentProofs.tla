--------------------------- MODULE ExperimentProofs ---------------------------
(***************************************************************************)
(* Theorems about Experiment for any experiments, names, requests, kinds   *)
(* and bounds.                                                             *)
(***************************************************************************)
EXTENDS Experiment, TLAPS

-----------------------------------------------------------------------------
(* Why the properties hold *)

Engaged == {"locked", "copied", "undoing"}

(* a request that adds arms holds the row from its look to its end, and one that *)
(* starts an experiment is the only one that knows of it                         *)
Held(r) ==
  door[r].at \in Engaged =>
    /\ door[r].exp \in Exps
    /\ kind[door[r].exp] = "rejudge"
    /\ door[r].names \subseteq Copied
    /\ \/ holder[door[r].exp] = r /\ status[door[r].exp] = "aggregated"
       \/ /\ door[r].at # "locked"
          /\ holder[door[r].exp] = None /\ status[door[r].exp] = "none"
          /\ \A q \in Requests \ {r} : door[q].exp # door[r].exp

DoorsInv ==
  /\ \A r \in Requests : Held(r)
  /\ \A r \in Requests : door[r].at = "concluding" =>
                            door[r].exp \in Exps /\ status[door[r].exp] # "none"
  /\ \A e \in Exps : holder[e] # None =>
                        door[holder[e]].exp = e /\ door[holder[e]].at \in Engaged

Flying(r) == door[r].at \in {"copied", "undoing"}

(* what a request has copied is its own and no rejudge names it yet *)
CopiesInv ==
  /\ \A r \in Requests : Flying(r) =>
       \A n \in door[r].names : /\ rows[n] # "none"
                                /\ \A e \in Exps : kind[e] = "rejudge" => n \notin arms[e]
  /\ \A q, r \in Requests : q # r /\ Flying(q) /\ Flying(r) => door[q].names \cap door[r].names = {}
  /\ \A e \in Exps : kind[e] = "rejudge" => \A n \in arms[e] : rows[n] # "none"
  /\ \A e \in Exps : status[e] = "none" => arms[e] = {}
  /\ \A e \in Exps : kind[e] = "generation" => arms[e] \subseteq Swept

OfASweep(n) == \E e \in Exps : kind[e] = "generation" /\ n \in arms[e]

Measured(e) == e \in Exps /\ kind[e] = "retrieval" /\ status[e] # "none"

(* whose jobs wait *)
LineInv ==
  \A j \in Jobs :
    /\ line[j] # "none" /\ line[j] # "compare" => j \in Names
    /\ line[j] \in {"answer", "resume"} => OfASweep(j)
    /\ line[j] = "compare" => Measured(j)

(* what the worker has in hand; nothing adds an arm between a report and its record *)
WorkerInv ==
  /\ (run = None) = (at = "idle")
  /\ at = "idle" => task = "none" /\ ~stop
  /\ stop => run \in hurt
  /\ at = "answering" => run \in Names /\ task \in {"answer", "resume"} /\ OfASweep(run)
  /\ at \in {"reviving", "judging", "listing", "looking", "reading", "recording"} =>
       run \in Names /\ task = "judge"
  /\ at \in {"starting", "measuring", "landing"} => task = "compare" /\ Measured(run)
  /\ at \notin {"looking", "reading", "recording"} => todo = {} /\ exp = None
  /\ at \in {"reading", "recording"} =>
       exp \in Exps /\ status[exp] \in {"running", "failed", "concluded"}
  /\ at = "recording" => read = arms[exp]
  /\ at \in {"measuring", "landing"} => read = arms[run]

SeriesInv == /\ TypeOK /\ DoorsInv /\ CopiesInv /\ LineInv /\ WorkerInv
             /\ AggregatedCoversItsArms /\ NoOrphanedCopies /\ NoNameTwice

Unhurt(e) == Judged(e) /\ arms[e] \cap hurt = {}

(* a job to come, or the job in hand, which still has to look at the experiment *)
StillOwed(e) ==
  \E n \in arms[e] : \/ line[n] # "none"
                     \/ /\ run = n
                        /\ \/ at \in {"answering", "reviving", "judging", "listing"}
                           \/ e \in todo \/ exp = e

(* an arm that has not all its verdicts has a job that will see to them *)
ArmIsSeenTo(n) ==
  \/ rows[n] = "judged"
  \/ line[n] # "none"
  \/ run = n /\ at \in {"answering", "reviving", "judging"}

(* what a debt and a report rest on *)
DebtInv ==
  /\ \A r \in Requests : door[r].at \in Engaged => door[r].names # {}
  /\ \A e \in todo : Judged(e)
  /\ \A n \in Swept : line[n] = "judge" \/ (run = n /\ task = "judge") => rows[n] # "none"
  /\ \A e \in Exps : kind[e] = "rejudge" /\ status[e] = "aggregated" => SeriesComplete(e)
  /\ at \in {"reading", "recording"} /\ kind[exp] = "rejudge" => SeriesComplete(exp)

(* nothing is failed or left without a job but where a job of it was hurt *)
SeenInv ==
  /\ \A e \in Exps : Judged(e) /\ status[e] = "failed" => arms[e] \cap hurt # {}
  /\ \A e \in Exps : Unhurt(e) /\ status[e] = "running" =>
       StillOwed(e) /\ \A n \in arms[e] : ArmIsSeenTo(n)
  /\ \A e \in Exps : ~Judged(e) /\ status[e] = "running" => line[e] # "none" \/ run = e \/ e \in hurt

OwedInv == DebtInv /\ SeenInv

-----------------------------------------------------------------------------
(* Every state is a state of the right shape. *)

Sheets == [at : {"fresh", "locked", "copied", "undoing", "concluding", "done"},
           exp : Exps \cup {None}, names : SUBSET Names]
Statuses == {"none", "running", "aggregated", "concluded", "failed"}

LEMMA DoneIs ==
  ASSUME TypeOK, NEW r \in Requests, Done(r)
  PROVE  /\ door' \in [Requests -> Sheets]
         /\ door'[r].at = "done" /\ door'[r].exp = None /\ door'[r].names = {}
         /\ \A q \in Requests \ {r} : door'[q] = door[q]
<1> DEFINE d == [at |-> "done", exp |-> None, names |-> {}]
<1>1. d \in Sheets /\ d.at = "done" /\ d.exp = None /\ d.names = {}
  BY DEF Sheets
<1>2. [Rest EXCEPT !.at = "done"] = d
  BY DEF Rest
<1>3. door' = [door EXCEPT ![r] = d]
  BY <1>2 DEF Done
<1>4. door \in [Requests -> Sheets]
  BY DEF TypeOK, Sheets
<1> HIDE DEF d
<1> QED
  BY <1>1, <1>3, <1>4

LEMMA OpensIs ==
  ASSUME TypeOK, NEW r \in Requests, NEW e \in Exps, NEW S \in SUBSET Names,
         NEW place \in {"locked", "copied", "concluding"},
         door' = [door EXCEPT ![r] = [at |-> place, exp |-> e, names |-> S]]
  PROVE  /\ door' \in [Requests -> Sheets]
         /\ door'[r].at = place /\ door'[r].exp = e /\ door'[r].names = S
         /\ \A q \in Requests \ {r} : door'[q] = door[q]
<1> DEFINE d == [at |-> place, exp |-> e, names |-> S]
<1>1. d \in Sheets /\ d.at = place /\ d.exp = e /\ d.names = S
  BY DEF Sheets
<1>2. door' = [door EXCEPT ![r] = d] /\ door \in [Requests -> Sheets]
  BY DEF TypeOK, Sheets
<1> HIDE DEF d
<1> QED
  BY <1>1, <1>2

LEMMA UndoesIs ==
  ASSUME TypeOK, NEW r \in Requests, Fails(r)
  PROVE  /\ door' \in [Requests -> Sheets]
         /\ door'[r].at = "undoing"
         /\ door'[r].exp = door[r].exp /\ door'[r].names = door[r].names
         /\ \A q \in Requests \ {r} : door'[q] = door[q]
<1> DEFINE d == [door[r] EXCEPT !.at = "undoing"]
<1>1. door[r] \in Sheets /\ door \in [Requests -> Sheets]
  BY DEF TypeOK, Sheets
<1>2. d \in Sheets /\ d.at = "undoing" /\ d.exp = door[r].exp /\ d.names = door[r].names
  BY <1>1 DEF Sheets
<1>3. door' = [door EXCEPT ![r] = d]
  BY DEF Fails
<1> HIDE DEF d
<1> QED
  BY <1>1, <1>2, <1>3

(* A request that starts nothing is left where it was but for its own sheet. *)
LEMMA SheetOf ==
  ASSUME TypeOK, NEW r \in Requests
  PROVE  /\ door[r] \in Sheets
         /\ door[r].exp \in Exps \cup {None}
         /\ door[r].names \subseteq Names
  BY DEF TypeOK, Sheets

LEMMA FreesIs ==
  ASSUME TypeOK, NEW r \in Requests, NEW e \in Exps,
         holder' = [holder EXCEPT ![e] = IF @ = r THEN None ELSE @]
  PROVE  /\ holder' \in [Exps -> Requests \cup {None}]
         /\ holder'[e] # r
         /\ \A f \in Exps : holder'[f] = IF f = e /\ holder[f] = r THEN None ELSE holder[f]
  BY ExperimentAssumption DEF TypeOK

LEMMA FailedOnIs ==
  ASSUME TypeOK, NEW n
  PROVE  /\ FailedOn(n) \in [Exps -> Statuses]
         /\ \A e \in Exps :
              FailedOn(n)[e] = IF Judged(e) /\ status[e] = "running" /\ n \in arms[e]
                               THEN "failed" ELSE status[e]
  BY DEF TypeOK, FailedOn, Statuses

(* The parts of a state, each of its own shape. *)
LEMMA TypesTogether ==
  ASSUME kind' \in [Exps -> Kinds],
         status' \in [Exps -> Statuses],
         arms' \in [Exps -> SUBSET Names], report' \in [Exps -> SUBSET Names],
         holder' \in [Exps -> Requests \cup {None}],
         rows' \in [Names -> {"none", "owed", "judged"}],
         line' \in [Jobs -> Tasks \cup {"none"}],
         sweeps' \in [Names -> 0..MaxSweeps],
         at' \in {"idle", "answering", "reviving", "judging", "listing", "looking",
                  "reading", "recording", "starting", "measuring", "landing"},
         run' \in Jobs \cup {None}, exp' \in Exps \cup {None},
         todo' \subseteq Exps, read' \subseteq Names,
         task' \in Tasks \cup {"none"}, stop' \in BOOLEAN,
         door' \in [Requests -> Sheets],
         hurt' \subseteq Jobs, cut' \subseteq Names,
         returns' \in 0..MaxReturns
  PROVE  TypeOK'
  BY DEF TypeOK, Sheets, Statuses

LEMMA InitType == Init => TypeOK
<1> SUFFICES ASSUME Init PROVE TypeOK
  OBVIOUS
<1> DEFINE d == [at |-> "fresh", exp |-> None, names |-> {}]
<1>1. d \in Sheets
  BY DEF Sheets
<1>2. door = [r \in Requests |-> d]
  BY DEF Init, Rest
<1>3. door \in [Requests -> Sheets]
  <2> HIDE DEF d
  <2> QED
    BY <1>1, <1>2
<1>4. 0 \in 0..MaxSweeps /\ 0 \in 0..MaxReturns
  BY ExperimentAssumption
<1> QED
  BY <1>3, <1>4 DEF Init, TypeOK, Sheets, Jobs, Tasks

LEMMA CopiesIs ==
  ASSUME TypeOK, NEW r \in Requests, NEW e \in Exps, NEW S \in SUBSET Names,
         Copies(r, e, S)
  PROVE  /\ door' \in [Requests -> Sheets]
         /\ holder' \in [Exps -> Requests \cup {None}]
         /\ rows' \in [Names -> {"none", "owed", "judged"}]
         /\ cut' \subseteq Names
         /\ \A q \in Requests \ {r} : door'[q] = door[q]
         /\ \/ /\ door'[r].at = "copied" /\ door'[r].exp = e /\ door'[r].names = S
               /\ Free(S) /\ UNCHANGED <<holder, cut>>
               /\ \A n \in Names : rows'[n] = IF n \in S THEN "owed" ELSE rows[n]
            \/ /\ door'[r].at = "done" /\ door'[r].exp = None /\ door'[r].names = {}
               /\ \A f \in Exps :
                    holder'[f] = IF f = e /\ holder[f] = r THEN None ELSE holder[f]
               /\ \/ /\ Free(S) /\ cut' = cut \cup S
                     /\ \A n \in Names : rows'[n] = IF n \in S THEN "owed" ELSE rows[n]
                  \/ UNCHANGED <<rows, cut>>
<1>1. CASE /\ Free(S)
           /\ rows' = [n \in Names |-> IF n \in S THEN "owed" ELSE rows[n]]
           /\ door' = [door EXCEPT ![r] = [at |-> "copied", exp |-> e, names |-> S]]
           /\ UNCHANGED <<holder, cut>>
  <2>1. rows' \in [Names -> {"none", "owed", "judged"}]
    BY <1>1 DEF TypeOK
  <2>2. /\ door' \in [Requests -> Sheets]
        /\ door'[r].at = "copied" /\ door'[r].exp = e /\ door'[r].names = S
        /\ \A q \in Requests \ {r} : door'[q] = door[q]
    BY <1>1, OpensIs
  <2>3. holder' \in [Exps -> Requests \cup {None}] /\ cut' \subseteq Names
    BY <1>1 DEF TypeOK
  <2> QED
    BY <1>1, <2>1, <2>2, <2>3
<1>2. CASE /\ Done(r)
           /\ holder' = [holder EXCEPT ![e] = IF @ = r THEN None ELSE @]
           /\ \/ /\ Free(S) /\ cut' = cut \cup S
                 /\ rows' = [n \in Names |-> IF n \in S THEN "owed" ELSE rows[n]]
              \/ UNCHANGED <<rows, cut>>
  <2>1. rows' \in [Names -> {"none", "owed", "judged"}] /\ cut' \subseteq Names
    BY <1>2 DEF TypeOK
  <2>2. /\ door' \in [Requests -> Sheets]
        /\ door'[r].at = "done" /\ door'[r].exp = None /\ door'[r].names = {}
        /\ \A q \in Requests \ {r} : door'[q] = door[q]
    BY <1>2, DoneIs
  <2>3. /\ holder' \in [Exps -> Requests \cup {None}]
        /\ \A f \in Exps :
             holder'[f] = IF f = e /\ holder[f] = r THEN None ELSE holder[f]
    BY <1>2, FreesIs
  <2> QED
    BY <1>2, <2>1, <2>2, <2>3
<1> QED
  BY <1>1, <1>2 DEF Copies

LEMMA StartsType ==
  ASSUME TypeOK, NEW r \in Requests, NEW e \in Exps, NEW S \in SUBSET Names,
         \/ CreateRejudge(r, e, S) \/ AddLooks(r, e, S)
         \/ CreateGeneration(r, e, S) \/ CreateRetrieval(r, e, S)
  PROVE  TypeOK'
<1> USE DEF record, runs, job, locals, worker, seen
<1>1. CASE CreateRejudge(r, e, S)
  <2>1. Copies(r, e, S)
    BY <1>1 DEF CreateRejudge
  <2>2. /\ door' \in [Requests -> Sheets]
        /\ holder' \in [Exps -> Requests \cup {None}]
        /\ rows' \in [Names -> {"none", "owed", "judged"}]
        /\ cut' \subseteq Names
    BY <2>1, CopiesIs
  <2> QED
    BY <1>1, <2>2, TypesTogether DEF CreateRejudge, TypeOK, Statuses
<1>2. CASE AddLooks(r, e, S)
  <2>1. holder' \in [Exps -> Requests \cup {None}]
    BY <1>2 DEF AddLooks, TypeOK
  <2>2. door' \in [Requests -> Sheets]
    BY <1>2, OpensIs DEF AddLooks
  <2> QED
    BY <1>2, <2>1, <2>2, TypesTogether DEF AddLooks, TypeOK, Statuses
<1>3. CASE CreateGeneration(r, e, S) \/ CreateRetrieval(r, e, S)
  <2>1. door' \in [Requests -> Sheets]
    BY <1>3, DoneIs DEF CreateGeneration, CreateRetrieval
  <2>2. /\ status' \in [Exps -> Statuses] /\ arms' \in [Exps -> SUBSET Names]
        /\ line' \in [Jobs -> Tasks \cup {"none"}]
    BY <1>3 DEF CreateGeneration, CreateRetrieval, TypeOK, Statuses, Tasks, Jobs
  <2> QED
    BY <1>3, <2>1, <2>2, TypesTogether DEF CreateGeneration, CreateRetrieval, TypeOK, Statuses
<1> QED
  BY <1>1, <1>2, <1>3

LEMMA EngagedIs ==
  ASSUME TypeOK, DoorsInv, NEW r \in Requests, door[r].at \in Engaged
  PROVE  /\ door[r].exp \in Exps /\ door[r].names \in SUBSET Names
         /\ kind[door[r].exp] = "rejudge"
         /\ Held(r)
  BY SheetOf DEF DoorsInv, Held

LEMMA GoesOnType ==
  ASSUME TypeOK, DoorsInv, NEW r \in Requests,
         AddCopies(r) \/ Commits(r) \/ Fails(r) \/ DeleteRuns(r)
  PROVE  TypeOK'
<1> USE DEF record, runs, job, locals, worker, seen
<1>0. PICK e \in Exps, S \in SUBSET Names : e = door[r].exp /\ S = door[r].names
  BY EngagedIs DEF AddCopies, Commits, Fails, DeleteRuns, Engaged
<1>1. CASE AddCopies(r)
  <2>1. Copies(r, e, S)
    BY <1>0, <1>1 DEF AddCopies
  <2>2. /\ door' \in [Requests -> Sheets]
        /\ holder' \in [Exps -> Requests \cup {None}]
        /\ rows' \in [Names -> {"none", "owed", "judged"}]
        /\ cut' \subseteq Names
    BY <2>1, CopiesIs
  <2> QED
    BY <1>1, <2>2, TypesTogether DEF AddCopies, TypeOK, Statuses
<1>2. CASE Commits(r)
  <2>1. door' \in [Requests -> Sheets]
    BY <1>2, DoneIs DEF Commits
  <2>2. holder' \in [Exps -> Requests \cup {None}]
    BY <1>0, <1>2, FreesIs DEF Commits
  <2>3. /\ status' \in [Exps -> Statuses] /\ arms' \in [Exps -> SUBSET Names]
        /\ line' \in [Jobs -> Tasks \cup {"none"}]
    BY <1>0, <1>2 DEF Commits, TypeOK, Statuses, Tasks
  <2> QED
    BY <1>2, <2>1, <2>2, <2>3, TypesTogether DEF Commits, TypeOK, Statuses
<1>3. CASE Fails(r)
  <2>1. door' \in [Requests -> Sheets]
    BY <1>3, UndoesIs
  <2> QED
    BY <1>3, <2>1, TypesTogether DEF Fails, TypeOK, Statuses
<1>4. CASE DeleteRuns(r)
  <2>1. door' \in [Requests -> Sheets]
    BY <1>4, DoneIs DEF DeleteRuns
  <2>2. holder' \in [Exps -> Requests \cup {None}]
    BY <1>0, <1>4, FreesIs DEF DeleteRuns
  <2>3. rows' \in [Names -> {"none", "owed", "judged"}]
    BY <1>4 DEF DeleteRuns, TypeOK
  <2> QED
    BY <1>4, <2>1, <2>2, <2>3, TypesTogether DEF DeleteRuns, TypeOK, Statuses
<1> QED
  BY <1>1, <1>2, <1>3, <1>4

LEMMA OtherDoorsType ==
  ASSUME TypeOK, DoorsInv, NEW r \in Requests,
         \/ \E e \in Exps : ConcludeLooks(r, e)
         \/ ConcludeWrites(r)
         \/ \E j \in Jobs : Cancel(r, j)
         \/ \E n \in Names : Again(r, n)
  PROVE  TypeOK'
<1> USE DEF record, runs, job, locals, worker, seen
<1>1. ASSUME NEW e \in Exps, ConcludeLooks(r, e)
      PROVE  TypeOK'
  <2>1. door' \in [Requests -> Sheets]
    BY <1>1, OpensIs DEF ConcludeLooks
  <2> QED
    BY <1>1, <2>1, TypesTogether DEF ConcludeLooks, TypeOK, Statuses
<1>2. CASE ConcludeWrites(r)
  <2>1. door' \in [Requests -> Sheets]
    BY <1>2, DoneIs DEF ConcludeWrites
  <2>2. status' \in [Exps -> Statuses]
    BY <1>2 DEF ConcludeWrites, TypeOK, Statuses
  <2> QED
    BY <1>2, <2>1, <2>2, TypesTogether DEF ConcludeWrites, TypeOK, Statuses
<1>3. ASSUME NEW j \in Jobs, Cancel(r, j)
      PROVE  TypeOK'
  <2>1. door' \in [Requests -> Sheets]
    BY <1>3, DoneIs DEF Cancel
  <2>2. status' \in [Exps -> Statuses]
    BY <1>3, FailedOnIs DEF Cancel
  <2>3. line' \in [Jobs -> Tasks \cup {"none"}] /\ hurt' \subseteq Jobs
    BY <1>3 DEF Cancel, TypeOK
  <2>4. stop' \in BOOLEAN
    BY <1>3 DEF Cancel
  <2> QED
    BY <1>3, <2>1, <2>2, <2>3, <2>4, TypesTogether DEF Cancel, TypeOK, Statuses
<1>4. ASSUME NEW n \in Names, Again(r, n)
      PROVE  TypeOK'
  <2>1. door' \in [Requests -> Sheets]
    BY <1>4, DoneIs DEF Again
  <2>2. line' \in [Jobs -> Tasks \cup {"none"}]
    BY <1>4 DEF Again, TypeOK, Tasks, Jobs
  <2> QED
    BY <1>4, <2>1, <2>2, TypesTogether DEF Again, TypeOK, Statuses
<1> QED
  BY <1>1, <1>2, <1>3, <1>4

(* What the worker holds names what it works on. *)
LEMMA HandIs ==
  ASSUME TypeOK, WorkerInv
  PROVE  /\ at # "idle" => run \in Jobs /\ task \in Tasks
         /\ at \in {"answering", "reviving", "judging", "listing", "looking", "reading",
                    "recording"} => run \in Names
         /\ at \in {"starting", "measuring", "landing"} => run \in Exps
         /\ at \in {"reading", "recording"} => exp \in Exps
  BY DEF WorkerInv, TypeOK, Jobs, Tasks, Measured

LEMMA PutsBack ==
  ASSUME TypeOK, WorkerInv, at # "idle", PutBack
  PROVE  /\ line' \in [Jobs -> Tasks \cup {"none"}]
         /\ ~stop => line'[run] = IF task = "answer" THEN "resume" ELSE task
         /\ stop => line' = line
         /\ \A j \in Jobs \ {run} : line'[j] = line[j]
<1>1. run \in Jobs /\ task \in Tasks
  BY HandIs
<1> QED
  BY <1>1 DEF PutBack, TypeOK, Tasks

LEMMA IdlesIs ==
  ASSUME Idles
  PROVE  /\ at' = "idle" /\ run' = None /\ task' = "none" /\ stop' = FALSE
         /\ todo' = {} /\ exp' = None /\ read' = {}
  BY DEF Idles

LEMMA WorkRows ==
  ASSUME TypeOK, Judges
  PROVE  rows' \in [Names -> {"none", "owed", "judged"}]
<1>1. PICK settled \in BOOLEAN :
        rows' = [rows EXCEPT ![run] = IF settled /\ @ = "owed" THEN "judged" ELSE @]
  BY DEF Judges
<1> QED
  BY <1>1 DEF TypeOK

LEMMA WorkType ==
  ASSUME TypeOK, WorkerInv, Work \/ Returns
  PROVE  TypeOK'
<1> USE DEF record, runs, job, locals, worker, seen, Jobs, Tasks
<1>1. ASSUME NEW j \in Jobs, Claim(j)
      PROVE  TypeOK'
  BY <1>1, TypesTogether DEF Claim, TypeOK, Statuses
<1>2. CASE Returns
  <2>1. line' \in [Jobs -> Tasks \cup {"none"}]
    BY <1>2, PutsBack DEF Returns
  <2>2. returns' \in 0..MaxReturns
    BY <1>2, ExperimentAssumption DEF Returns, TypeOK
  <2> QED
    BY <1>2, <2>1, <2>2, TypesTogether DEF Returns, Idles, TypeOK, Statuses
<1>3. CASE GivesUp
  <2>1. run \in Jobs
    BY <1>3, HandIs DEF GivesUp
  <2>2. status' \in [Exps -> Statuses]
    BY <1>3, FailedOnIs DEF GivesUp
  <2> QED
    BY <1>3, <2>1, <2>2, TypesTogether DEF GivesUp, Idles, TypeOK, Statuses
<1>4. CASE Answers
  <2>1. /\ rows' \in [Names -> {"none", "owed", "judged"}]
        /\ line' \in [Jobs -> Tasks \cup {"none"}]
    BY <1>4 DEF Answers, TypeOK
  <2> QED
    BY <1>4, <2>1, TypesTogether DEF Answers, Idles, TypeOK, Statuses
<1>5. CASE Revives
  BY <1>5, TypesTogether DEF Revives, TypeOK, Statuses
<1>6. CASE Judges
  <2>1. /\ rows' \in [Names -> {"none", "owed", "judged"}]
        /\ line' \in [Jobs -> Tasks \cup {"none"}]
    <3>1. rows' \in [Names -> {"none", "owed", "judged"}]
      BY <1>6, WorkRows
    <3>2. UNCHANGED line \/ SweepsAgain(run)
      BY <1>6 DEF Judges
    <3> QED
      BY <3>1, <3>2 DEF SweepsAgain, TypeOK, Tasks
  <2>2. sweeps' \in [Names -> 0..MaxSweeps]
    BY <1>6, ExperimentAssumption DEF Judges, SweepsLeft, TypeOK
  <2>3. status' \in [Exps -> Statuses] /\ hurt' \subseteq Jobs
    <3>1. run \in Jobs
      BY <1>6, HandIs DEF Judges
    <3> QED
      BY <1>6, <3>1, FailedOnIs DEF Judges, TypeOK, Statuses
  <2> QED
    BY <1>6, <2>1, <2>2, <2>3, TypesTogether DEF Judges, Idles, TypeOK, Statuses
<1>7. CASE Lists \/ Looks \/ Reports \/ Finishes \/ Measures
  <2>1. Reports => arms[exp] \subseteq Names
    BY HandIs DEF Reports, TypeOK
  <2> QED
    BY <1>7, <2>1, TypesTogether DEF Lists, Looks, Reports, Finishes, Measures, Idles, TypeOK, Statuses
<1>8. CASE Records
  BY <1>8, HandIs, TypesTogether DEF Records, Recorded, TypeOK, Statuses
<1>9. ASSUME NEW e \in Exps, RevivesSibling(e)
      PROVE  TypeOK'
  BY <1>9, TypesTogether DEF RevivesSibling, TypeOK, Statuses
<1>10. CASE Starts
  BY <1>10, HandIs, TypesTogether DEF Starts, TypeOK, Statuses
<1>11. CASE Breaks
  <2>1. line' \in [Jobs -> Tasks \cup {"none"}]
    BY <1>11, PutsBack DEF Breaks, TypeOK
  <2>2. returns' \in 0..MaxReturns
    BY <1>11, ExperimentAssumption DEF Breaks, TypeOK
  <2>3. run \in Jobs
    BY <1>11, HandIs DEF Breaks
  <2>4. hurt' \subseteq Jobs /\ status' \in [Exps -> Statuses]
    <3>1. hurt' = hurt \/ hurt' = hurt \cup {run}
      BY <1>11 DEF Breaks
    <3>2. status' = [status EXCEPT ![run] = IF @ = "running" THEN "failed" ELSE @]
      BY <1>11 DEF Breaks
    <3> QED
      BY <2>3, <3>1, <3>2 DEF TypeOK, Statuses
  <2>5. Idles /\ UNCHANGED <<kind, arms, report, holder, rows, sweeps, door, cut>>
    BY <1>11 DEF Breaks
  <2> QED
    BY <2>1, <2>2, <2>4, <2>5, TypesTogether DEF Idles, TypeOK, Statuses
<1>12. CASE Lands
  <2>1. run \in Exps
    BY <1>12, HandIs DEF Lands
  <2>2. status' \in [Exps -> Statuses] /\ report' \in [Exps -> SUBSET Names]
    BY <1>12, <2>1 DEF Lands, Recorded, TypeOK, Statuses
  <2> QED
    BY <1>12, <2>2, TypesTogether DEF Lands, Idles, TypeOK, Statuses
<1> QED
  BY <1>1, <1>2, <1>3, <1>4, <1>5, <1>6, <1>7, <1>8, <1>9, <1>10, <1>11, <1>12 DEF Work

-----------------------------------------------------------------------------
(* The requests, and the rows of experiments they hold. *)

(* the moves the worker and a cancel make in the table of transitions *)
Moves(e) ==
  \/ status'[e] = status[e]
  \/ status[e] = "running" /\ status'[e] \in {"aggregated", "failed"}
  \/ status[e] = "failed" /\ status'[e] = "running"

LEMMA WorkMoves ==
  ASSUME TypeOK, WorkerInv, Work \/ Returns
  PROVE  /\ UNCHANGED <<kind, arms, holder, door, cut>>
         /\ \A e \in Exps : Moves(e)
<1> USE DEF record, runs, job, locals, worker, seen, Moves
<1>1. CASE GivesUp \/ Judges
  BY <1>1, FailedOnIs DEF GivesUp, Judges, Idles
<1>2. CASE Records \/ Lands
  BY <1>2, HandIs DEF Records, Lands, Recorded, TypeOK
<1>3. CASE Revives \/ (\E e \in Exps : RevivesSibling(e)) \/ Starts \/ Breaks
  BY <1>3, HandIs DEF Revives, RevivesSibling, Starts, Breaks, TypeOK
<1>4. CASE Returns \/ Answers \/ Lists \/ Looks \/ Reports \/ Finishes \/ Measures
           \/ \E j \in Jobs : Claim(j)
  BY <1>4 DEF Returns, Answers, Lists, Looks, Reports, Finishes, Measures, Claim
<1> QED
  BY <1>1, <1>2, <1>3, <1>4 DEF Work

LEMMA DoorsStay ==
  ASSUME TypeOK, DoorsInv, UNCHANGED <<kind, holder>>,
         \A e \in Exps : Moves(e),
         \A q \in Requests : \/ door'[q] = door[q]
                             \/ /\ door[q].at \notin Engaged
                                /\ door'[q].at = "done" /\ door'[q].exp = None
  PROVE  DoorsInv'
<1>1. ASSUME NEW q \in Requests
      PROVE  Held(q)'
  BY <1>1, ExperimentAssumption DEF DoorsInv, Held, Moves, Engaged, TypeOK
<1>2. ASSUME NEW q \in Requests, door'[q].at = "concluding"
      PROVE  door'[q].exp \in Exps /\ status'[door'[q].exp] # "none"
  BY <1>2 DEF DoorsInv, Moves
<1>3. ASSUME NEW e \in Exps, holder[e] # None
      PROVE  door'[holder[e]].exp = e /\ door'[holder[e]].at \in Engaged
  BY <1>3 DEF DoorsInv, TypeOK
<1> QED
  BY <1>1, <1>2, <1>3 DEF DoorsInv

LEMMA CreateRejudgeDoors ==
  ASSUME TypeOK, DoorsInv, NEW r \in Requests, NEW e \in Exps, NEW S \in SUBSET Names,
         CreateRejudge(r, e, S)
  PROVE  DoorsInv'
<1>1. /\ door[r].at = "fresh" /\ kind[e] = "rejudge" /\ status[e] = "none"
      /\ S \subseteq Copied /\ \A q \in Requests : door[q].exp # e
      /\ UNCHANGED <<kind, status>>
      /\ Copies(r, e, S)
  BY DEF CreateRejudge, Asks
<1>2. holder[e] = None
  BY <1>1 DEF DoorsInv, TypeOK
<1>3. /\ \A q \in Requests \ {r} : door'[q] = door[q]
      /\ \/ door'[r].at = "copied" /\ door'[r].exp = e /\ door'[r].names = S
         \/ door'[r].at = "done" /\ door'[r].exp = None
  BY <1>1, CopiesIs
<1>4. \A f \in Exps : holder'[f] = holder[f]
  <2>1. \A f \in Exps : holder'[f] = holder[f] \/ (f = e /\ holder[f] = r)
    BY <1>1, CopiesIs
  <2> QED
    BY <1>2, <2>1, ExperimentAssumption
<1>5. ASSUME NEW q \in Requests
      PROVE  Held(q)'
  BY <1>1, <1>2, <1>3, <1>4, <1>5, ExperimentAssumption DEF DoorsInv, Held, Engaged
<1>6. \A f \in Exps : holder[f] # None => holder[f] # r
  BY <1>1 DEF DoorsInv, Engaged
<1> QED
  BY <1>1, <1>3, <1>4, <1>5, <1>6 DEF DoorsInv, TypeOK, Engaged

LEMMA AddLooksDoors ==
  ASSUME TypeOK, DoorsInv, NEW r \in Requests, NEW e \in Exps, NEW S \in SUBSET Names,
         AddLooks(r, e, S)
  PROVE  DoorsInv'
<1>1. /\ door[r].at = "fresh" /\ kind[e] = "rejudge" /\ status[e] = "aggregated"
      /\ S \subseteq Copied /\ holder[e] = None
      /\ UNCHANGED <<kind, status>>
      /\ holder'[e] = r /\ \A f \in Exps \ {e} : holder'[f] = holder[f]
  BY DEF AddLooks, Asks, MayGainArms, record, runs, TypeOK
<1>2. /\ \A q \in Requests \ {r} : door'[q] = door[q]
      /\ door'[r].at = "locked" /\ door'[r].exp = e /\ door'[r].names = S
  BY OpensIs DEF AddLooks
<1>3. ASSUME NEW q \in Requests
      PROVE  Held(q)'
  BY <1>1, <1>2, <1>3, ExperimentAssumption DEF DoorsInv, Held, Engaged
<1>4. \A f \in Exps : holder[f] # None => holder[f] # r
  BY <1>1 DEF DoorsInv, Engaged
<1> QED
  BY <1>1, <1>2, <1>3, <1>4 DEF DoorsInv, TypeOK, Engaged

(* A request that goes on with the experiment it holds or is alone with. *)
LEMMA GoesOnDoors ==
  ASSUME TypeOK, DoorsInv, NEW r \in Requests, door[r].at \in Engaged,
         UNCHANGED kind,
         \A q \in Requests \ {r} : door'[q] = door[q],
         \A f \in Exps \ {door[r].exp} : status'[f] = status[f] /\ holder'[f] = holder[f],
         \/ /\ door'[r].at \in {"copied", "undoing"}
            /\ door'[r].exp = door[r].exp /\ door'[r].names = door[r].names
            /\ UNCHANGED <<status, holder>>
         \/ /\ door'[r].at = "done" /\ door'[r].exp = None
            /\ holder'[door[r].exp] = IF holder[door[r].exp] = r THEN None
                                      ELSE holder[door[r].exp]
            /\ status[door[r].exp] # "none" => status'[door[r].exp] # "none"
  PROVE  DoorsInv'
<1>0. PICK e \in Exps : e = door[r].exp
  BY EngagedIs
<1>1. Held(r)
  BY EngagedIs
<1>2. ASSUME NEW q \in Requests \ {r}, door[q].at \in Engaged
      PROVE  door[q].exp # e
  BY <1>0, <1>1, <1>2, ExperimentAssumption DEF DoorsInv, Held
<1>3. ASSUME NEW q \in Requests
      PROVE  Held(q)'
  <2>1. CASE q = r
    BY <1>0, <1>1, <2>1 DEF Held, Engaged
  <2>2. CASE q # r
    <3>1. SUFFICES ASSUME door[q].at \in Engaged
                   PROVE  Held(q)'
      BY <2>2 DEF Held
    <3>2. Held(q) /\ door'[q] = door[q] /\ door[q].exp \in Exps \ {e}
      BY <1>2, <2>2, <3>1 DEF DoorsInv, Held
    <3>3. door'[r].exp \in {e, None}
      BY <1>0
    <3> QED
      BY <1>0, <2>2, <3>1, <3>2, <3>3, ExperimentAssumption DEF Held
  <2> QED
    BY <2>1, <2>2
<1>4. ASSUME NEW q \in Requests, door'[q].at = "concluding"
      PROVE  door'[q].exp \in Exps /\ status'[door'[q].exp] # "none"
  BY <1>0, <1>4 DEF DoorsInv
<1>5. ASSUME NEW f \in Exps, holder'[f] # None
      PROVE  door'[holder'[f]].exp = f /\ door'[holder'[f]].at \in Engaged
  <2>1. /\ holder'[f] = holder[f] /\ holder[f] \in Requests
        /\ door[holder[f]].exp = f /\ door[holder[f]].at \in Engaged
    BY <1>0, <1>5 DEF DoorsInv, TypeOK
  <2> QED
    BY <1>0, <1>5, <2>1 DEF Engaged
<1> QED
  BY <1>3, <1>4, <1>5 DEF DoorsInv

LEMMA AddCopiesDoors ==
  ASSUME TypeOK, DoorsInv, NEW r \in Requests, AddCopies(r)
  PROVE  DoorsInv'
<1>1. door[r].at \in Engaged /\ UNCHANGED <<kind, status>>
  BY DEF AddCopies, Engaged
<1>2. PICK e \in Exps, S \in SUBSET Names : e = door[r].exp /\ S = door[r].names
  BY <1>1, EngagedIs
<1>3. Copies(r, e, S)
  BY <1>2 DEF AddCopies
<1>4. /\ \A q \in Requests \ {r} : door'[q] = door[q]
      /\ \/ door'[r].at = "copied" /\ door'[r].exp = e /\ door'[r].names = S /\ UNCHANGED holder
         \/ /\ door'[r].at = "done" /\ door'[r].exp = None
            /\ \A f \in Exps : holder'[f] = IF f = e /\ holder[f] = r THEN None ELSE holder[f]
  BY <1>3, CopiesIs
<1> QED
  BY <1>1, <1>2, <1>4, GoesOnDoors

LEMMA GoesOnKeepsDoors ==
  ASSUME TypeOK, DoorsInv, NEW r \in Requests,
         AddCopies(r) \/ Commits(r) \/ Fails(r) \/ DeleteRuns(r)
  PROVE  DoorsInv'
<1> USE DEF record, runs, worker, seen
<1>0. door[r].at \in Engaged
  BY DEF AddCopies, Commits, Fails, DeleteRuns, Engaged
<1>1. PICK e \in Exps : e = door[r].exp
  BY <1>0, EngagedIs
<1>2. CASE Commits(r)
  <2>1. /\ \A q \in Requests \ {r} : door'[q] = door[q]
        /\ door'[r].at = "done" /\ door'[r].exp = None
    BY <1>2, DoneIs DEF Commits
  <2>2. \A f \in Exps : holder'[f] = IF f = e /\ holder[f] = r THEN None ELSE holder[f]
    BY <1>1, <1>2, FreesIs DEF Commits
  <2>3. status'[e] = "running" /\ \A f \in Exps \ {e} : status'[f] = status[f]
    BY <1>1, <1>2 DEF Commits, TypeOK
  <2>4. UNCHANGED kind
    BY <1>2 DEF Commits
  <2> QED
    BY <1>0, <1>1, <2>1, <2>2, <2>3, <2>4, GoesOnDoors
<1>3. CASE Fails(r)
  BY <1>0, <1>3, UndoesIs, GoesOnDoors DEF Fails
<1>4. CASE DeleteRuns(r)
  <2>1. /\ \A q \in Requests \ {r} : door'[q] = door[q]
        /\ door'[r].at = "done" /\ door'[r].exp = None
    BY <1>4, DoneIs DEF DeleteRuns
  <2>2. \A f \in Exps : holder'[f] = IF f = e /\ holder[f] = r THEN None ELSE holder[f]
    BY <1>1, <1>4, FreesIs DEF DeleteRuns
  <2>3. UNCHANGED <<kind, status>>
    BY <1>4 DEF DeleteRuns
  <2> QED
    BY <1>0, <1>1, <2>1, <2>2, <2>3, GoesOnDoors
<1> QED
  BY <1>2, <1>3, <1>4, AddCopiesDoors

LEMMA CreatesKeepDoors ==
  ASSUME TypeOK, DoorsInv, NEW r \in Requests, NEW e \in Exps, NEW S \in SUBSET Names,
         CreateGeneration(r, e, S) \/ CreateRetrieval(r, e, S)
  PROVE  DoorsInv'
<1>1. /\ \A q \in Requests \ {r} : door'[q] = door[q]
      /\ door'[r].at = "done" /\ door'[r].exp = None
  BY DoneIs DEF CreateGeneration, CreateRetrieval
<1>2. /\ door[r].at = "fresh" /\ kind[e] # "rejudge"
      /\ UNCHANGED <<kind, holder>>
      /\ status'[e] = "running" /\ \A f \in Exps \ {e} : status'[f] = status[f]
  BY DEF CreateGeneration, CreateRetrieval, Asks, TypeOK
<1>3. ASSUME NEW q \in Requests
      PROVE  Held(q)'
  BY <1>1, <1>2, <1>3, ExperimentAssumption DEF DoorsInv, Held, Engaged
<1>4. \A f \in Exps : holder[f] # None => holder[f] # r
  BY <1>2 DEF DoorsInv, Engaged
<1> QED
  BY <1>1, <1>2, <1>3, <1>4 DEF DoorsInv, TypeOK, Engaged

LEMMA ConcludesKeepDoors ==
  ASSUME TypeOK, DoorsInv, NEW r \in Requests,
         (\E e \in Exps : ConcludeLooks(r, e)) \/ ConcludeWrites(r)
  PROVE  DoorsInv'
<1>1. ASSUME NEW e \in Exps, ConcludeLooks(r, e)
      PROVE  DoorsInv'
  <2>1. /\ \A q \in Requests \ {r} : door'[q] = door[q]
        /\ door'[r].at = "concluding" /\ door'[r].exp = e
    BY <1>1, OpensIs DEF ConcludeLooks
  <2>2. /\ door[r].at = "fresh" /\ status[e] = "aggregated"
        /\ UNCHANGED <<kind, holder, status>>
    BY <1>1 DEF ConcludeLooks, Asks, record
  <2>3. ASSUME NEW q \in Requests
        PROVE  Held(q)'
    BY <2>1, <2>2, <2>3, ExperimentAssumption DEF DoorsInv, Held, Engaged
  <2>4. \A f \in Exps : holder[f] # None => holder[f] # r
    BY <2>2 DEF DoorsInv, Engaged
  <2> QED
    BY <2>1, <2>2, <2>3, <2>4 DEF DoorsInv, TypeOK, Engaged
<1>2. CASE ConcludeWrites(r)
  <2>1. /\ \A q \in Requests \ {r} : door'[q] = door[q]
        /\ door'[r].at = "done" /\ door'[r].exp = None
    BY <1>2, DoneIs DEF ConcludeWrites
  <2>2. PICK e \in Exps : e = door[r].exp /\ status[e] # "none"
    BY <1>2 DEF ConcludeWrites, DoorsInv
  <2>3. /\ door[r].at = "concluding" /\ holder[e] = None
        /\ UNCHANGED <<kind, holder>>
        /\ status'[e] = "concluded" /\ \A f \in Exps \ {e} : status'[f] = status[f]
    BY <1>2, <2>2 DEF ConcludeWrites, TypeOK
  <2>4. ASSUME NEW q \in Requests
        PROVE  Held(q)'
    BY <2>1, <2>2, <2>3, <2>4, ExperimentAssumption DEF DoorsInv, Held, Engaged
  <2>5. \A f \in Exps : holder[f] # None => holder[f] # r
    BY <2>3 DEF DoorsInv, Engaged
  <2> QED
    BY <2>1, <2>2, <2>3, <2>4, <2>5 DEF DoorsInv, TypeOK, Engaged
<1> QED
  BY <1>1, <1>2

LEMMA AsksKeepDoors ==
  ASSUME TypeOK, DoorsInv, NEW r \in Requests,
         (\E j \in Jobs : Cancel(r, j)) \/ (\E n \in Names : Again(r, n))
  PROVE  DoorsInv' /\ \A e \in Exps : Moves(e)
<1>1. /\ \A q \in Requests \ {r} : door'[q] = door[q]
      /\ door'[r].at = "done" /\ door'[r].exp = None
  BY DoneIs DEF Cancel, Again
<1>2. door[r].at \notin Engaged /\ UNCHANGED <<kind, holder>>
  BY DEF Cancel, Again, Asks, Engaged, record
<1>3. \A e \in Exps : Moves(e)
  BY FailedOnIs DEF Cancel, Again, record, Moves
<1> QED
  BY <1>1, <1>2, <1>3, DoorsStay

-----------------------------------------------------------------------------
(* Copies, their owners and their names. *)

LEMMA CopiesStay ==
  ASSUME CopiesInv, UNCHANGED <<kind, arms>>,
         \A n \in Names : rows[n] # "none" => rows'[n] # "none",
         \A e \in Exps : status'[e] = "none" => status[e] = "none",
         \A q \in Requests : Flying(q)' => Flying(q) /\ door'[q].names = door[q].names,
         \A q \in Requests : door[q].names \subseteq Names,
         \A e \in Exps : arms[e] \subseteq Names
  PROVE  CopiesInv'
  BY DEF CopiesInv

(* Names that have no rows are nobody's copies and no rejudge's arms. *)
LEMMA FreeAreNobodys ==
  ASSUME CopiesInv, NEW S \in SUBSET Names, Free(S)
  PROVE  /\ \A q \in Requests : Flying(q) => door[q].names \cap S = {}
         /\ \A e \in Exps : kind[e] = "rejudge" => arms[e] \cap S = {}
  BY DEF CopiesInv, Free

LEMMA CopyingKeepsCopies ==
  ASSUME TypeOK, CopiesInv, NEW r \in Requests, NEW e \in Exps, NEW S \in SUBSET Names,
         Copies(r, e, S), ~Flying(r), UNCHANGED <<kind, arms, status>>
  PROVE  CopiesInv'
<1>1. \A q \in Requests \ {r} : door'[q] = door[q]
  BY CopiesIs
<1>2. \A n \in Names : rows[n] # "none" => rows'[n] # "none"
  BY CopiesIs DEF Free
<1>3. CASE door'[r].at = "copied"
  <2>1. /\ door'[r].names = S /\ Free(S)
        /\ \A n \in Names : rows'[n] = IF n \in S THEN "owed" ELSE rows[n]
    BY <1>3, CopiesIs
  <2>2. /\ \A q \in Requests : Flying(q) => door[q].names \cap S = {}
        /\ \A f \in Exps : kind[f] = "rejudge" => arms[f] \cap S = {}
    BY <2>1, FreeAreNobodys
  <2>3. ASSUME NEW q \in Requests, Flying(q)', NEW n \in door'[q].names
        PROVE  /\ rows'[n] # "none"
               /\ \A f \in Exps : kind'[f] = "rejudge" => n \notin arms'[f]
    <3>1. CASE q = r
      BY <2>1, <2>2, <2>3, <3>1
    <3>2. CASE q # r
      BY <1>1, <1>2, <2>3, <3>2, SheetOf DEF CopiesInv, Flying
    <3> QED
      BY <3>1, <3>2
  <2>4. ASSUME NEW p \in Requests, NEW q \in Requests, p # q, Flying(p)', Flying(q)'
        PROVE  door'[p].names \cap door'[q].names = {}
    BY <1>1, <2>1, <2>2, <2>4 DEF CopiesInv, Flying
  <2> QED
    BY <1>2, <2>3, <2>4 DEF CopiesInv, TypeOK
<1>4. CASE door'[r].at # "copied"
  <2>1. door'[r].at = "done"
    BY <1>4, CopiesIs
  <2>2. \A q \in Requests : Flying(q)' => Flying(q) /\ door'[q].names = door[q].names
    BY <1>1, <2>1 DEF Flying
  <2> QED
    BY <1>2, <2>2, CopiesStay, SheetOf DEF TypeOK
<1> QED
  BY <1>3, <1>4

LEMMA CommitsKeepCopies ==
  ASSUME TypeOK, DoorsInv, CopiesInv, NEW r \in Requests, Commits(r)
  PROVE  CopiesInv' /\ \A e \in Exps : arms[e] \subseteq arms'[e]
<1>0. PICK e \in Exps, S \in SUBSET Names :
        e = door[r].exp /\ S = door[r].names /\ kind[e] = "rejudge"
  BY EngagedIs DEF Commits, Engaged
<1>1. /\ \A q \in Requests \ {r} : door'[q] = door[q]
      /\ door'[r].at = "done"
  BY DoneIs DEF Commits
<1>2. /\ Flying(r) /\ UNCHANGED <<kind, rows>>
      /\ arms'[e] = arms[e] \cup S /\ \A f \in Exps \ {e} : arms'[f] = arms[f]
      /\ status'[e] = "running" /\ \A f \in Exps \ {e} : status'[f] = status[f]
  BY <1>0 DEF Commits, Flying, TypeOK
<1>3. \A n \in S : rows[n] # "none"
  BY <1>0, <1>2 DEF CopiesInv
<1>4. \A q \in Requests : Flying(q)' => q # r /\ Flying(q) /\ door[q].names \cap S = {}
  BY <1>0, <1>1, <1>2 DEF CopiesInv, Flying
<1>5. ASSUME NEW q \in Requests, Flying(q)', NEW n \in door'[q].names
      PROVE  /\ rows'[n] # "none"
             /\ \A f \in Exps : kind'[f] = "rejudge" => n \notin arms'[f]
  BY <1>1, <1>2, <1>4, <1>5 DEF CopiesInv
<1>6. ASSUME NEW p \in Requests, NEW q \in Requests, p # q, Flying(p)', Flying(q)'
      PROVE  door'[p].names \cap door'[q].names = {}
  BY <1>1, <1>4, <1>6 DEF CopiesInv
<1>7. \A f \in Exps : /\ kind'[f] = "rejudge" => \A n \in arms'[f] : rows'[n] # "none"
                      /\ status'[f] = "none" => arms'[f] = {}
                      /\ kind'[f] = "generation" => arms'[f] \subseteq Swept
  BY <1>0, <1>2, <1>3 DEF CopiesInv
<1> QED
  BY <1>2, <1>5, <1>6, <1>7 DEF CopiesInv

LEMMA DeletesKeepCopies ==
  ASSUME TypeOK, DoorsInv, CopiesInv, NEW r \in Requests, DeleteRuns(r)
  PROVE  /\ CopiesInv'
         /\ \A e \in Exps : kind[e] = "rejudge" => \A n \in arms[e] : rows'[n] = rows[n]
<1>0. PICK S \in SUBSET Names : S = door[r].names
  BY SheetOf
<1>1. /\ \A q \in Requests \ {r} : door'[q] = door[q]
      /\ door'[r].at = "done"
  BY DoneIs DEF DeleteRuns
<1>2. /\ Flying(r) /\ UNCHANGED <<kind, arms, status>>
      /\ \A n \in Names \ S : rows'[n] = rows[n]
  BY <1>0 DEF DeleteRuns, Flying
<1>3. \A e \in Exps : kind[e] = "rejudge" => \A n \in arms[e] : n \in Names \ S
  BY <1>0, <1>2 DEF CopiesInv, TypeOK
<1>4. ASSUME NEW q \in Requests, Flying(q)'
      PROVE  /\ q # r /\ Flying(q) /\ door'[q] = door[q]
             /\ \A n \in door[q].names : n \in Names \ S
  <2>1. q # r /\ door'[q] = door[q] /\ Flying(q)
    BY <1>1, <1>4 DEF Flying
  <2> QED
    BY <1>0, <1>2, <2>1, SheetOf DEF CopiesInv
<1> QED
  BY <1>2, <1>3, <1>4 DEF CopiesInv

LEMMA CreatesKeepCopies ==
  ASSUME TypeOK, CopiesInv, NEW r \in Requests, NEW e \in Exps, NEW S \in SUBSET Names,
         CreateGeneration(r, e, S) \/ CreateRetrieval(r, e, S)
  PROVE  CopiesInv' /\ \A f \in Exps : arms[f] \subseteq arms'[f]
<1>1. /\ \A q \in Requests \ {r} : door'[q] = door[q]
      /\ door'[r].at = "done"
  BY DoneIs DEF CreateGeneration, CreateRetrieval
<1>2. /\ UNCHANGED <<kind, rows>> /\ status[e] = "none"
      /\ kind[e] = "retrieval" \/ (kind[e] = "generation" /\ S \subseteq Swept)
      /\ arms'[e] = S /\ \A f \in Exps \ {e} : arms'[f] = arms[f]
      /\ status'[e] = "running" /\ \A f \in Exps \ {e} : status'[f] = status[f]
  BY DEF CreateGeneration, CreateRetrieval, TypeOK
<1>3. \A q \in Requests : Flying(q)' => Flying(q) /\ door'[q].names = door[q].names
  BY <1>1 DEF Flying
<1> QED
  BY <1>2, <1>3 DEF CopiesInv

(* Whose the rows under a name are. *)
Owned(n) ==
  \/ \E r \in Requests : Flying(r) /\ n \in door[r].names
  \/ n \in cut
  \/ \E e \in Exps : n \in arms[e]

LEMMA OwnersAre == NoOrphanedCopies <=> \A n \in Names : rows[n] # "none" => Owned(n)
<1>1. \A n : n \in InFlight <=> \E r \in Requests : Flying(r) /\ n \in door[r].names
  BY DEF InFlight, Flying
<1> QED
  BY <1>1 DEF NoOrphanedCopies, Owned

LEMMA OwnersStay ==
  ASSUME TypeOK, NoOrphanedCopies,
         cut \subseteq cut',
         \A e \in Exps : arms[e] \subseteq arms'[e],
         \A q \in Requests : Flying(q) => \/ Flying(q)' /\ door'[q].names = door[q].names
                                          \/ \A n \in door[q].names : rows'[n] # "none" => Owned(n)',
         \A n \in Names : rows'[n] # "none" => rows[n] # "none" \/ Owned(n)'
  PROVE  NoOrphanedCopies'
<1>1. ASSUME NEW n \in Names, rows'[n] # "none"
      PROVE  Owned(n)'
  <2>1. SUFFICES ASSUME rows[n] # "none"
                 PROVE  Owned(n)'
    BY <1>1
  <2>2. Owned(n)
    BY <2>1, OwnersAre
  <2> QED
    BY <1>1, <2>2 DEF Owned
<1>2. \A n : n \in InFlight' <=> \E r \in Requests : Flying(r)' /\ n \in door'[r].names
  BY DEF InFlight, Flying
<1> QED
  BY <1>1, <1>2 DEF NoOrphanedCopies, Owned

LEMMA NamesStay ==
  ASSUME NoNameTwice, UNCHANGED kind,
         \A e \in Exps : kind[e] = "rejudge" => arms'[e] = arms[e]
  PROVE  NoNameTwice'
  BY DEF NoNameTwice

LEMMA CommitsKeepNames ==
  ASSUME TypeOK, DoorsInv, CopiesInv, NoNameTwice, NEW r \in Requests, Commits(r)
  PROVE  NoNameTwice'
<1>0. PICK e \in Exps, S \in SUBSET Names : e = door[r].exp /\ S = door[r].names
  BY EngagedIs DEF Commits, Engaged
<1>1. /\ Flying(r) /\ UNCHANGED kind
      /\ arms'[e] = arms[e] \cup S /\ \A f \in Exps \ {e} : arms'[f] = arms[f]
  BY <1>0 DEF Commits, Flying, TypeOK
<1>2. \A f \in Exps : kind[f] = "rejudge" => S \cap arms[f] = {}
  BY <1>0, <1>1 DEF CopiesInv
<1> QED
  BY <1>1, <1>2 DEF NoNameTwice

LEMMA CopyingKeepsOwners ==
  ASSUME TypeOK, NoOrphanedCopies, NEW r \in Requests, NEW e \in Exps, NEW S \in SUBSET Names,
         Copies(r, e, S), ~Flying(r), UNCHANGED arms
  PROVE  NoOrphanedCopies'
<1>1. cut \subseteq cut' /\ \A q \in Requests \ {r} : door'[q] = door[q]
  BY CopiesIs
<1>2. ASSUME NEW n \in Names, rows'[n] # "none"
      PROVE  rows[n] # "none" \/ Owned(n)'
  <2>1. SUFFICES ASSUME n \in S
                 PROVE  Owned(n)' \/ rows[n] # "none"
    BY <1>2, CopiesIs
  <2>2. \/ door'[r].at = "copied" /\ door'[r].names = S
        \/ S \subseteq cut'
        \/ rows' = rows
    BY CopiesIs
  <2> QED
    BY <1>2, <2>1, <2>2 DEF Owned, Flying
<1>3. \A q \in Requests : Flying(q) => Flying(q)' /\ door'[q].names = door[q].names
  BY <1>1 DEF Flying
<1> QED
  BY <1>1, <1>2, <1>3, OwnersStay

LEMMA CommitsKeepOwners ==
  ASSUME TypeOK, DoorsInv, CopiesInv, NoOrphanedCopies, NEW r \in Requests, Commits(r)
  PROVE  NoOrphanedCopies'
<1>0. PICK e \in Exps, S \in SUBSET Names : e = door[r].exp /\ S = door[r].names
  BY EngagedIs DEF Commits, Engaged
<1>1. /\ \A q \in Requests \ {r} : door'[q] = door[q]
      /\ UNCHANGED <<rows, cut>> /\ arms'[e] = arms[e] \cup S
  BY <1>0, DoneIs DEF Commits, seen, TypeOK
<1>2. \A q \in Requests : Flying(q) =>
        \/ Flying(q)' /\ door'[q].names = door[q].names
        \/ \A n \in door[q].names : rows'[n] # "none" => Owned(n)'
  BY <1>0, <1>1 DEF Flying, Owned
<1>3. \A f \in Exps : arms[f] \subseteq arms'[f]
  BY CommitsKeepCopies
<1> QED
  BY <1>1, <1>2, <1>3, OwnersStay

LEMMA DeletesKeepOwners ==
  ASSUME TypeOK, NoOrphanedCopies, NEW r \in Requests, DeleteRuns(r)
  PROVE  NoOrphanedCopies'
<1>1. /\ \A q \in Requests \ {r} : door'[q] = door[q]
      /\ UNCHANGED <<arms, cut>>
      /\ \A n \in Names : rows'[n] = IF n \in door[r].names THEN "none" ELSE rows[n]
      /\ door[r].names \subseteq Names
  BY DoneIs, SheetOf DEF DeleteRuns, seen
<1>2. \A q \in Requests : Flying(q) =>
        \/ Flying(q)' /\ door'[q].names = door[q].names
        \/ \A n \in door[q].names : rows'[n] # "none" => Owned(n)'
  BY <1>1 DEF Flying
<1> QED
  BY <1>1, <1>2, OwnersStay

(* What the worker writes under a name is of a run that is an experiment's, and *)
(* nothing it does takes rows away.                                             *)
LEMMA WorkKeepsRows ==
  ASSUME TypeOK, WorkerInv, Work \/ Returns
  PROVE  \A n \in Names : /\ rows[n] # "none" => rows'[n] # "none"
                          /\ rows'[n] # "none" => rows[n] # "none" \/ OfASweep(n)
                          /\ rows[n] = "judged" => rows'[n] = "judged"
<1> USE DEF record, runs, job, locals, worker, seen
<1>1. CASE Answers
  BY <1>1 DEF Answers, WorkerInv, TypeOK
<1>2. CASE Judges
  <2>1. PICK settled \in BOOLEAN :
          rows' = [rows EXCEPT ![run] = IF settled /\ @ = "owed" THEN "judged" ELSE @]
    BY <1>2 DEF Judges
  <2> QED
    BY <2>1 DEF TypeOK
<1>3. CASE UNCHANGED rows
  BY <1>3
<1> QED
  BY <1>1, <1>2, <1>3
  DEF Work, Claim, Revives, Lists, Looks, Reports, Records, Finishes, RevivesSibling,
      Starts, Measures, Breaks, Lands, GivesUp, Returns, Idles

LEMMA WorkKeepsCopies ==
  ASSUME TypeOK, WorkerInv, CopiesInv, NoOrphanedCopies, NoNameTwice, Work \/ Returns
  PROVE  CopiesInv' /\ NoOrphanedCopies' /\ NoNameTwice'
<1>1. UNCHANGED <<kind, arms, door, cut>> /\ \A e \in Exps : Moves(e)
  BY WorkMoves
<1>2. CopiesInv'
  BY <1>1, WorkKeepsRows, CopiesStay, SheetOf DEF TypeOK, Moves, Flying
<1>3. NoOrphanedCopies'
  BY <1>1, WorkKeepsRows, OwnersStay DEF Flying, Owned, OfASweep
<1> QED
  BY <1>1, <1>2, <1>3, NamesStay

-----------------------------------------------------------------------------
(* The jobs that wait, and the worker's job in hand. *)

(* Experiments keep their kind, their arms and the fact that they began. *)
Grows ==
  /\ UNCHANGED kind
  /\ \A e \in Exps : arms[e] \subseteq arms'[e]
  /\ \A e \in Exps : status[e] # "none" => status'[e] # "none"

LEMMA SweepsGrow ==
  ASSUME Grows
  PROVE  /\ \A n : OfASweep(n) => OfASweep(n)'
         /\ \A e : Measured(e) => Measured(e)'
  BY DEF Grows, OfASweep, Measured

(* A job that joins the line is one that may. *)
LEMMA LineStays ==
  ASSUME LineInv, Grows,
         \A j \in Jobs : \/ line'[j] \in {line[j], "none"}
                         \/ line'[j] = "judge" /\ j \in Names
                         \/ line'[j] \in {"answer", "resume"} /\ j \in Names /\ OfASweep(j)'
                         \/ line'[j] = "compare" /\ Measured(j)'
  PROVE  LineInv'
<1>1. ASSUME NEW j \in Jobs
      PROVE  /\ line'[j] # "none" /\ line'[j] # "compare" => j \in Names
             /\ line'[j] \in {"answer", "resume"} => OfASweep(j)'
             /\ line'[j] = "compare" => Measured(j)'
  BY <1>1, SweepsGrow DEF LineInv
<1> QED
  BY <1>1 DEF LineInv

(* A step at a door leaves the worker's locals true. *)
LEMMA WorkerStays ==
  ASSUME TypeOK, WorkerInv, Grows, UNCHANGED <<at, run, task, locals>>,
         hurt \subseteq hurt',
         stop' = stop \/ (run # None /\ run \in hurt'),
         stop' => stop \/ run # None,
         \A e \in Exps : status[e] \in {"running", "failed", "concluded"} =>
           /\ status'[e] \in {"running", "failed", "concluded"}
           /\ arms'[e] = arms[e],
         \A e \in Exps : Measured(e) => arms'[e] = arms[e]
  PROVE  WorkerInv'
<1>1. stop' => run' \in hurt'
  BY DEF WorkerInv
<1>2. at' = "idle" => task' = "none" /\ ~stop'
  BY DEF WorkerInv, TypeOK
<1>3. /\ OfASweep(run) => OfASweep(run)'
      /\ Measured(run) => Measured(run)'
  BY SweepsGrow
<1>4. at' = "answering" => run' \in Names /\ task' \in {"answer", "resume"} /\ OfASweep(run)'
  BY <1>3 DEF WorkerInv
<1>5. at' \in {"starting", "measuring", "landing"} => task' = "compare" /\ Measured(run)'
  BY <1>3 DEF WorkerInv
<1>6. /\ at' \in {"reading", "recording"} =>
           exp' \in Exps /\ status'[exp'] \in {"running", "failed", "concluded"}
      /\ at' = "recording" => read' = arms'[exp']
  BY DEF WorkerInv, locals
<1>7. at' \in {"measuring", "landing"} => read' = arms'[run']
  BY DEF WorkerInv, locals, Measured
<1> QED
  BY <1>1, <1>2, <1>3, <1>4, <1>5, <1>6, <1>7 DEF WorkerInv, locals, OfASweep, Measured

LEMMA CreatesKeepWork ==
  ASSUME TypeOK, CopiesInv, LineInv, WorkerInv, AggregatedCoversItsArms,
         NEW r \in Requests, NEW e \in Exps, NEW S \in SUBSET Names,
         CreateGeneration(r, e, S) \/ CreateRetrieval(r, e, S)
  PROVE  LineInv' /\ WorkerInv' /\ AggregatedCoversItsArms'
<1>1. /\ UNCHANGED <<kind, report, worker, hurt>>
      /\ status[e] = "none" /\ arms[e] = {} /\ arms'[e] = S
      /\ status'[e] = "running"
      /\ \A f \in Exps \ {e} : status'[f] = status[f] /\ arms'[f] = arms[f]
  BY DEF CreateGeneration, CreateRetrieval, TypeOK, CopiesInv, seen
<1>2. Grows
  BY <1>1 DEF Grows
<1>3. CASE CreateGeneration(r, e, S)
  <2>1. \A j \in Jobs : line'[j] = IF j \in S THEN "answer" ELSE line[j]
    BY <1>3 DEF CreateGeneration
  <2>2. \A j \in S : OfASweep(j)'
    BY <1>1, <1>3 DEF CreateGeneration, OfASweep
  <2> QED
    BY <1>2, <2>1, <2>2, LineStays, <1>1, WorkerStays
    DEF worker, job, locals, Measured, AggregatedCoversItsArms
<1>4. CASE CreateRetrieval(r, e, S)
  <2>1. \A j \in Jobs : line'[j] = IF j = e THEN "compare" ELSE line[j]
    BY <1>4 DEF CreateRetrieval, TypeOK
  <2>2. Measured(e)'
    BY <1>1, <1>4 DEF CreateRetrieval, Measured
  <2> QED
    BY <1>2, <2>1, <2>2, LineStays, <1>1, WorkerStays
    DEF worker, job, locals, Measured, AggregatedCoversItsArms
<1> QED
  BY <1>3, <1>4

LEMMA CommitsKeepWork ==
  ASSUME TypeOK, DoorsInv, LineInv, WorkerInv, AggregatedCoversItsArms,
         NEW r \in Requests, Commits(r)
  PROVE  LineInv' /\ WorkerInv' /\ AggregatedCoversItsArms'
<1>0. PICK e \in Exps, S \in SUBSET Names :
        /\ e = door[r].exp /\ S = door[r].names
        /\ kind[e] = "rejudge" /\ status[e] \in {"none", "aggregated"}
  BY EngagedIs DEF Commits, Engaged, Held
<1>1. /\ UNCHANGED <<kind, report, worker, hurt>>
      /\ status'[e] = "running" /\ arms'[e] = arms[e] \cup S
      /\ \A f \in Exps \ {e} : status'[f] = status[f] /\ arms'[f] = arms[f]
      /\ \A j \in Jobs : line'[j] = IF j \in S THEN "judge" ELSE line[j]
  BY <1>0 DEF Commits, TypeOK, seen
<1>2. Grows
  BY <1>0, <1>1 DEF Grows
<1>3. LineInv'
  BY <1>1, <1>2, LineStays
<1>4. WorkerInv'
  BY <1>0, <1>1, <1>2, WorkerStays DEF worker, job, locals, Measured
<1> QED
  BY <1>1, <1>3, <1>4 DEF AggregatedCoversItsArms

(* The doors that touch neither arms nor jobs, but for a status. *)
LEMMA OtherDoorsKeepWork ==
  ASSUME TypeOK, DoorsInv, LineInv, WorkerInv, AggregatedCoversItsArms, NEW r \in Requests,
         \/ \E e \in Exps, S \in SUBSET Names : CreateRejudge(r, e, S) \/ AddLooks(r, e, S)
         \/ AddCopies(r) \/ Fails(r) \/ DeleteRuns(r)
         \/ \E e \in Exps : ConcludeLooks(r, e)
         \/ ConcludeWrites(r)
  PROVE  LineInv' /\ WorkerInv' /\ AggregatedCoversItsArms'
<1> USE DEF record, runs, seen
<1>1. /\ UNCHANGED <<kind, report, arms, line, worker, hurt>>
      /\ \A e \in Exps : \/ status'[e] = status[e]
                         \/ status[e] # "none" /\ status'[e] = "concluded"
  BY DEF CreateRejudge, AddLooks, AddCopies, Fails, DeleteRuns, ConcludeLooks, ConcludeWrites,
         TypeOK, DoorsInv
<1>2. Grows
  BY <1>1 DEF Grows
<1>3. LineInv'
  BY <1>1, <1>2, LineStays
<1>4. WorkerInv'
  BY <1>1, <1>2, WorkerStays DEF worker, job, locals
<1> QED
  BY <1>1, <1>3, <1>4 DEF AggregatedCoversItsArms

LEMMA AsksKeepWork ==
  ASSUME TypeOK, LineInv, WorkerInv, AggregatedCoversItsArms, NEW r \in Requests,
         (\E j \in Jobs : Cancel(r, j)) \/ (\E n \in Names : Again(r, n)),
         \A e \in Exps : Moves(e)
  PROVE  LineInv' /\ WorkerInv' /\ AggregatedCoversItsArms'
<1> USE DEF record, runs, seen, worker, job
<1>1. ASSUME NEW j \in Jobs, Cancel(r, j)
      PROVE  LineInv' /\ WorkerInv' /\ AggregatedCoversItsArms'
  <2>1. /\ UNCHANGED <<kind, report, arms, at, run, task, locals>>
        /\ \A i \in Jobs : line'[i] = IF i = j THEN "none" ELSE line[i]
        /\ hurt' = hurt \cup {j}
        /\ stop' = (stop \/ run = j)
        /\ \A e \in Exps : status'[e] = status[e] \/ (status[e] = "running" /\ status'[e] = "failed")
    BY <1>1, FailedOnIs DEF Cancel, TypeOK
  <2>2. Grows
    BY <2>1 DEF Grows
  <2>3. None \notin Jobs
    BY ExperimentAssumption DEF Jobs
  <2>4. LineInv'
    BY <2>1, <2>2, LineStays
  <2>5. stop' = stop \/ (run # None /\ run \in hurt')
    BY <2>1, <2>3 DEF TypeOK
  <2>6. stop' => stop \/ run # None
    BY <2>1, <2>3
  <2>7. WorkerInv'
    BY <2>1, <2>2, <2>5, <2>6, WorkerStays
  <2> QED
    BY <2>1, <2>4, <2>7 DEF AggregatedCoversItsArms
<1>2. ASSUME NEW n \in Names, Again(r, n)
      PROVE  LineInv' /\ WorkerInv' /\ AggregatedCoversItsArms'
  <2>1. /\ UNCHANGED <<kind, status, report, arms, at, run, task, stop, locals, hurt>>
        /\ \A i \in Jobs \ {n} : line'[i] = line[i]
        /\ line'[n] = "judge" \/ (line'[n] = "resume" /\ OfASweep(n))
    BY <1>2 DEF Again, TypeOK, OfASweep, Jobs
  <2>2. Grows
    BY <2>1 DEF Grows
  <2>3. LineInv'
    BY <2>1, <2>2, SweepsGrow, LineStays
  <2>4. WorkerInv'
    BY <2>1, <2>2, WorkerStays
  <2> QED
    BY <2>1, <2>3, <2>4 DEF AggregatedCoversItsArms
<1> QED
  BY <1>1, <1>2

(* A job that goes back, or is dropped for good. *)
LEMMA LeavesHand ==
  ASSUME TypeOK, LineInv, WorkerInv, Idles, at # "idle",
         UNCHANGED <<kind, arms>>, Grows,
         PutBack \/ UNCHANGED line
  PROVE  LineInv' /\ WorkerInv'
<1>1. WorkerInv'
  BY DEF Idles, WorkerInv
<1>2. run \in Jobs /\ task \in Tasks /\ task # "compare" => run \in Names
  BY HandIs DEF WorkerInv, TypeOK
<1>3. CASE UNCHANGED line
  BY <1>1, <1>3, LineStays
<1>4. CASE PutBack
  <2>1. \A j \in Jobs \ {run} : line'[j] = line[j]
    BY <1>4, PutsBack
  <2>2. line'[run] = line[run] \/ line'[run] = IF task = "answer" THEN "resume" ELSE task
    BY <1>4, PutsBack
  <2>3. /\ task \in {"answer", "resume"} => run \in Names /\ OfASweep(run)
        /\ task = "judge" => run \in Names
        /\ task = "compare" => Measured(run)
        /\ task \in Tasks
    <3>1. \/ at = "answering"
          \/ at \in {"reviving", "judging", "listing", "looking", "reading", "recording"}
          \/ at \in {"starting", "measuring", "landing"}
      BY DEF TypeOK
    <3> QED
      BY <3>1 DEF WorkerInv, Tasks
  <2>4. ASSUME NEW j \in Jobs
        PROVE  /\ line'[j] # "none" /\ line'[j] # "compare" => j \in Names
               /\ line'[j] \in {"answer", "resume"} => OfASweep(j)'
               /\ line'[j] = "compare" => Measured(j)'
    <3>1. CASE line'[j] = line[j]
      BY <3>1, SweepsGrow DEF LineInv
    <3>2. CASE j = run /\ line'[run] # line[run]
      <4>1. OfASweep(j)' <=> OfASweep(j)
        BY DEF OfASweep
      <4>2. Measured(j) => Measured(j)'
        BY SweepsGrow
      <4> QED
        BY <2>2, <2>3, <3>2, <4>1, <4>2 DEF Tasks
    <3> QED
      BY <2>1, <3>1, <3>2
  <2> QED
    BY <1>1, <2>4 DEF LineInv
<1> QED
  BY <1>3, <1>4

LEMMA WorkKeepsWork ==
  ASSUME TypeOK, LineInv, WorkerInv, AggregatedCoversItsArms, Work \/ Returns
  PROVE  LineInv' /\ WorkerInv' /\ AggregatedCoversItsArms'
<1> USE DEF record, runs, job, locals, worker, seen
<1>0. /\ UNCHANGED <<kind, arms, holder, door, cut>> /\ Grows
      /\ \A e \in Exps : Moves(e)
  BY WorkMoves DEF Grows, Moves
<1>a. UNCHANGED report => \/ AggregatedCoversItsArms'
                          \/ \E e \in Exps : status[e] = "running" /\ status'[e] = "aggregated"
  BY <1>0 DEF AggregatedCoversItsArms, Moves
<1>b. \A n : /\ OfASweep(n) <=> OfASweep(n)'
             /\ Measured(n) => Measured(n)'
  BY <1>0, SweepsGrow DEF OfASweep
<1>1. ASSUME NEW j \in Jobs, Claim(j)
      PROVE  LineInv' /\ WorkerInv' /\ AggregatedCoversItsArms'
  <2>1. LineInv'
    BY <1>0, <1>1, LineStays DEF Claim, TypeOK
  <2>2. /\ run' = j /\ task' = line[j] /\ line[j] \in Tasks
        /\ at = "idle" /\ ~stop /\ todo = {} /\ exp = None
        /\ at' = CASE line[j] \in {"answer", "resume"} -> "answering"
                   [] line[j] = "judge" -> "reviving"
                   [] OTHER -> "starting"
        /\ UNCHANGED <<record, stop, locals>>
    BY <1>1 DEF Claim, TypeOK, WorkerInv
  <2>3. j # None
    BY ExperimentAssumption DEF Jobs
  <2>4. /\ line[j] \in {"answer", "resume"} => j \in Names /\ OfASweep(j)
        /\ line[j] = "judge" => j \in Names
        /\ line[j] = "compare" => Measured(j)
    BY <2>2 DEF LineInv, Tasks
  <2>5. /\ run' \in {j} /\ task' \in Tasks /\ todo' = {} /\ exp' = None /\ ~stop'
        /\ at' \in {"answering", "reviving", "starting"}
        /\ at' = "answering" => task' \in {"answer", "resume"} /\ run' \in Names
        /\ at' = "reviving" => task' = "judge" /\ run' \in Names
        /\ at' = "starting" => task' = "compare"
    BY <2>2, <2>4 DEF Tasks
  <2>6. /\ at' = "answering" => OfASweep(run)'
        /\ at' = "starting" => Measured(run)'
    BY <1>0, <2>2, <2>4, <2>5 DEF Tasks, OfASweep, Measured
  <2>7. WorkerInv'
    BY <2>3, <2>5, <2>6 DEF WorkerInv
  <2> QED
    BY <1>1, <2>1, <2>7 DEF Claim, AggregatedCoversItsArms
<1>2. CASE Returns
  BY <1>0, <1>2, LeavesHand DEF Returns, AggregatedCoversItsArms
<1>3. CASE GivesUp
  <2>1. AggregatedCoversItsArms'
    BY <1>0, <1>3, FailedOnIs DEF GivesUp, AggregatedCoversItsArms
  <2> QED
    BY <1>0, <1>3, <2>1, LeavesHand DEF GivesUp
<1>4. CASE Answers
  <2>1. run \in Names
    BY <1>4 DEF Answers, WorkerInv
  <2>2. LineInv'
    BY <1>0, <1>4, <2>1, LineStays DEF Answers, TypeOK
  <2>3. WorkerInv'
    BY <1>4 DEF Answers, Idles, WorkerInv
  <2> QED
    BY <1>4, <2>2, <2>3 DEF Answers, AggregatedCoversItsArms
<1>5. CASE Revives
  <2>1. LineInv'
    BY <1>0, <1>5, LineStays DEF Revives
  <2>2. WorkerInv'
    BY <1>5 DEF Revives, WorkerInv
  <2>3. AggregatedCoversItsArms'
    BY <1>5 DEF Revives, AggregatedCoversItsArms
  <2> QED
    BY <2>1, <2>2, <2>3
<1>6. CASE Judges
  <2>0. run \in Names
    BY <1>6 DEF Judges, WorkerInv
  <2>1. LineInv'
    BY <1>0, <1>6, <2>0, LineStays DEF Judges, SweepsAgain, TypeOK
  <2>2. WorkerInv'
    BY <1>6 DEF Judges, Idles, WorkerInv
  <2>3. AggregatedCoversItsArms'
    BY <1>6, FailedOnIs DEF Judges, AggregatedCoversItsArms
  <2> QED
    BY <2>1, <2>2, <2>3
<1>7. CASE Lists \/ Looks \/ Reports \/ Measures
  <2>1. LineInv'
    BY <1>0, <1>7, LineStays DEF Lists, Looks, Reports, Measures
  <2>2. Measures => Measured(run)'
    BY <1>b DEF Measures, WorkerInv, Measured
  <2>3. WorkerInv'
    BY <1>0, <1>7, <2>2 DEF Lists, Looks, Reports, Measures, WorkerInv, TypeOK
  <2>4. AggregatedCoversItsArms'
    BY <1>7 DEF Lists, Looks, Reports, Measures, AggregatedCoversItsArms
  <2> QED
    BY <2>1, <2>3, <2>4
<1>8. CASE Finishes
  BY <1>0, <1>8, LeavesHand DEF Finishes, AggregatedCoversItsArms
<1>9. CASE Records
  <2>1. LineInv'
    BY <1>0, <1>9, LineStays DEF Records
  <2>2. WorkerInv'
    BY <1>9 DEF Records, WorkerInv
  <2>3. exp \in Exps /\ read = arms[exp]
    BY <1>9 DEF Records, WorkerInv
  <2>4. AggregatedCoversItsArms'
    BY <1>0, <1>9, <2>3 DEF Records, Recorded, AggregatedCoversItsArms, TypeOK
  <2> QED
    BY <2>1, <2>2, <2>4
<1>10. ASSUME NEW e \in Exps, RevivesSibling(e)
       PROVE  LineInv' /\ WorkerInv' /\ AggregatedCoversItsArms'
  <2>1. LineInv'
    BY <1>0, <1>10, LineStays DEF RevivesSibling
  <2>2. WorkerInv'
    BY <1>10 DEF RevivesSibling, WorkerInv
  <2>3. AggregatedCoversItsArms'
    BY <1>10 DEF RevivesSibling, AggregatedCoversItsArms, TypeOK
  <2> QED
    BY <2>1, <2>2, <2>3
<1>11. CASE Starts
  <2>1. LineInv'
    BY <1>0, <1>11, LineStays DEF Starts
  <2>2. Measured(run)'
    BY <1>0, <1>11 DEF Starts, WorkerInv, Measured, Moves
  <2>3. WorkerInv'
    BY <1>0, <1>11, <2>2 DEF Starts, WorkerInv
  <2>4. AggregatedCoversItsArms'
    BY <1>11 DEF Starts, AggregatedCoversItsArms, TypeOK
  <2> QED
    BY <2>1, <2>3, <2>4
<1>12. CASE Breaks
  <2>1. AggregatedCoversItsArms'
    BY <1>12 DEF Breaks, AggregatedCoversItsArms, TypeOK
  <2> QED
    BY <1>0, <1>12, <2>1, LeavesHand DEF Breaks
<1>13. CASE Lands
  <2>1. run \in Exps /\ read = arms[run]
    BY <1>13, HandIs DEF Lands, WorkerInv
  <2>2. AggregatedCoversItsArms'
    BY <1>0, <1>13, <2>1 DEF Lands, Recorded, AggregatedCoversItsArms, TypeOK
  <2> QED
    BY <1>0, <1>13, <2>2, LeavesHand DEF Lands
<1> QED
  BY <1>1, <1>2, <1>3, <1>4, <1>5, <1>6, <1>7, <1>8, <1>9, <1>10, <1>11, <1>12, <1>13 DEF Work

-----------------------------------------------------------------------------
(* Every step keeps what holds of the record. *)

LEMMA InitSeries == Init => SeriesInv
<1> SUFFICES ASSUME Init PROVE SeriesInv
  OBVIOUS
<1>1. TypeOK
  BY InitType
<1>2. \A r \in Requests : door[r].at = "fresh"
  BY DEF Init, Rest
<1>3. DoorsInv
  BY <1>2 DEF Init, DoorsInv, Held, Engaged
<1>4. CopiesInv
  BY <1>2 DEF Init, CopiesInv, Flying
<1>5. LineInv /\ WorkerInv
  BY DEF Init, LineInv, WorkerInv
<1>6. AggregatedCoversItsArms /\ NoOrphanedCopies /\ NoNameTwice
  BY DEF Init, AggregatedCoversItsArms, NoOrphanedCopies, NoNameTwice
<1> QED
  BY <1>1, <1>3, <1>4, <1>5, <1>6 DEF SeriesInv

(* The doors that touch neither arms nor rows. *)
LEMMA PlainDoorsKeepCopies ==
  ASSUME TypeOK, CopiesInv, NoOrphanedCopies, NoNameTwice, NEW r \in Requests,
         UNCHANGED <<kind, arms, rows, cut>>,
         \A e \in Exps : status'[e] = "none" => status[e] = "none",
         \A q \in Requests \ {r} : door'[q] = door[q],
         Flying(r) => Flying(r)' /\ door'[r].names = door[r].names,
         Flying(r)' => Flying(r)
  PROVE  CopiesInv' /\ NoOrphanedCopies' /\ NoNameTwice'
<1>1. \A q \in Requests : /\ Flying(q) => Flying(q)' /\ door'[q].names = door[q].names
                          /\ Flying(q)' => Flying(q)
  BY DEF Flying
<1>2. CopiesInv'
  BY <1>1, CopiesStay, SheetOf DEF TypeOK
<1>3. NoOrphanedCopies'
  BY <1>1, OwnersStay
<1> QED
  BY <1>2, <1>3, NamesStay

LEMMA DoorsKeepSeries ==
  ASSUME SeriesInv, NEW r \in Requests,
         \/ \E e \in Exps, S \in SUBSET Names :
              CreateRejudge(r, e, S) \/ CreateGeneration(r, e, S) \/ CreateRetrieval(r, e, S) \/ AddLooks(r, e, S)
         \/ AddCopies(r) \/ Commits(r) \/ Fails(r) \/ DeleteRuns(r)
         \/ \E e \in Exps : ConcludeLooks(r, e)
         \/ ConcludeWrites(r)
         \/ \E j \in Jobs : Cancel(r, j)
         \/ \E n \in Names : Again(r, n)
  PROVE  SeriesInv'
<1> USE DEF SeriesInv, record, runs, seen
<1>1. ASSUME NEW e \in Exps, NEW S \in SUBSET Names, CreateRejudge(r, e, S)
      PROVE  SeriesInv'
  <2>1. /\ Copies(r, e, S) /\ ~Flying(r) /\ UNCHANGED <<kind, arms, status>>
    BY <1>1 DEF CreateRejudge, Asks, Flying
  <2>2. TypeOK' /\ DoorsInv'
    BY <1>1, StartsType, CreateRejudgeDoors
  <2>3. CopiesInv' /\ NoOrphanedCopies' /\ NoNameTwice'
    BY <2>1, CopyingKeepsCopies, CopyingKeepsOwners, NamesStay
  <2>4. LineInv' /\ WorkerInv' /\ AggregatedCoversItsArms'
    BY <1>1, OtherDoorsKeepWork
  <2> QED
    BY <2>2, <2>3, <2>4
<1>2. ASSUME NEW e \in Exps, NEW S \in SUBSET Names, AddLooks(r, e, S)
      PROVE  SeriesInv'
  <2>1. TypeOK' /\ DoorsInv'
    BY <1>2, StartsType, AddLooksDoors
  <2>2. /\ UNCHANGED <<kind, arms, status, rows, cut>>
        /\ ~Flying(r) /\ ~Flying(r)'
        /\ \A q \in Requests \ {r} : door'[q] = door[q]
    BY <1>2, OpensIs DEF AddLooks, Asks, Flying
  <2>3. CopiesInv' /\ NoOrphanedCopies' /\ NoNameTwice'
    BY <2>2, PlainDoorsKeepCopies
  <2>4. LineInv' /\ WorkerInv' /\ AggregatedCoversItsArms'
    BY <1>2, OtherDoorsKeepWork
  <2> QED
    BY <2>1, <2>3, <2>4
<1>3. ASSUME NEW e \in Exps, NEW S \in SUBSET Names,
             CreateGeneration(r, e, S) \/ CreateRetrieval(r, e, S)
      PROVE  SeriesInv'
  <2>1. TypeOK' /\ DoorsInv'
    BY <1>3, StartsType, CreatesKeepDoors
  <2>2. CopiesInv' /\ \A f \in Exps : arms[f] \subseteq arms'[f]
    BY <1>3, CreatesKeepCopies
  <2>3. /\ UNCHANGED <<kind, rows, cut>> /\ kind[e] # "rejudge"
        /\ \A f \in Exps \ {e} : arms'[f] = arms[f]
        /\ ~Flying(r) /\ \A q \in Requests \ {r} : door'[q] = door[q]
    BY <1>3, DoneIs DEF CreateGeneration, CreateRetrieval, Asks, Flying, TypeOK
  <2>4. NoOrphanedCopies' /\ NoNameTwice'
    BY <2>2, <2>3, OwnersStay, NamesStay DEF Flying
  <2>5. LineInv' /\ WorkerInv' /\ AggregatedCoversItsArms'
    BY <1>3, CreatesKeepWork
  <2> QED
    BY <2>1, <2>2, <2>4, <2>5
<1>4. CASE AddCopies(r)
  <2>0. door[r].exp \in Exps /\ door[r].names \in SUBSET Names
    BY <1>4, EngagedIs DEF AddCopies, Engaged
  <2>1. /\ Copies(r, door[r].exp, door[r].names)
        /\ ~Flying(r) /\ UNCHANGED <<kind, arms, status>>
    BY <1>4 DEF AddCopies, Flying
  <2>2. PICK e \in Exps, S \in SUBSET Names : Copies(r, e, S)
    BY <2>0, <2>1
  <2>3. TypeOK' /\ DoorsInv'
    BY <1>4, GoesOnType, AddCopiesDoors
  <2>4. CopiesInv' /\ NoOrphanedCopies' /\ NoNameTwice'
    BY <2>1, <2>2, CopyingKeepsCopies, CopyingKeepsOwners, NamesStay
  <2>5. LineInv' /\ WorkerInv' /\ AggregatedCoversItsArms'
    BY <1>4, OtherDoorsKeepWork
  <2> QED
    BY <2>3, <2>4, <2>5
<1>5. CASE Commits(r)
  <2>1. TypeOK' /\ DoorsInv'
    BY <1>5, GoesOnType, GoesOnKeepsDoors
  <2>2. CopiesInv' /\ NoOrphanedCopies' /\ NoNameTwice'
    BY <1>5, CommitsKeepCopies, CommitsKeepOwners, CommitsKeepNames
  <2>3. LineInv' /\ WorkerInv' /\ AggregatedCoversItsArms'
    BY <1>5, CommitsKeepWork
  <2> QED
    BY <2>1, <2>2, <2>3
<1>6. CASE Fails(r)
  <2>1. TypeOK' /\ DoorsInv'
    BY <1>6, GoesOnType, GoesOnKeepsDoors
  <2>2. /\ UNCHANGED <<kind, arms, status, rows, cut>>
        /\ Flying(r) /\ Flying(r)' /\ door'[r].names = door[r].names
        /\ \A q \in Requests \ {r} : door'[q] = door[q]
    BY <1>6, UndoesIs DEF Fails, Flying
  <2>3. CopiesInv' /\ NoOrphanedCopies' /\ NoNameTwice'
    BY <2>2, PlainDoorsKeepCopies
  <2>4. LineInv' /\ WorkerInv' /\ AggregatedCoversItsArms'
    BY <1>6, OtherDoorsKeepWork
  <2> QED
    BY <2>1, <2>3, <2>4
<1>7. CASE DeleteRuns(r)
  <2>1. TypeOK' /\ DoorsInv'
    BY <1>7, GoesOnType, GoesOnKeepsDoors
  <2>2. CopiesInv' /\ NoOrphanedCopies'
    BY <1>7, DeletesKeepCopies, DeletesKeepOwners
  <2>3. NoNameTwice'
    BY <1>7, NamesStay DEF DeleteRuns
  <2>4. LineInv' /\ WorkerInv' /\ AggregatedCoversItsArms'
    BY <1>7, OtherDoorsKeepWork
  <2> QED
    BY <2>1, <2>2, <2>3, <2>4
<1>8. CASE (\E e \in Exps : ConcludeLooks(r, e)) \/ ConcludeWrites(r)
  <2>1. TypeOK' /\ DoorsInv'
    BY <1>8, OtherDoorsType, ConcludesKeepDoors
  <2>2. /\ UNCHANGED <<kind, arms, rows, cut>>
        /\ ~Flying(r) /\ ~Flying(r)'
        /\ \A q \in Requests \ {r} : door'[q] = door[q]
    <3>1. ASSUME NEW e \in Exps, ConcludeLooks(r, e)
          PROVE  /\ door'[r].at = "concluding" /\ door[r].at = "fresh"
                 /\ UNCHANGED <<kind, arms, rows, cut>>
                 /\ \A q \in Requests \ {r} : door'[q] = door[q]
      BY <3>1, OpensIs DEF ConcludeLooks, Asks
    <3>2. ASSUME ConcludeWrites(r)
          PROVE  /\ door'[r].at = "done" /\ door[r].at = "concluding"
                 /\ UNCHANGED <<kind, arms, rows, cut>>
                 /\ \A q \in Requests \ {r} : door'[q] = door[q]
      BY <3>2, DoneIs DEF ConcludeWrites
    <3> QED
      BY <1>8, <3>1, <3>2 DEF Flying
  <2>3. \A e \in Exps : status'[e] = "none" => status[e] = "none"
    BY <1>8 DEF ConcludeLooks, ConcludeWrites, TypeOK
  <2>4. CopiesInv' /\ NoOrphanedCopies' /\ NoNameTwice'
    BY <2>2, <2>3, PlainDoorsKeepCopies
  <2>5. LineInv' /\ WorkerInv' /\ AggregatedCoversItsArms'
    BY <1>8, OtherDoorsKeepWork
  <2> QED
    BY <2>1, <2>4, <2>5
<1>9. CASE (\E j \in Jobs : Cancel(r, j)) \/ (\E n \in Names : Again(r, n))
  <2>1. TypeOK' /\ DoorsInv' /\ \A e \in Exps : Moves(e)
    BY <1>9, OtherDoorsType, AsksKeepDoors
  <2>2. /\ UNCHANGED <<kind, arms, rows, cut>>
        /\ ~Flying(r) /\ ~Flying(r)'
        /\ \A q \in Requests \ {r} : door'[q] = door[q]
    BY <1>9, DoneIs DEF Cancel, Again, Asks, Flying
  <2>3. CopiesInv' /\ NoOrphanedCopies' /\ NoNameTwice'
    BY <2>1, <2>2, PlainDoorsKeepCopies DEF Moves
  <2>4. LineInv' /\ WorkerInv' /\ AggregatedCoversItsArms'
    BY <1>9, <2>1, AsksKeepWork
  <2> QED
    BY <2>1, <2>3, <2>4
<1> QED
  BY <1>1, <1>2, <1>3, <1>4, <1>5, <1>6, <1>7, <1>8, <1>9

LEMMA NextSeries ==
  ASSUME SeriesInv, [Next]_vars
  PROVE  SeriesInv'
<1>1. CASE Work \/ Returns
  <2>1. TypeOK' /\ UNCHANGED <<kind, holder, door>> /\ \A e \in Exps : Moves(e)
    BY <1>1, WorkType, WorkMoves DEF SeriesInv
  <2>2. DoorsInv'
    BY <2>1, DoorsStay DEF SeriesInv
  <2> QED
    BY <1>1, <2>1, <2>2, WorkKeepsCopies, WorkKeepsWork DEF SeriesInv
<1>2. CASE UNCHANGED vars
  <2> USE DEF vars, record, runs, worker, job, locals, seen
  <2>1. TypeOK' /\ DoorsInv' /\ CopiesInv'
    BY <1>2 DEF SeriesInv, TypeOK, DoorsInv, Held, CopiesInv, Flying
  <2>2. LineInv' /\ WorkerInv'
    BY <1>2 DEF SeriesInv, LineInv, WorkerInv, OfASweep, Measured
  <2> QED
    BY <1>2, <2>1, <2>2
    DEF SeriesInv, AggregatedCoversItsArms, NoOrphanedCopies, NoNameTwice, InFlight
<1> QED
  BY <1>1, <1>2, DoorsKeepSeries DEF Next

(* What holds of the record of experiments whatever the names: the requests *)
(* and the rows they hold, the copies and their owners, the jobs in line    *)
(* and the one in hand.                                                     *)
THEOREM SeriesInductive == Spec => []SeriesInv
  BY InitSeries, NextSeries, PTL DEF Spec

-----------------------------------------------------------------------------
(* What a step never does. *)

LEMMA StepsKeep ==
  ASSUME SeriesInv, [Next]_vars
  PROVE  /\ \A e \in Exps :
              \/ Moves(e)
              \/ status[e] \in {"none", "aggregated"} /\ status'[e] = "running"
              \/ status[e] # "none" /\ status'[e] = "concluded"
         /\ \A e \in Exps : kind[e] = "rejudge" =>
              \A n \in arms[e] : rows[n] # "none" => rows'[n] # "none"
<1> USE DEF SeriesInv, record, runs, seen
<1>0. \A e \in Exps : arms[e] \subseteq Names
  BY DEF TypeOK
<1>1. CASE Work \/ Returns
  BY <1>0, <1>1, WorkMoves, WorkKeepsRows
<1>2. ASSUME NEW r \in Requests, Commits(r)
      PROVE  /\ \A e \in Exps : Moves(e) \/ (status[e] \in {"none", "aggregated"} /\ status'[e] = "running")
             /\ UNCHANGED rows
  <2>1. PICK e \in Exps : e = door[r].exp /\ status[e] \in {"none", "aggregated"}
    BY <1>2, EngagedIs DEF Commits, Engaged, Held
  <2> QED
    BY <1>2, <2>1 DEF Commits, TypeOK, Moves
<1>3. ASSUME NEW r \in Requests, NEW e \in Exps, NEW S \in SUBSET Names,
             CreateRejudge(r, e, S) \/ CreateGeneration(r, e, S) \/ CreateRetrieval(r, e, S) \/ AddLooks(r, e, S)
      PROVE  /\ \A f \in Exps : Moves(f) \/ (status[f] = "none" /\ status'[f] = "running")
             /\ \A n \in Names : rows[n] # "none" => rows'[n] # "none"
  BY <1>3, CopiesIs DEF CreateRejudge, CreateGeneration, CreateRetrieval, AddLooks, TypeOK, Moves, Free
<1>4. ASSUME NEW r \in Requests, AddCopies(r)
      PROVE  UNCHANGED status /\ \A n \in Names : rows[n] # "none" => rows'[n] # "none"
  <2>1. door[r].exp \in Exps /\ door[r].names \in SUBSET Names
    BY <1>4, EngagedIs DEF AddCopies, Engaged
  <2>2. PICK e \in Exps, S \in SUBSET Names : Copies(r, e, S)
    BY <1>4, <2>1 DEF AddCopies
  <2> QED
    BY <1>4, <2>2, CopiesIs DEF AddCopies, Free
<1>5. ASSUME NEW r \in Requests, DeleteRuns(r)
      PROVE  /\ UNCHANGED status
             /\ \A e \in Exps : kind[e] = "rejudge" => \A n \in arms[e] : rows'[n] = rows[n]
  BY <1>5, DeletesKeepCopies DEF DeleteRuns
<1>6. ASSUME NEW r \in Requests, ConcludeWrites(r)
      PROVE  /\ \A e \in Exps : status'[e] = status[e] \/ (status[e] # "none" /\ status'[e] = "concluded")
             /\ UNCHANGED rows
  BY <1>6 DEF ConcludeWrites, DoorsInv, TypeOK
<1>7. ASSUME NEW r \in Requests,
             \/ Fails(r) \/ \E e \in Exps : ConcludeLooks(r, e)
             \/ (\E j \in Jobs : Cancel(r, j)) \/ \E n \in Names : Again(r, n)
      PROVE  (\A e \in Exps : Moves(e)) /\ UNCHANGED rows
  BY <1>7, AsksKeepDoors DEF Fails, ConcludeLooks, Cancel, Again, Moves
<1>8. CASE UNCHANGED vars
  BY <1>8 DEF vars, Moves
<1>9. CASE \E r \in Requests : Commits(r)
  BY <1>2, <1>9
<1>10. CASE \E r \in Requests, e \in Exps, S \in SUBSET Names :
              CreateRejudge(r, e, S) \/ CreateGeneration(r, e, S) \/ CreateRetrieval(r, e, S) \/ AddLooks(r, e, S)
  BY <1>0, <1>3, <1>10
<1>11. CASE \E r \in Requests : AddCopies(r)
  BY <1>0, <1>4, <1>11 DEF Moves
<1>12. CASE \E r \in Requests : DeleteRuns(r)
  BY <1>5, <1>12 DEF Moves
<1>13. CASE \E r \in Requests : ConcludeWrites(r)
  BY <1>6, <1>13 DEF Moves
<1>14. CASE \E r \in Requests :
             \/ Fails(r) \/ \E e \in Exps : ConcludeLooks(r, e)
             \/ (\E j \in Jobs : Cancel(r, j)) \/ \E n \in Names : Again(r, n)
  BY <1>7, <1>14
<1> QED
  BY <1>1, <1>8, <1>9, <1>10, <1>11, <1>12, <1>13, <1>14 DEF Next

(* The status of an experiment follows the table of transitions but for a *)
(* conclusion, and no rejudge's arm ever loses its rows: app/models/      *)
(* experiment.py, and the deletion of a failed start's copies.            *)
THEOREM SeriesSteps == Spec => StepsKeepTheSeries
<1> DEFINE Follows ==
      \A e \in Exps :
        <<status[e], status'[e]>> \in
          {<<s, s>> : s \in {"none", "running", "aggregated", "concluded", "failed"}} \cup
          {<<"none", "running">>, <<"running", "aggregated">>, <<"running", "failed">>,
           <<"aggregated", "running">>, <<"failed", "running">>} \cup
          {<<s, "concluded">> : s \in {"aggregated", "running", "failed"}}
    Spares ==
      \A e \in Exps : kind[e] = "rejudge" =>
        \A n \in arms[e] : rows[n] # "none" => rows'[n] # "none"
<1>1. SeriesInv /\ [Next]_vars => [Follows]_vars
  <2> SUFFICES ASSUME SeriesInv, [Next]_vars, NEW e \in Exps
               PROVE  <<status[e], status'[e]>> \in
                        {<<s, s>> : s \in {"none", "running", "aggregated", "concluded", "failed"}} \cup
                        {<<"none", "running">>, <<"running", "aggregated">>, <<"running", "failed">>,
                         <<"aggregated", "running">>, <<"failed", "running">>} \cup
                        {<<s, "concluded">> : s \in {"aggregated", "running", "failed"}}
    OBVIOUS
  <2>1. status[e] \in {"none", "running", "aggregated", "concluded", "failed"}
    BY DEF SeriesInv, TypeOK
  <2>2. \/ status'[e] = status[e]
        \/ status[e] = "running" /\ status'[e] \in {"aggregated", "failed"}
        \/ status[e] = "failed" /\ status'[e] = "running"
        \/ status[e] \in {"none", "aggregated"} /\ status'[e] = "running"
        \/ status[e] \in {"aggregated", "running", "failed"} /\ status'[e] = "concluded"
    BY <2>1, StepsKeep DEF Moves
  <2> QED
    BY <2>1, <2>2
<1>2. SeriesInv /\ [Next]_vars => [Spares]_vars
  BY StepsKeep
<1>3. Spec => [][Follows]_vars /\ [][Spares]_vars
  BY <1>1, <1>2, SeriesInductive, PTL DEF Spec
<1> QED
  BY <1>3 DEF StepsKeepTheSeries, KeepsTransitions, RowsOfArmsStay

-----------------------------------------------------------------------------
(* Why no series is left without a job: what is failed was hurt, and a run *)
(* that is owed verdicts has a job, where no name is both copied and swept *)

NamesApart == Copied \cap Swept = {}

LEMMA ArmsAre ==
  ASSUME SeriesInv, NEW e \in Exps
  PROVE  /\ arms[e] \subseteq Names
         /\ kind[e] = "rejudge" \/ kind[e] = "generation" \/ kind[e] = "retrieval"
         /\ \A n \in arms[e] : n \in Jobs /\ n \notin Exps
         /\ kind[e] = "rejudge" => \A n \in arms[e] : rows[n] # "none"
         /\ kind[e] = "generation" => arms[e] \subseteq Swept
         /\ status[e] = "none" => arms[e] = {}
  BY ExperimentAssumption DEF SeriesInv, TypeOK, CopiesInv, Jobs

(* A swept run never loses its rows, nor an arm that is judged its verdicts. *)
LEMMA SweptKeepRows ==
  ASSUME NamesApart, SeriesInv, [Next]_vars
  PROVE  \A n \in Swept : /\ rows[n] # "none" => rows'[n] # "none"
                          /\ rows[n] = "judged" => rows'[n] = "judged"
<1> USE DEF SeriesInv, record, runs, seen
<1>0. Swept \subseteq Names
  BY ExperimentAssumption
<1>1. CASE Work \/ Returns
  BY <1>0, <1>1, WorkKeepsRows
<1>2. ASSUME NEW r \in Requests, NEW e \in Exps, NEW S \in SUBSET Names, Copies(r, e, S)
      PROVE  \A n \in Names : /\ rows[n] # "none" => rows'[n] # "none"
                              /\ rows[n] = "judged" => rows'[n] = "judged"
  BY <1>2, CopiesIs DEF Free
<1>3. ASSUME NEW r \in Requests, AddCopies(r)
      PROVE  \A n \in Names : /\ rows[n] # "none" => rows'[n] # "none"
                              /\ rows[n] = "judged" => rows'[n] = "judged"
  <2>1. door[r].exp \in Exps /\ door[r].names \in SUBSET Names
    BY <1>3, EngagedIs DEF AddCopies, Engaged
  <2> QED
    BY <1>2, <1>3, <2>1 DEF AddCopies
<1>4. ASSUME NEW r \in Requests, DeleteRuns(r)
      PROVE  \A n \in Swept : rows'[n] = rows[n]
  <2>1. door[r].names \subseteq Copied
    BY <1>4 DEF DeleteRuns, DoorsInv, Held, Engaged
  <2> QED
    BY <1>0, <1>4, <2>1 DEF DeleteRuns, NamesApart, TypeOK
<1>5. CASE \E r \in Requests, e \in Exps, S \in SUBSET Names : CreateRejudge(r, e, S)
  BY <1>0, <1>2, <1>5 DEF CreateRejudge
<1>6. CASE \E r \in Requests : AddCopies(r)
  BY <1>0, <1>3, <1>6
<1>7. CASE \E r \in Requests : DeleteRuns(r)
  BY <1>4, <1>7
<1>8. CASE UNCHANGED rows
  BY <1>8
<1>9. CASE \E r \in Requests :
             \/ \E e \in Exps, S \in SUBSET Names :
                  CreateGeneration(r, e, S) \/ CreateRetrieval(r, e, S) \/ AddLooks(r, e, S)
             \/ Commits(r) \/ Fails(r) \/ ConcludeWrites(r)
             \/ (\E e \in Exps : ConcludeLooks(r, e))
             \/ (\E j \in Jobs : Cancel(r, j)) \/ \E n \in Names : Again(r, n)
  BY <1>8, <1>9 DEF CreateGeneration, CreateRetrieval, AddLooks, Commits, Fails, ConcludeWrites,
                    ConcludeLooks, Cancel, Again
<1>10. CASE UNCHANGED vars
  BY <1>8, <1>10 DEF vars
<1> QED
  BY <1>1, <1>5, <1>6, <1>7, <1>9, <1>10 DEF Next

LEMMA ArmsKeepVerdicts ==
  ASSUME NamesApart, SeriesInv, [Next]_vars, NEW e \in Exps, Judged(e)
  PROVE  \A n \in arms[e] : rows[n] = "judged" => rows'[n] = "judged"
<1> USE DEF SeriesInv, record, runs, seen
<1>1. CASE kind[e] = "generation"
  BY <1>1, ArmsAre, SweptKeepRows
<1>2. CASE kind[e] = "rejudge"
  <2>0. arms[e] \subseteq Names
    BY ArmsAre
  <2>1. CASE Work \/ Returns
    BY <2>0, <2>1, WorkKeepsRows
  <2>2. ASSUME NEW r \in Requests, NEW f \in Exps, NEW S \in SUBSET Names, Copies(r, f, S)
        PROVE  \A n \in Names : rows[n] = "judged" => rows'[n] = "judged"
    BY <2>2, CopiesIs DEF Free
  <2>3. CASE \E r \in Requests, f \in Exps, S \in SUBSET Names : CreateRejudge(r, f, S)
    BY <2>0, <2>2, <2>3 DEF CreateRejudge
  <2>4. ASSUME NEW r \in Requests, AddCopies(r)
        PROVE  \A n \in Names : rows[n] = "judged" => rows'[n] = "judged"
    <3>1. door[r].exp \in Exps /\ door[r].names \in SUBSET Names
      BY <2>4, EngagedIs DEF AddCopies, Engaged
    <3> QED
      BY <2>2, <2>4, <3>1 DEF AddCopies
  <2>5. CASE \E r \in Requests : AddCopies(r)
    BY <2>0, <2>4, <2>5
  <2>6. CASE \E r \in Requests : DeleteRuns(r)
    BY <1>2, <2>6, DeletesKeepCopies
  <2>7. CASE UNCHANGED rows
    BY <2>7
  <2>8. CASE \E r \in Requests :
               \/ \E f \in Exps, S \in SUBSET Names :
                    CreateGeneration(r, f, S) \/ CreateRetrieval(r, f, S) \/ AddLooks(r, f, S)
               \/ Commits(r) \/ Fails(r) \/ ConcludeWrites(r)
               \/ (\E f \in Exps : ConcludeLooks(r, f))
               \/ (\E j \in Jobs : Cancel(r, j)) \/ \E n \in Names : Again(r, n)
    BY <2>7, <2>8 DEF CreateGeneration, CreateRetrieval, AddLooks, Commits, Fails, ConcludeWrites,
                      ConcludeLooks, Cancel, Again
  <2>9. CASE UNCHANGED vars
    BY <2>7, <2>9 DEF vars
  <2> QED
    BY <2>1, <2>3, <2>5, <2>6, <2>8, <2>9 DEF Next
<1> QED
  BY <1>1, <1>2, ArmsAre DEF Judged

(* A request at work is about some name. *)
LEMMA EngagedHaveNames ==
  ASSUME SeriesInv, DebtInv, [Next]_vars
  PROVE  \A q \in Requests : door'[q].at \in Engaged => door'[q].names # {}
<1> USE DEF SeriesInv, record, runs, seen
<1>0. \A q \in Requests : door[q].at \in Engaged => door[q].names # {}
  BY DEF DebtInv
<1>1. ASSUME NEW r \in Requests, NEW e \in Exps, NEW S \in SUBSET Names,
             S # {}, Copies(r, e, S) \/ AddLooks(r, e, S)
      PROVE  \A q \in Requests : door'[q].at \in Engaged => door'[q].names # {}
  <2>1. CASE Copies(r, e, S)
    BY <1>0, <1>1, <2>1, CopiesIs DEF Engaged
  <2>2. CASE AddLooks(r, e, S)
    <3>1. door' = [door EXCEPT ![r] = [at |-> "locked", exp |-> e, names |-> S]]
      BY <2>2 DEF AddLooks
    <3>2. door'[r].names = S /\ \A q \in Requests \ {r} : door'[q] = door[q]
      BY <3>1, OpensIs
    <3> QED
      BY <1>0, <1>1, <3>2
  <2> QED
    BY <1>1, <2>1, <2>2
<1>2. ASSUME NEW r \in Requests, AddCopies(r)
      PROVE  \A q \in Requests : door'[q].at \in Engaged => door'[q].names # {}
  <2>1. door[r].exp \in Exps /\ door[r].names \in SUBSET Names /\ door[r].names # {}
    BY <1>0, <1>2, EngagedIs DEF AddCopies, Engaged
  <2> QED
    BY <1>1, <1>2, <2>1 DEF AddCopies
<1>3. ASSUME NEW r \in Requests, Done(r)
      PROVE  \A q \in Requests : door'[q].at \in Engaged => door'[q].names # {}
  BY <1>0, <1>3, DoneIs DEF Engaged
<1>4. ASSUME NEW r \in Requests, Fails(r)
      PROVE  \A q \in Requests : door'[q].at \in Engaged => door'[q].names # {}
  <2>1. door[r].names # {}
    BY <1>0, <1>4 DEF Fails, Engaged
  <2> QED
    BY <1>0, <1>4, <2>1, UndoesIs
<1>5. ASSUME NEW r \in Requests, NEW e \in Exps, ConcludeLooks(r, e)
      PROVE  \A q \in Requests : door'[q].at \in Engaged => door'[q].names # {}
  BY <1>0, <1>5, OpensIs DEF ConcludeLooks, Engaged
<1>6. CASE UNCHANGED door
  BY <1>0, <1>6
<1>7. CASE Work \/ Returns
  BY <1>6, <1>7, WorkMoves
<1>8. CASE UNCHANGED vars
  BY <1>6, <1>8 DEF vars
<1>9. CASE \E r \in Requests :
             \/ \E e \in Exps, S \in SUBSET Names : CreateRejudge(r, e, S) \/ AddLooks(r, e, S)
             \/ AddCopies(r) \/ Fails(r) \/ \E e \in Exps : ConcludeLooks(r, e)
  BY <1>1, <1>2, <1>4, <1>5, <1>9 DEF CreateRejudge, AddLooks
<1>10. CASE \E r \in Requests :
              \/ \E e \in Exps, S \in SUBSET Names : CreateGeneration(r, e, S) \/ CreateRetrieval(r, e, S)
              \/ Commits(r) \/ DeleteRuns(r) \/ ConcludeWrites(r)
              \/ (\E j \in Jobs : Cancel(r, j)) \/ \E n \in Names : Again(r, n)
  BY <1>3, <1>10 DEF CreateGeneration, CreateRetrieval, Commits, DeleteRuns, ConcludeWrites, Cancel, Again
<1> QED
  BY <1>7, <1>8, <1>9, <1>10 DEF Next

(* The reports at hand are of experiments that are judged. *)
LEMMA TodoIsJudged ==
  ASSUME SeriesInv, DebtInv, [Next]_vars
  PROVE  \A e \in todo' : Judged(e)'
<1> USE DEF SeriesInv, record, runs, job, locals, worker, seen
<1>0. \A e \in todo : Judged(e)
  BY DEF DebtInv
<1>1. CASE Lists \/ \E e \in Exps : RevivesSibling(e)
  BY <1>0, <1>1 DEF Lists, RevivesSibling, Judged
<1>2. CASE Returns \/ GivesUp \/ Answers \/ Finishes \/ Breaks \/ Lands \/ Judges
  BY <1>0, <1>2 DEF Returns, GivesUp, Answers, Finishes, Breaks, Lands, Judges, Idles, Judged
<1>3. CASE (\E j \in Jobs : Claim(j)) \/ Revives \/ Looks \/ Reports \/ Records \/ Starts \/ Measures
  BY <1>0, <1>3 DEF Claim, Revives, Looks, Reports, Records, Starts, Measures, Judged
<1>4. CASE \E r \in Requests :
             \/ \E e \in Exps, S \in SUBSET Names :
                  \/ CreateRejudge(r, e, S) \/ CreateGeneration(r, e, S)
                  \/ CreateRetrieval(r, e, S) \/ AddLooks(r, e, S)
             \/ AddCopies(r) \/ Commits(r) \/ Fails(r) \/ DeleteRuns(r)
             \/ (\E e \in Exps : ConcludeLooks(r, e)) \/ ConcludeWrites(r)
             \/ (\E j \in Jobs : Cancel(r, j)) \/ \E n \in Names : Again(r, n)
  BY <1>0, <1>4 DEF CreateRejudge, CreateGeneration, CreateRetrieval, AddLooks, AddCopies, Commits, Fails,
                    DeleteRuns, ConcludeLooks, ConcludeWrites, Cancel, Again, Judged
<1>5. CASE UNCHANGED vars
  BY <1>0, <1>5 DEF vars, Judged
<1> QED
  BY <1>1, <1>2, <1>3, <1>4, <1>5 DEF Next, Work

(* What joins the line to be judged, of a sweep, has rows. *)
LEMMA JudgedHaveRows ==
  ASSUME NamesApart, SeriesInv, DebtInv, [Next]_vars
  PROVE  \A n \in Swept : line'[n] = "judge" \/ (run' = n /\ task' = "judge") => rows'[n] # "none"
<1> USE DEF SeriesInv, record, runs, job, locals, worker, seen
<1>0. /\ Swept \subseteq Names /\ None \notin Names
      /\ \A n \in Swept : n \in Jobs /\ n \notin Exps
  BY ExperimentAssumption DEF Jobs
<1>a. \A n \in Swept : line[n] = "judge" \/ (run = n /\ task = "judge") => rows[n] # "none"
  BY DEF DebtInv
<1>b. \A n \in Swept : rows[n] # "none" => rows'[n] # "none"
  BY SweptKeepRows
<1> DEFINE Slow == \A n \in Swept : /\ line'[n] = "judge" => line[n] = "judge" \/ rows'[n] # "none"
                                                               \/ (run = n /\ task = "judge")
                                    /\ run' = n /\ task' = "judge" => \/ run = n /\ task = "judge"
                                                                      \/ line[n] = "judge"
<1>1. SUFFICES Slow
  BY <1>a, <1>b
<1>2. CASE Returns \/ Breaks
  <2>1. at # "idle" /\ Idles
    BY <1>2 DEF Returns, Breaks
  <2>2. run' = None
    BY <2>1 DEF Idles
  <2>3. PutBack \/ UNCHANGED line
    BY <1>2 DEF Returns, Breaks
  <2>4. ASSUME NEW n \in Swept, line'[n] = "judge", line[n] # "judge"
        PROVE  run = n /\ task = "judge"
    BY <1>0, <2>1, <2>3, <2>4, PutsBack, HandIs DEF TypeOK
  <2> QED
    BY <1>0, <2>2, <2>4
<1>3. CASE Answers \/ Judges
  <2>1. run \in Names
    BY <1>3 DEF Answers, Judges, WorkerInv
  <2>2. \A n \in Swept : line'[n] = "judge" => line[n] = "judge" \/ rows'[n] # "none"
    <3>1. CASE Answers
      BY <1>0, <2>1, <3>1 DEF Answers, TypeOK
    <3>2. CASE Judges
      BY <1>0, <2>1, <3>2 DEF Judges, SweepsAgain, TypeOK
    <3> QED
      BY <1>3, <3>1, <3>2
  <2>3. run' = None \/ UNCHANGED <<run, task>>
    BY <1>3 DEF Answers, Judges, Idles
  <2> QED
    BY <1>0, <2>2, <2>3
<1>4. CASE \E j \in Jobs : Claim(j)
  BY <1>0, <1>4 DEF Claim, TypeOK
<1>5. CASE GivesUp \/ Finishes \/ Lands
  BY <1>0, <1>5 DEF GivesUp, Finishes, Lands, Idles
<1>6. CASE Revives \/ Lists \/ Looks \/ Reports \/ Records \/ Starts \/ Measures
           \/ \E e \in Exps : RevivesSibling(e)
  BY <1>0, <1>6 DEF Revives, Lists, Looks, Reports, Records, Starts, Measures, RevivesSibling
<1>7. ASSUME NEW r \in Requests, Commits(r)
      PROVE  Slow
  <2>1. door[r].names \subseteq Copied
    BY <1>7 DEF Commits, DoorsInv, Held, Engaged
  <2> QED
    BY <1>0, <1>7, <2>1 DEF Commits, NamesApart
<1>8. ASSUME NEW r \in Requests, NEW n \in Names, Again(r, n)
      PROVE  Slow
  BY <1>0, <1>8 DEF Again, TypeOK
<1>9. CASE \E r \in Requests :
             \/ \E e \in Exps, S \in SUBSET Names :
                  \/ CreateRejudge(r, e, S) \/ CreateGeneration(r, e, S)
                  \/ CreateRetrieval(r, e, S) \/ AddLooks(r, e, S)
             \/ AddCopies(r) \/ Fails(r) \/ DeleteRuns(r)
             \/ (\E e \in Exps : ConcludeLooks(r, e)) \/ ConcludeWrites(r)
             \/ (\E j \in Jobs : Cancel(r, j))
  BY <1>0, <1>9 DEF CreateRejudge, CreateGeneration, CreateRetrieval, AddLooks, AddCopies, Fails,
                    DeleteRuns, ConcludeLooks, ConcludeWrites, Cancel, TypeOK
<1>10. CASE UNCHANGED vars
  BY <1>10 DEF vars
<1>11. CASE Work \/ Returns
  BY <1>2, <1>3, <1>4, <1>5, <1>6, <1>11 DEF Work
<1> QED
  BY <1>7, <1>8, <1>9, <1>10, <1>11 DEF Next

(* Arms are only added to what was not begun or is aggregated. *)
LEMMA ArmsAreAdded ==
  ASSUME SeriesInv, [Next]_vars
  PROVE  /\ UNCHANGED kind
         /\ \A e \in Exps : \/ arms'[e] = arms[e]
                            \/ status[e] \in {"none", "aggregated"} /\ status'[e] = "running"
<1> USE DEF SeriesInv, record, runs, seen
<1>1. CASE Work \/ Returns
  BY <1>1, WorkMoves
<1>2. ASSUME NEW r \in Requests, Commits(r)
      PROVE  /\ UNCHANGED kind
             /\ \A e \in Exps : \/ arms'[e] = arms[e]
                                \/ status[e] \in {"none", "aggregated"} /\ status'[e] = "running"
  <2>1. PICK e \in Exps : e = door[r].exp /\ status[e] \in {"none", "aggregated"}
    BY <1>2, EngagedIs DEF Commits, Engaged, Held
  <2> QED
    BY <1>2, <2>1 DEF Commits, TypeOK
<1>3. CASE \E r \in Requests : Commits(r)
  BY <1>2, <1>3
<1>4. CASE \E r \in Requests :
             \/ \E e \in Exps, S \in SUBSET Names :
                  \/ CreateRejudge(r, e, S) \/ CreateGeneration(r, e, S)
                  \/ CreateRetrieval(r, e, S) \/ AddLooks(r, e, S)
             \/ AddCopies(r) \/ Fails(r) \/ DeleteRuns(r)
             \/ (\E e \in Exps : ConcludeLooks(r, e)) \/ ConcludeWrites(r)
             \/ (\E j \in Jobs : Cancel(r, j)) \/ \E n \in Names : Again(r, n)
  BY <1>4 DEF CreateRejudge, CreateGeneration, CreateRetrieval, AddLooks, AddCopies, Fails,
              DeleteRuns, ConcludeLooks, ConcludeWrites, Cancel, Again, TypeOK
<1>5. CASE UNCHANGED vars
  BY <1>5 DEF vars
<1> QED
  BY <1>1, <1>3, <1>4, <1>5 DEF Next

(* What a report was or will be computed over has all its verdicts. *)
LEMMA ReportsAreComplete ==
  ASSUME NamesApart, SeriesInv, DebtInv, [Next]_vars
  PROVE  /\ \A e \in Exps : (kind[e] = "rejudge" /\ status[e] = "aggregated" => SeriesComplete(e))'
         /\ (at \in {"reading", "recording"} /\ kind[exp] = "rejudge" => SeriesComplete(exp))'
<1> USE DEF SeriesInv, record, runs, job, locals, worker, seen
<1>0. /\ UNCHANGED kind
      /\ \A e \in Exps : \/ arms'[e] = arms[e]
                         \/ status[e] \in {"none", "aggregated"} /\ status'[e] = "running"
  BY ArmsAreAdded
<1>a. ASSUME NEW e \in Exps, kind[e] = "rejudge", SeriesComplete(e), arms'[e] = arms[e]
      PROVE  SeriesComplete(e)'
  BY <1>a, ArmsKeepVerdicts DEF SeriesComplete, Judged
<1>b. ASSUME NEW e \in Exps, kind[e] = "rejudge", status[e] = "aggregated", status'[e] = "aggregated"
      PROVE  SeriesComplete(e)'
  BY <1>0, <1>a, <1>b DEF DebtInv
<1>c. at \in {"reading", "recording"} =>
        /\ exp \in Exps /\ arms'[exp] = arms[exp]
        /\ kind[exp] = "rejudge" => SeriesComplete(exp)
  BY <1>0 DEF WorkerInv, DebtInv
<1>1. \A e \in Exps : status'[e] = "aggregated" =>
        \/ status[e] = "aggregated"
        \/ at = "recording" /\ e = exp
        \/ kind[e] = "retrieval"
  <2>1. CASE Records \/ Lands
    <3>1. at = "landing" => Measured(run)
      BY DEF WorkerInv
    <3> QED
      BY <1>c, <2>1, <3>1 DEF Records, Lands, Recorded, TypeOK, Measured
  <2>2. CASE GivesUp \/ Judges
    BY <2>2, FailedOnIs DEF GivesUp, Judges
  <2>3. CASE Revives \/ (\E f \in Exps : RevivesSibling(f)) \/ Starts \/ Breaks
    BY <2>3 DEF Revives, RevivesSibling, Starts, Breaks, TypeOK
  <2>4. CASE Returns \/ Answers \/ Lists \/ Looks \/ Reports \/ Finishes \/ Measures
             \/ \E j \in Jobs : Claim(j)
    BY <2>4 DEF Returns, Answers, Lists, Looks, Reports, Finishes, Measures, Claim
  <2>5. CASE \E r \in Requests :
               \/ \E e \in Exps, S \in SUBSET Names :
                    \/ CreateRejudge(r, e, S) \/ CreateGeneration(r, e, S)
                    \/ CreateRetrieval(r, e, S) \/ AddLooks(r, e, S)
               \/ AddCopies(r) \/ Commits(r) \/ Fails(r) \/ DeleteRuns(r)
               \/ (\E e \in Exps : ConcludeLooks(r, e)) \/ ConcludeWrites(r)
               \/ \E n \in Names : Again(r, n)
    BY <2>5 DEF CreateRejudge, CreateGeneration, CreateRetrieval, AddLooks, AddCopies, Commits, Fails,
                DeleteRuns, ConcludeLooks, ConcludeWrites, Again, TypeOK
  <2>6. CASE \E r \in Requests, j \in Jobs : Cancel(r, j)
    BY <2>6, FailedOnIs DEF Cancel
  <2>7. CASE UNCHANGED vars
    BY <2>7 DEF vars
  <2> QED
    BY <2>1, <2>2, <2>3, <2>4, <2>5, <2>6, <2>7 DEF Next, Work
<1>2. ASSUME NEW e \in Exps, kind'[e] = "rejudge", status'[e] = "aggregated"
      PROVE  SeriesComplete(e)'
  <2>1. kind[e] = "rejudge"
    BY <1>0, <1>2
  <2>2. CASE at = "recording" /\ e = exp
    BY <1>a, <1>c, <2>1, <2>2
  <2> QED
    BY <1>1, <1>2, <1>b, <2>1, <2>2
<1>3. at' \in {"reading", "recording"} =>
        \/ at \in {"reading", "recording"} /\ exp' = exp
        \/ /\ exp' = exp /\ exp \in Exps /\ SeriesComplete(exp)
           /\ arms'[exp] = arms[exp] /\ status[exp] = "running"
  <2>1. CASE Looks
    BY <2>1 DEF Looks, TypeOK
  <2>2. CASE Reports
    BY <2>2 DEF Reports
  <2>3. CASE \E j \in Jobs : Claim(j)
    BY <2>3 DEF Claim
  <2>4. CASE Answers \/ Revives \/ Judges \/ Lists \/ Records \/ Finishes \/ Starts \/ Measures
             \/ Breaks \/ Lands \/ GivesUp \/ Returns \/ \E f \in Exps : RevivesSibling(f)
    BY <2>4 DEF Answers, Revives, Judges, Lists, Records, Finishes, Starts, Measures,
                Breaks, Lands, GivesUp, Returns, RevivesSibling, Idles
  <2>5. CASE \E r \in Requests :
               \/ \E e \in Exps, S \in SUBSET Names :
                    \/ CreateRejudge(r, e, S) \/ CreateGeneration(r, e, S)
                    \/ CreateRetrieval(r, e, S) \/ AddLooks(r, e, S)
               \/ AddCopies(r) \/ Commits(r) \/ Fails(r) \/ DeleteRuns(r)
               \/ (\E e \in Exps : ConcludeLooks(r, e)) \/ ConcludeWrites(r)
               \/ (\E j \in Jobs : Cancel(r, j)) \/ \E n \in Names : Again(r, n)
    BY <2>5 DEF CreateRejudge, CreateGeneration, CreateRetrieval, AddLooks, AddCopies, Commits, Fails,
                DeleteRuns, ConcludeLooks, ConcludeWrites, Cancel, Again
  <2>6. CASE UNCHANGED vars
    BY <2>6 DEF vars
  <2> QED
    BY <2>1, <2>2, <2>3, <2>4, <2>5, <2>6 DEF Next, Work
<1>4. ASSUME at' \in {"reading", "recording"}, kind'[exp'] = "rejudge"
      PROVE  SeriesComplete(exp)'
  <2>1. PICK e \in Exps : e = exp
    BY <1>3, <1>4, <1>c
  <2>2. /\ exp' = e /\ kind[e] = "rejudge"
        /\ arms'[e] = arms[e] /\ SeriesComplete(e)
    BY <1>0, <1>3, <1>4, <1>c, <2>1
  <2>3. SeriesComplete(e)'
    BY <1>a, <2>2
  <2>4. exp' = e /\ arms'[e] = arms'[exp']
    BY <2>2
  <2> QED
    BY <2>3, <2>4 DEF SeriesComplete
<1> QED
  BY <1>2, <1>4

LEMMA DebtStays ==
  ASSUME NamesApart, SeriesInv, DebtInv, [Next]_vars
  PROVE  DebtInv'
  BY EngagedHaveNames, TodoIsJudged, JudgedHaveRows, ReportsAreComplete DEF DebtInv

(* An experiment fails over a job that was cancelled or given up. *)
LEMMA FailedAreHurt ==
  ASSUME SeriesInv, SeenInv, [Next]_vars
  PROVE  \A e \in Exps : (Judged(e) /\ status[e] = "failed" => arms[e] \cap hurt # {})'
<1> USE DEF SeriesInv, record, runs, job, locals, worker, seen
<1>0. /\ UNCHANGED kind
      /\ \A e \in Exps : \/ arms'[e] = arms[e]
                         \/ status'[e] = "running"
  BY ArmsAreAdded
<1> DEFINE Fair == /\ hurt \subseteq hurt'
                   /\ \A e \in Exps : Judged(e) /\ status'[e] = "failed" =>
                        \/ status[e] = "failed"
                        \/ \E n \in arms[e] : n \in hurt'
<1>1. SUFFICES Fair
  BY <1>0 DEF SeenInv, Judged
<1>2. CASE Breaks
  BY <1>2, HandIs DEF Breaks, WorkerInv, Measured, TypeOK, Judged
<1>3. CASE GivesUp \/ Judges
  BY <1>3, FailedOnIs DEF GivesUp, Judges
<1>4. ASSUME NEW r \in Requests, NEW j \in Jobs, Cancel(r, j)
      PROVE  Fair
  BY <1>4, FailedOnIs DEF Cancel
<1>5. CASE Records \/ Lands \/ Revives \/ (\E f \in Exps : RevivesSibling(f)) \/ Starts
  BY <1>5 DEF Records, Lands, Recorded, Revives, RevivesSibling, Starts, TypeOK
<1>6. CASE Returns \/ Answers \/ Lists \/ Looks \/ Reports \/ Finishes \/ Measures
           \/ \E j \in Jobs : Claim(j)
  BY <1>6 DEF Returns, Answers, Lists, Looks, Reports, Finishes, Measures, Claim
<1>7. CASE \E r \in Requests :
             \/ \E e \in Exps, S \in SUBSET Names :
                  \/ CreateRejudge(r, e, S) \/ CreateGeneration(r, e, S)
                  \/ CreateRetrieval(r, e, S) \/ AddLooks(r, e, S)
             \/ AddCopies(r) \/ Commits(r) \/ Fails(r) \/ DeleteRuns(r)
             \/ (\E e \in Exps : ConcludeLooks(r, e)) \/ ConcludeWrites(r)
             \/ \E n \in Names : Again(r, n)
  BY <1>7 DEF CreateRejudge, CreateGeneration, CreateRetrieval, AddLooks, AddCopies, Commits, Fails,
              DeleteRuns, ConcludeLooks, ConcludeWrites, Again, TypeOK
<1>8. CASE UNCHANGED vars
  BY <1>8 DEF vars
<1> QED
  BY <1>2, <1>3, <1>4, <1>5, <1>6, <1>7, <1>8 DEF Next, Work

(* The grid of an experiment that runs waits, is in hand, or was hurt. *)
LEMMA GridsAreSeen ==
  ASSUME SeriesInv, DebtInv, SeenInv, [Next]_vars
  PROVE  \A e \in Exps :
           (~Judged(e) /\ status[e] = "running" => line[e] # "none" \/ run = e \/ e \in hurt)'
<1> USE DEF SeriesInv, record, runs, job, locals, worker, seen
<1>0. /\ UNCHANGED kind
      /\ \A e \in Exps : e \in Jobs /\ e \notin Names /\ e # None
  BY ArmsAreAdded, ExperimentAssumption DEF Jobs
<1> DEFINE Seen(e) == line[e] # "none" \/ run = e \/ e \in hurt
           Then(e) == line'[e] # "none" \/ run' = e \/ e \in hurt'
<1>a. \A e \in Exps : ~Judged(e) /\ status[e] = "running" => Seen(e)
  BY DEF SeenInv
<1> SUFFICES ASSUME NEW e \in Exps, ~Judged(e), status'[e] = "running"
             PROVE  Then(e)
  BY <1>0 DEF Judged
<1>1. CASE Returns
  <2>1. at # "idle" /\ PutBack
    BY <1>1 DEF Returns
  <2>2. status[e] = "running" /\ hurt' = hurt
    BY <1>1 DEF Returns
  <2>3. stop => run \in hurt
    BY DEF WorkerInv
  <2>4. task \in Tasks
    BY <2>1, HandIs
  <2> QED
    BY <1>0, <1>a, <2>1, <2>2, <2>3, <2>4, PutsBack DEF Tasks
<1>2. CASE Breaks \/ Lands
  <2>1. run \in Exps
    BY <1>2, HandIs DEF Breaks, Lands
  <2>2. run # e /\ status[e] = "running"
    BY <1>2, <2>1 DEF Breaks, Lands, Recorded, TypeOK
  <2>3. hurt \subseteq hurt'
    BY <1>2 DEF Breaks, Lands
  <2>4. line'[e] = line[e]
    <3>1. at # "idle" /\ (PutBack \/ UNCHANGED line)
      BY <1>2 DEF Breaks, Lands
    <3> QED
      BY <1>0, <2>2, <3>1, PutsBack
  <2> QED
    BY <1>a, <2>2, <2>3, <2>4
<1>3. CASE GivesUp \/ Answers \/ Judges \/ Finishes
  <2>1. run \in Names
    BY <1>3, HandIs DEF GivesUp, Answers, Judges, Finishes
  <2>2. status[e] = "running"
    BY <1>3, FailedOnIs DEF GivesUp, Answers, Judges, Finishes
  <2>3. hurt \subseteq hurt'
    BY <1>3 DEF GivesUp, Answers, Judges, Finishes
  <2>4. line'[e] = line[e]
    BY <1>0, <1>3, <2>1 DEF GivesUp, Answers, Judges, Finishes, SweepsAgain, TypeOK
  <2> QED
    BY <1>0, <1>a, <2>1, <2>2, <2>3, <2>4
<1>4. CASE \E j \in Jobs : Claim(j)
  BY <1>0, <1>4, <1>a DEF Claim, TypeOK, WorkerInv
<1>5. CASE Starts
  BY <1>0, <1>5, <1>a DEF Starts, TypeOK
<1>6. CASE Revives \/ Records \/ \E f \in Exps : RevivesSibling(f)
  <2>1. \A f \in Exps : RevivesSibling(f) => f # e
    BY DEF RevivesSibling, DebtInv
  <2>2. status[e] = "running" /\ UNCHANGED <<line, run, hurt>>
    BY <1>6, <2>1 DEF Revives, Records, Recorded, RevivesSibling, TypeOK, Judged
  <2> QED
    BY <1>a, <2>2
<1>7. CASE Lists \/ Looks \/ Reports \/ Measures
  BY <1>7, <1>a DEF Lists, Looks, Reports, Measures
<1>8. ASSUME NEW r \in Requests, Commits(r)
      PROVE  Then(e)
  <2>1. PICK f \in Exps : f = door[r].exp /\ kind[f] = "rejudge"
    BY <1>8, EngagedIs DEF Commits, Engaged
  <2>2. f # e /\ door[r].names \subseteq Names
    BY <2>1, SheetOf DEF Judged
  <2>3. /\ status[e] = "running" /\ line'[e] = line[e]
        /\ UNCHANGED <<run, hurt>>
    BY <1>0, <1>8, <2>1, <2>2 DEF Commits, TypeOK
  <2> QED
    BY <1>a, <2>3
<1>9. ASSUME NEW r \in Requests, NEW f \in Exps, NEW S \in SUBSET Names,
             CreateGeneration(r, f, S) \/ CreateRetrieval(r, f, S)
      PROVE  Then(e)
  BY <1>0, <1>9, <1>a DEF CreateGeneration, CreateRetrieval, TypeOK, Judged
<1>10. ASSUME NEW r \in Requests, NEW j \in Jobs, Cancel(r, j)
       PROVE  Then(e)
  BY <1>0, <1>10, <1>a, FailedOnIs DEF Cancel, TypeOK
<1>11. ASSUME NEW r \in Requests, NEW n \in Names, Again(r, n)
       PROVE  Then(e)
  BY <1>0, <1>11, <1>a DEF Again, TypeOK
<1>12. CASE \E r \in Requests :
             \/ \E f \in Exps, S \in SUBSET Names : CreateRejudge(r, f, S) \/ AddLooks(r, f, S)
             \/ AddCopies(r) \/ Fails(r) \/ DeleteRuns(r)
             \/ (\E f \in Exps : ConcludeLooks(r, f)) \/ ConcludeWrites(r)
  BY <1>12, <1>a DEF CreateRejudge, AddLooks, AddCopies, Fails, DeleteRuns, ConcludeLooks,
                     ConcludeWrites, TypeOK
<1>13. CASE UNCHANGED vars
  BY <1>13, <1>a DEF vars
<1>14. CASE Work \/ Returns
  BY <1>1, <1>2, <1>3, <1>4, <1>5, <1>6, <1>7, <1>14 DEF Work
<1> QED
  BY <1>8, <1>9, <1>10, <1>11, <1>12, <1>13, <1>14 DEF Next

LEMMA HurtGrows ==
  ASSUME [Next]_vars
  PROVE  hurt \subseteq hurt'
<1> USE DEF vars, record, runs, job, locals, worker, seen
<1>1. CASE Work \/ Returns
  BY <1>1 DEF Work, Claim, Answers, Revives, Judges, Lists, Looks, Reports, Records, Finishes,
              RevivesSibling, Starts, Measures, Breaks, Lands, GivesUp, Returns
<1>2. CASE ~(Work \/ Returns)
  BY <1>2 DEF Next, CreateRejudge, CreateGeneration, CreateRetrieval, AddLooks, AddCopies, Commits,
              Fails, DeleteRuns, ConcludeLooks, ConcludeWrites, Cancel, Again
<1> QED
  BY <1>1, <1>2

(* What runs unhurt ran unhurt before, or is begun or added to. *)
LEMMA RanUnhurt ==
  ASSUME SeriesInv, SeenInv, [Next]_vars, NEW e \in Exps, Unhurt(e)', status'[e] = "running"
  PROVE  /\ Judged(e) /\ hurt \subseteq hurt'
         /\ \/ /\ status[e] = "running" /\ Unhurt(e) /\ arms'[e] = arms[e]
               /\ StillOwed(e) /\ \A n \in arms[e] : ArmIsSeenTo(n)
            \/ status[e] \in {"none", "aggregated"}
<1>1. /\ hurt \subseteq hurt' /\ UNCHANGED kind
      /\ arms'[e] = arms[e] \/ status[e] \in {"none", "aggregated"}
  BY HurtGrows, ArmsAreAdded
<1>2. Judged(e) /\ arms'[e] \cap hurt' = {}
  BY <1>1 DEF Unhurt, Judged
<1>3. \/ status[e] \in {"running", "failed"}
      \/ status[e] \in {"none", "aggregated"}
  BY StepsKeep DEF Moves
<1>4. arms'[e] = arms[e] => Unhurt(e) /\ status[e] # "failed"
  BY <1>1, <1>2 DEF SeenInv, Unhurt
<1> QED
  BY <1>1, <1>2, <1>3, <1>4 DEF SeenInv

(* A step at a door that takes no job out of the line. *)
LEMMA SeenByOthers ==
  ASSUME SeriesInv, NEW e \in Exps,
         StillOwed(e), \A n \in arms[e] : ArmIsSeenTo(n),
         arms'[e] = arms[e], UNCHANGED <<at, run, todo, exp>>,
         \A n \in arms[e] : line[n] # "none" => line'[n] # "none",
         \A n \in arms[e] : rows[n] = "judged" => rows'[n] = "judged"
  PROVE  StillOwed(e)' /\ \A n \in arms'[e] : ArmIsSeenTo(n)'
<1>1. StillOwed(e)'
  BY DEF StillOwed
<1> QED
  BY <1>1 DEF ArmIsSeenTo

(* The door that begins or widens an experiment queues a job for every name. *)
LEMMA CommitsAreSeen ==
  ASSUME NamesApart, SeriesInv, DebtInv, SeenInv, NEW r \in Requests, Commits(r),
         NEW e \in Exps, Unhurt(e)', status'[e] = "running"
  PROVE  StillOwed(e)' /\ \A n \in arms'[e] : ArmIsSeenTo(n)'
<1> USE DEF SeriesInv, record, runs, seen, worker, job, locals
<1>0. [Next]_vars
  BY DEF Next
<1>1. PICK f \in Exps, S \in SUBSET Names :
        /\ f = door[r].exp /\ S = door[r].names /\ S # {} /\ kind[f] = "rejudge"
        /\ status[f] = "none" \/ status[f] = "aggregated"
  BY EngagedIs DEF Commits, Engaged, Held, DebtInv
<1>2. /\ UNCHANGED <<rows, at, run, todo, exp, kind>>
      /\ status' = [status EXCEPT ![f] = "running"]
      /\ arms' = [arms EXCEPT ![f] = @ \cup S]
      /\ line' = [j \in Jobs |-> IF j \in S THEN "judge" ELSE line[j]]
  BY <1>1 DEF Commits
<1>3. S \subseteq Jobs /\ arms[e] \subseteq Jobs
  BY ArmsAre DEF Jobs
<1>4. CASE e = f
  <2>1. arms'[e] = arms[e] \cup S
    BY <1>2, <1>4 DEF TypeOK
  <2>2. \A n \in arms[e] : rows[n] = "judged"
    BY <1>1, <1>4, ArmsAre DEF DebtInv, SeriesComplete
  <2>3. \A n \in S : line'[n] = "judge"
    BY <1>2, <1>3
  <2>4. StillOwed(e)'
    BY <1>1, <2>1, <2>3 DEF StillOwed
  <2> QED
    BY <1>2, <2>1, <2>2, <2>3, <2>4 DEF ArmIsSeenTo
<1>5. CASE e # f
  <2>1. status[e] = "running"
    BY <1>2, <1>5 DEF TypeOK
  <2>2. arms'[e] = arms[e] /\ StillOwed(e) /\ \A n \in arms[e] : ArmIsSeenTo(n)
    BY <1>0, <2>1, RanUnhurt
  <2>3. \A n \in arms[e] : line[n] # "none" => line'[n] # "none"
    BY <1>2, <1>3
  <2> QED
    BY <1>2, <2>2, <2>3, SeenByOthers
<1> QED
  BY <1>4, <1>5

LEMMA CreatesAreSeen ==
  ASSUME NamesApart, SeriesInv, SeenInv, NEW r \in Requests, NEW f \in Exps, NEW S \in SUBSET Names,
         CreateGeneration(r, f, S) \/ CreateRetrieval(r, f, S),
         NEW e \in Exps, Unhurt(e)', status'[e] = "running"
  PROVE  StillOwed(e)' /\ \A n \in arms'[e] : ArmIsSeenTo(n)'
<1> USE DEF SeriesInv, record, runs, seen, worker, job, locals
<1>0. [Next]_vars
  BY DEF Next
<1>1. /\ UNCHANGED <<rows, at, run, todo, exp, kind>> /\ S # {}
      /\ status' = [status EXCEPT ![f] = "running"]
      /\ arms' = [arms EXCEPT ![f] = S]
      /\ \/ kind[f] = "generation" /\ line' = [j \in Jobs |-> IF j \in S THEN "answer" ELSE line[j]]
         \/ kind[f] = "retrieval" /\ line' = [line EXCEPT ![f] = "compare"]
  BY DEF CreateGeneration, CreateRetrieval
<1>2. S \subseteq Jobs /\ arms[e] \subseteq Jobs /\ \A n \in arms[e] : n # f
  BY ArmsAre DEF Jobs
<1>3. Judged(e)
  BY <1>0, RanUnhurt
<1>4. CASE e = f
  <2>1. arms'[e] = S
    BY <1>1, <1>4 DEF TypeOK
  <2>2. \A n \in S : line'[n] = "answer"
    BY <1>1, <1>2, <1>3, <1>4 DEF Judged
  <2>3. StillOwed(e)'
    BY <1>1, <2>1, <2>2 DEF StillOwed
  <2> QED
    BY <2>1, <2>2, <2>3 DEF ArmIsSeenTo
<1>5. CASE e # f
  <2>1. status[e] = "running"
    BY <1>1, <1>5 DEF TypeOK
  <2>2. arms'[e] = arms[e] /\ StillOwed(e) /\ \A n \in arms[e] : ArmIsSeenTo(n)
    BY <1>0, <2>1, RanUnhurt
  <2>3. \A n \in arms[e] : line[n] # "none" => line'[n] # "none"
    BY <1>1, <1>2 DEF TypeOK
  <2> QED
    BY <1>1, <2>2, <2>3, SeenByOthers
<1> QED
  BY <1>4, <1>5

(* The other doors. *)
LEMMA OthersAreSeen ==
  ASSUME NamesApart, SeriesInv, DebtInv, SeenInv, NEW r \in Requests,
         \/ \E f \in Exps, S \in SUBSET Names : CreateRejudge(r, f, S) \/ AddLooks(r, f, S)
         \/ AddCopies(r) \/ Fails(r) \/ DeleteRuns(r)
         \/ (\E f \in Exps : ConcludeLooks(r, f)) \/ ConcludeWrites(r)
         \/ (\E j \in Jobs : Cancel(r, j)) \/ \E n \in Names : Again(r, n),
         NEW e \in Exps, Unhurt(e)', status'[e] = "running"
  PROVE  StillOwed(e)' /\ \A n \in arms'[e] : ArmIsSeenTo(n)'
<1> USE DEF SeriesInv, record, runs, seen, worker, job, locals
<1>0. [Next]_vars
  BY DEF Next
<1>1. UNCHANGED <<at, run, todo, exp>>
  BY DEF CreateRejudge, AddLooks, AddCopies, Fails, DeleteRuns, ConcludeLooks, ConcludeWrites, Cancel, Again
<1>2. status[e] = "running"
  BY FailedOnIs, RanUnhurt, <1>0
  DEF CreateRejudge, AddLooks, AddCopies, Fails, DeleteRuns, ConcludeLooks, ConcludeWrites, Cancel, Again, TypeOK
<1>3. /\ Judged(e) /\ arms'[e] = arms[e]
      /\ StillOwed(e) /\ \A n \in arms[e] : ArmIsSeenTo(n)
  BY <1>0, <1>2, RanUnhurt
<1>4. \A n \in arms[e] : rows[n] = "judged" => rows'[n] = "judged"
  BY <1>0, <1>3, ArmsKeepVerdicts
<1>5. \A n \in arms[e] : n \in Jobs /\ n \notin hurt'
  BY <1>3, ArmsAre DEF Unhurt
<1>6. \A n \in arms[e] : line[n] # "none" => line'[n] # "none"
  <2>1. ASSUME NEW j \in Jobs, Cancel(r, j)
        PROVE  \A n \in arms[e] : line'[n] = line[n]
    BY <1>5, <2>1 DEF Cancel, TypeOK
  <2>2. ASSUME NEW m \in Names, Again(r, m)
        PROVE  \A n \in arms[e] : line[n] # "none" => line'[n] # "none"
    BY <1>5, <2>2 DEF Again, TypeOK
  <2>3. CASE UNCHANGED line
    BY <2>3
  <2> QED
    BY <2>1, <2>2, <2>3
    DEF CreateRejudge, AddLooks, AddCopies, Fails, DeleteRuns, ConcludeLooks, ConcludeWrites
<1> QED
  BY <1>1, <1>3, <1>4, <1>6, SeenByOthers

(* The worker: what it drops it takes in hand, puts back, or has looked at. *)
LEMMA WorkIsSeen ==
  ASSUME NamesApart, SeriesInv, DebtInv, SeenInv, Work \/ Returns,
         NEW e \in Exps, Unhurt(e)', status'[e] = "running"
  PROVE  StillOwed(e)' /\ \A n \in arms'[e] : ArmIsSeenTo(n)'
<1> USE DEF SeriesInv, record, runs, job, locals, worker, seen
<1>0. [Next]_vars
  BY DEF Next
<1>1. status[e] = "running" \/ status[e] = "failed"
  BY WorkMoves DEF Moves
<1>2. /\ Judged(e) /\ status[e] = "running" /\ arms'[e] = arms[e]
      /\ StillOwed(e) /\ \A n \in arms[e] : ArmIsSeenTo(n)
  BY <1>0, <1>1, RanUnhurt
<1>3. \A n \in arms[e] : /\ n \in Jobs /\ n \in Names /\ n # None /\ n \notin Exps
                         /\ n \notin hurt /\ n \notin hurt'
                         /\ rows[n] = "judged" => rows'[n] = "judged"
  BY <1>0, <1>2, ArmsAre, RanUnhurt, ArmsKeepVerdicts, ExperimentAssumption DEF Unhurt
<1>4. stop => run \notin arms[e]
  BY <1>3 DEF WorkerInv
<1> DEFINE Line(n) == line[n] # "none"
           Hand(n) == /\ run = n
                      /\ \/ at \in {"answering", "reviving", "judging", "listing"}
                         \/ e \in todo \/ exp = e
           Soon(n) == rows[n] = "judged" \/ line[n] # "none"
                        \/ (run = n /\ at \in {"answering", "reviving", "judging"})
           Lined(n) == line'[n] # "none"
           InHand(n) == /\ run' = n
                       /\ \/ at' \in {"answering", "reviving", "judging", "listing"}
                          \/ e \in todo' \/ exp' = e
           Then(n) == rows'[n] = "judged" \/ line'[n] # "none"
                        \/ (run' = n /\ at' \in {"answering", "reviving", "judging"})
<1>5. /\ \E n \in arms[e] : Line(n) \/ Hand(n)
      /\ \A n \in arms[e] : Soon(n)
  BY <1>2 DEF StillOwed, ArmIsSeenTo
<1> SUFFICES (\E n \in arms[e] : Lined(n) \/ InHand(n)) /\ \A n \in arms[e] : Then(n)
  BY <1>2 DEF StillOwed, ArmIsSeenTo
<1> HIDE DEF SeriesInv
<1>6. SeriesInv /\ TypeOK /\ WorkerInv /\ LineInv
  BY DEF SeriesInv
(* the job in hand leaves it, and is in line again unless it was cancelled *)
<1>7. ASSUME at # "idle", run \in arms[e] => line'[run] # "none",
             \A n \in arms[e] : n # run => line'[n] = line[n]
      PROVE  (\E n \in arms[e] : Lined(n)) /\ \A n \in arms[e] : Lined(n) \/ rows'[n] = "judged"
  BY <1>3, <1>5, <1>7
(* the job in hand goes on *)
<1>8. ASSUME UNCHANGED <<line, run>>,
             at \in {"answering", "reviving", "judging"} => at' \in {"answering", "reviving", "judging"},
             run \in arms[e] /\ Hand(run) => InHand(run)
      PROVE  (\E n \in arms[e] : Lined(n) \/ InHand(n)) /\ \A n \in arms[e] : Then(n)
  BY <1>3, <1>5, <1>8
<1>9. ASSUME NEW j \in Jobs, Claim(j)
      PROVE  (\E n \in arms[e] : Lined(n) \/ InHand(n)) /\ \A n \in arms[e] : Then(n)
  <2>1. at = "idle" /\ todo = {} /\ exp = None
    BY <1>6, <1>9 DEF Claim, WorkerInv
  <2>2. /\ run' = j /\ \A n \in arms[e] : n # j => line'[n] = line[n]
        /\ UNCHANGED rows
    BY <1>3, <1>6, <1>9 DEF Claim, TypeOK
  <2>3. j \in arms[e] => line[j] # "compare"
    BY <1>3, <1>6 DEF LineInv, Measured
  <2>4. j \in arms[e] => at' \in {"answering", "reviving"}
    BY <1>6, <1>9, <2>3 DEF Claim, TypeOK, Tasks
  <2>5. e # None
    BY ExperimentAssumption
  <2> QED
    BY <1>3, <1>5, <2>1, <2>2, <2>4, <2>5
<1>10. CASE Returns
  <2>1. at # "idle" /\ PutBack
    BY <1>10 DEF Returns
  <2>2. task \in Tasks
    BY <1>6, <2>1, HandIs
  <2>3. /\ ~stop => line'[run] # "none"
        /\ \A n \in Jobs : n # run => line'[n] = line[n]
    BY <1>6, <2>1, <2>2, PutsBack DEF Tasks
  <2> QED
    BY <1>3, <1>4, <1>7, <2>1, <2>3
<1>11. CASE GivesUp
  <2>1. run \notin arms[e] /\ at # "idle" /\ UNCHANGED line
    BY <1>3, <1>11 DEF GivesUp
  <2> QED
    BY <1>7, <2>1
<1>12. CASE Answers
  <2>1. run \in Names /\ at # "idle" /\ run \in Jobs
    BY <1>12, <1>6, HandIs DEF Answers
  <2>2. /\ ~stop => line'[run] = "judge"
        /\ \A n \in Jobs : n # run => line'[n] = line[n]
    BY <1>12, <1>6, <2>1 DEF Answers, TypeOK
  <2> QED
    BY <1>3, <1>4, <1>7, <2>1, <2>2
<1>13. CASE Revives
  BY <1>8, <1>13 DEF Revives
<1>14. CASE Judges
  <2>1. run \in Names /\ run \in Jobs /\ at = "judging" /\ task = "judge"
    BY <1>14, <1>6, HandIs DEF Judges, WorkerInv
  <2>2. CASE run \notin arms[e]
    <3>1. \A n \in arms[e] : line'[n] = line[n]
      BY <1>3, <1>6, <1>14, <2>1, <2>2 DEF Judges, SweepsAgain, TypeOK
    <3> QED
      BY <1>7, <2>1, <2>2, <3>1
  <2>3. CASE run \in arms[e]
    <3>1. rows[run] # "none"
      <4>1. CASE kind[e] = "rejudge"
        BY <1>6, <2>3, <4>1, ArmsAre
      <4>2. CASE kind[e] = "generation"
        BY <1>6, <2>1, <2>3, <4>2, ArmsAre DEF DebtInv
      <4> QED
        BY <1>2, <1>6, <4>1, <4>2, ArmsAre DEF Judged
    <3>2. rows'[run] \in {"owed", "judged"}
      BY <1>6, <1>14, <2>1, <3>1 DEF Judges, TypeOK
    <3>3. ~stop /\ at' = "listing" /\ run' = run
      BY <1>4, <1>14, <2>3 DEF Judges
    <3>4. \A n \in arms[e] : n # run => line'[n] = line[n]
      BY <1>3, <1>6, <1>14, <2>1 DEF Judges, SweepsAgain, TypeOK
    <3>5. rows'[run] = "judged" \/ line'[run] = "judge" \/ run \in hurt'
      BY <1>6, <1>14, <2>1, <3>2, <3>3 DEF Judges, SweepsAgain, TypeOK
    <3> QED
      BY <1>3, <1>5, <2>3, <3>3, <3>4, <3>5
  <2> QED
    BY <2>2, <2>3
<1>15. CASE Lists
  BY <1>2, <1>8, <1>15 DEF Lists
<1>16. ASSUME NEW f \in Exps, RevivesSibling(f)
       PROVE  (\E n \in arms[e] : Lined(n) \/ InHand(n)) /\ \A n \in arms[e] : Then(n)
  <2>1. /\ at = "looking" /\ exp = None /\ exp' = f /\ todo' = todo \ {f}
        /\ UNCHANGED <<line, run, at>>
    BY <1>16 DEF RevivesSibling
  <2>2. e # None
    BY ExperimentAssumption
  <2> QED
    BY <1>8, <2>1, <2>2
<1>17. CASE Looks
  <2>1. at = "looking" /\ UNCHANGED <<line, run, rows, todo>>
    BY <1>17 DEF Looks
  <2>2. CASE exp' = exp
    BY <1>8, <2>1, <2>2
  <2>3. CASE exp = e /\ exp' = None
    <3>1. PICK n \in arms[e] : rows[n] # "judged"
      BY <1>2, <1>17, <2>3 DEF Looks, SeriesComplete
    <3>2. line[n] # "none"
      BY <1>5, <2>1, <3>1
    <3> QED
      BY <1>5, <2>1, <3>2
  <2>4. CASE exp # e /\ exp' = None
    BY <1>5, <2>1, <2>4
  <2> QED
    BY <1>17, <2>2, <2>3, <2>4 DEF Looks
<1>18. CASE Reports
  BY <1>8, <1>18 DEF Reports
<1>19. CASE Records
  <2>1. exp # e
    BY <1>2, <1>6, <1>19 DEF Records, Recorded, TypeOK
  <2>2. at = "recording" /\ UNCHANGED <<line, run, rows, todo>>
    BY <1>19 DEF Records
  <2> QED
    BY <1>5, <2>1, <2>2
<1>20. CASE Finishes
  <2>1. at = "looking" /\ exp = None /\ todo = {} /\ UNCHANGED <<line, rows>>
    BY <1>20 DEF Finishes
  <2>2. e # None
    BY ExperimentAssumption
  <2> QED
    BY <1>5, <2>1, <2>2
<1>21. CASE Starts \/ Measures \/ Breaks \/ Lands
  <2>1. /\ at \in {"starting", "measuring", "landing"} /\ run \in Exps
        /\ todo = {} /\ exp = None
    BY <1>6, <1>21, HandIs DEF Starts, Measures, Breaks, Lands, WorkerInv
  <2>2. run \notin arms[e]
    BY <1>3, <2>1
  <2>3. CASE Breaks
    <3>1. PutBack \/ UNCHANGED line
      BY <2>3 DEF Breaks
    <3>2. \A n \in arms[e] : line'[n] = line[n]
      BY <1>3, <1>6, <2>1, <2>2, <3>1, PutsBack
    <3> QED
      BY <1>7, <2>1, <2>2, <3>2
  <2>4. CASE Starts \/ Measures \/ Lands
    <3>1. UNCHANGED line
      BY <2>4 DEF Starts, Measures, Lands
    <3> QED
      BY <1>7, <2>1, <2>2, <3>1
  <2> QED
    BY <1>21, <2>3, <2>4
<1> QED
  BY <1>9, <1>10, <1>11, <1>12, <1>13, <1>14, <1>15, <1>16, <1>17, <1>18, <1>19, <1>20, <1>21 DEF Work

LEMMA SeenStays ==
  ASSUME NamesApart, SeriesInv, DebtInv, SeenInv, [Next]_vars
  PROVE  SeenInv'
<1>1. ASSUME NEW e \in Exps, Unhurt(e)', status'[e] = "running"
      PROVE  StillOwed(e)' /\ \A n \in arms'[e] : ArmIsSeenTo(n)'
  <2>1. CASE Work \/ Returns
    BY <1>1, <2>1, WorkIsSeen
  <2>2. CASE UNCHANGED vars
    <3> USE DEF vars, record, runs, worker, job, locals, seen
    <3>1. /\ status[e] = "running" /\ arms'[e] = arms[e]
          /\ StillOwed(e) /\ \A n \in arms[e] : ArmIsSeenTo(n)
      BY <1>1, <2>2, RanUnhurt
    <3> QED
      BY <2>2, <3>1, SeenByOthers
  <2>3. CASE \E r \in Requests : Commits(r)
    BY <1>1, <2>3, CommitsAreSeen
  <2>4. CASE \E r \in Requests, f \in Exps, S \in SUBSET Names :
               CreateGeneration(r, f, S) \/ CreateRetrieval(r, f, S)
    BY <1>1, <2>4, CreatesAreSeen
  <2>5. CASE \E r \in Requests :
               \/ \E f \in Exps, S \in SUBSET Names : CreateRejudge(r, f, S) \/ AddLooks(r, f, S)
               \/ AddCopies(r) \/ Fails(r) \/ DeleteRuns(r)
               \/ (\E f \in Exps : ConcludeLooks(r, f)) \/ ConcludeWrites(r)
               \/ (\E j \in Jobs : Cancel(r, j)) \/ \E n \in Names : Again(r, n)
    BY <1>1, <2>5, OthersAreSeen
  <2> QED
    BY <2>1, <2>2, <2>3, <2>4, <2>5 DEF Next
<1> QED
  BY <1>1, FailedAreHurt, GridsAreSeen DEF SeenInv

LEMMA InitOwed == Init => OwedInv
<1> SUFFICES ASSUME Init PROVE OwedInv
  OBVIOUS
<1>1. \A r \in Requests : door[r].at = "fresh"
  BY DEF Init, Rest
<1>2. Swept \subseteq Jobs
  BY ExperimentAssumption DEF Jobs
<1>3. DebtInv
  BY <1>1, <1>2 DEF Init, DebtInv, Engaged
<1>4. SeenInv
  BY DEF Init, SeenInv
<1> QED
  BY <1>3, <1>4 DEF OwedInv

LEMMA OwedIsAttended == SeriesInv /\ OwedInv => StrandedOnlyIfHurt
<1> SUFFICES ASSUME SeriesInv, OwedInv, NEW e \in Exps, status[e] = "running"
             PROVE  Attended(e) \/ JobsOf(e) \cap hurt # {}
  BY DEF StrandedOnlyIfHurt
<1>1. CASE ~Judged(e)
  BY <1>1 DEF OwedInv, SeenInv, Attended, JobsOf
<1>2. CASE Judged(e) /\ arms[e] \cap hurt # {}
  BY <1>2 DEF JobsOf
<1>3. CASE Unhurt(e)
  BY <1>3 DEF OwedInv, SeenInv, StillOwed, Unhurt, Attended, JobsOf
<1> QED
  BY <1>1, <1>2, <1>3 DEF Unhurt

(* Where no name is asked both for copies and for the runs of a sweep, an   *)
(* experiment keeps what its record promises: a report covers the arms it   *)
(* names, copies have an owner, rejudges share no arm, and a series runs on *)
(* with no job to end it only where a job of it was cancelled or given up.  *)
(* With a name in both, TLC shows a series stranded: copy_runs looks only   *)
(* at rows, app/use_cases/rejudge.py:122, and takes a name that waits in    *)
(* line for its answers.                                                    *)
THEOREM SeriesStands ==
  ASSUME Copied \cap Swept = {}
  PROVE  Spec => []SeriesHolds
<1>1. NamesApart
  BY DEF NamesApart
<1>2. Init => OwedInv
  BY InitOwed
<1>3. SeriesInv /\ OwedInv /\ [Next]_vars => OwedInv'
  BY <1>1, DebtStays, SeenStays DEF OwedInv
<1>4. SeriesInv /\ OwedInv => SeriesHolds
  BY OwedIsAttended DEF SeriesInv, SeriesHolds
<1> QED
  BY <1>2, <1>3, <1>4, SeriesInductive, PTL DEF Spec

=============================================================================
