----------------------------- MODULE StandProofs -----------------------------
(***************************************************************************)
(* Theorems about the five parts of the stand, for any engines, models,    *)
(* servers, runs, questions and bounds: each part has its own inductive    *)
(* invariant, kept by its own steps, and no step is of two parts.          *)
(***************************************************************************)
EXTENDS MCStand, FiniteSetTheorems, TLAPS

-----------------------------------------------------------------------------
(* One step of the stand is a step of each part or leaves the part alone. *)

LEMMA StepOfParts ==
  ASSUME [StandNext]_standVars
  PROVE  /\ [RNext]_rvars /\ [S!SNext]_seat /\ [I!INext]_integration
         /\ [P!PNext]_promise /\ [V!VNext]_vectors
  BY DEF StandNext, standVars

LEMMA InitOfParts ==
  ASSUME StandInit
  PROVE  RInit /\ S!SInit /\ I!IInit /\ P!PInit /\ V!VInit
  BY DEF StandInit

LEMMA BoundsAreNaturals ==
  MaxChoices \in Nat /\ MaxPuts \in Nat /\ MaxMoves \in Nat /\ MaxEdits \in Nat /\ MaxJobs \in Nat /\ MaxSearches \in Nat
  BY StandAssumption

-----------------------------------------------------------------------------
(* Seats: a job queued for a seat is its asker's, one asker has one, and an *)
(* ask answered by another's job asked for the same model.                  *)

JobIsItsAskers ==
  \A d \in Askers : seats[d].state # "none" =>
    asks[d].step = "answered" /\ seats[d].model = asks[d].model /\ seats[d].over = asks[d].over
AnswerNamesTheModel ==
  \A d \in Askers : asks[d].step = "answered" =>
    seats[asks[d].job].state # "none" /\ seats[asks[d].job].model = asks[d].model
OneRuns == \A d, f \in Askers : seats[d].state = "running" /\ seats[f].state = "running" => d = f
SeatsInv == S!STypeOK /\ DOMAIN seats = Askers /\ JobIsItsAskers /\ AnswerNamesTheModel /\ OneRuns

LEMMA SeatsInit == S!SInit => SeatsInv
  BY StandAssumption
     DEF S!SInit, SeatsInv, S!STypeOK, JobIsItsAskers, AnswerNamesTheModel, OneRuns, S!NoAsk, S!NoSeat, S!Steps

SeatSet == [state : {"new", "running", "done", "error", "refused"}, model : Seatable, over : Seatable, at : 0..MaxChoices]

(* What a job's new state keeps. *)
LEMMA SeatMoves ==
  ASSUME SeatsInv, NEW d \in Askers, seats[d].state # "none", NEW state \in {"running", "done", "error", "refused"},
         seats' = [seats EXCEPT ![d].state = state], holder' \in Seatable, UNCHANGED <<choices, asks>>,
         state = "running" => \A f \in Askers : seats[f].state # "running"
  PROVE  SeatsInv'
<1> USE DEF SeatsInv, S!STypeOK
<1> DEFINE rec == [seats[d] EXCEPT !.state = state]
<1>1. seats[d] \in SeatSet
  BY DEF SeatSet, S!NoSeat
<1>2. /\ rec \in SeatSet /\ rec.model = seats[d].model /\ rec.over = seats[d].over
      /\ rec.state = state /\ rec.at = seats[d].at
  BY <1>1 DEF SeatSet
<1>3. seats' = [seats EXCEPT ![d] = rec]
  OBVIOUS
<1> HIDE DEF rec
<1>4. seats'[d] = rec /\ DOMAIN seats' = Askers /\ \A f \in Askers \ {d} : seats'[f] = seats[f]
  BY <1>3
<1>5. S!STypeOK' /\ DOMAIN seats' = Askers
  BY <1>2, <1>4 DEF SeatSet
<1>6. JobIsItsAskers' /\ AnswerNamesTheModel'
  BY <1>2, <1>4 DEF JobIsItsAskers, AnswerNamesTheModel
<1>7. OneRuns'
  BY <1>2, <1>4 DEF OneRuns
<1> QED
  BY <1>5, <1>6, <1>7

AskSet == [step : S!Steps, model : Seatable, over : Seatable, at : 0..MaxChoices, job : Askers]

(* What an ask without a job of its own keeps when it moves. *)
LEMMA AskMoves ==
  ASSUME SeatsInv, NEW d \in Askers, seats[d].state = "none", NEW rec \in AskSet, asks' = [asks EXCEPT ![d] = rec],
         rec.step = "answered" => seats[rec.job].state # "none" /\ seats[rec.job].model = rec.model,
         UNCHANGED <<holder, choices, seats>>
  PROVE  SeatsInv'
<1> USE DEF SeatsInv, S!STypeOK
<1>1. asks' \in [Askers -> AskSet] /\ asks'[d] = rec /\ \A f \in Askers \ {d} : asks'[f] = asks[f]
  BY DEF AskSet
<1>2. S!STypeOK' /\ DOMAIN seats' = Askers
  BY <1>1 DEF AskSet
<1>3. JobIsItsAskers' /\ OneRuns'
  BY <1>1 DEF JobIsItsAskers, OneRuns
<1>4. AnswerNamesTheModel'
  BY <1>1 DEF AnswerNamesTheModel, AskSet
<1> QED
  BY <1>2, <1>3, <1>4

LEMMA SeatsStep ==
  ASSUME SeatsInv, [S!SNext]_seat
  PROVE  SeatsInv'
<1> USE StandAssumption DEF SeatsInv, S!STypeOK, S!Steps
<1>1. ASSUME NEW m \in Seatable, S!Chooses(m)
      PROVE  SeatsInv'
  BY <1>1 DEF S!Chooses, JobIsItsAskers, AnswerNamesTheModel, OneRuns, S!NoSeat
<1>2. ASSUME NEW d \in Askers, S!ReadsHolder(d)
      PROVE  SeatsInv'
  <2>1. PICK m \in Seatable :
          asks' = [asks EXCEPT ![d] = [@ EXCEPT !.step = "held", !.model = m, !.over = holder, !.at = choices]]
    BY <1>2 DEF S!ReadsHolder
  <2> DEFINE rec == [asks[d] EXCEPT !.step = "held", !.model = m, !.over = holder, !.at = choices]
  <2>2. asks[d] \in AskSet /\ holder \in Seatable /\ choices \in 0..MaxChoices /\ asks' = [asks EXCEPT ![d] = rec]
    BY <2>1 DEF AskSet
  <2>5. rec \in AskSet /\ rec.step = "held"
    BY ONLY <2>2 DEF AskSet, S!Steps
  <2>3. seats[d].state = "none"
    BY <1>2 DEF S!ReadsHolder, JobIsItsAskers
  <2>4. UNCHANGED <<holder, choices, seats>>
    BY <1>2 DEF S!ReadsHolder
  <2> HIDE DEF rec
  <2> QED
    BY <2>2, <2>3, <2>4, <2>5, AskMoves
<1>3. ASSUME NEW d \in Askers, S!LooksPending(d)
      PROVE  SeatsInv'
  <2>1. seats[d].state = "none" /\ UNCHANGED <<holder, choices, seats>>
    BY <1>3 DEF S!LooksPending, JobIsItsAskers
  <2>2. CASE S!Same(d) = {}
    <3> DEFINE rec == [asks[d] EXCEPT !.step = "none"]
    <3>1. rec \in AskSet /\ rec.step = "none" /\ asks' = [asks EXCEPT ![d] = rec]
      BY <1>3, <2>2 DEF S!LooksPending, AskSet
    <3> HIDE DEF rec
    <3> QED
      BY <2>1, <3>1, AskMoves
  <2>3. CASE S!Same(d) # {}
    <3>1. PICK j \in S!Same(d) : asks' = [asks EXCEPT ![d] = [@ EXCEPT !.step = "answered", !.job = j]]
      BY <1>3, <2>3 DEF S!LooksPending
    <3>2. j \in Askers /\ seats[j].state # "none" /\ seats[j].model = asks[d].model
      BY DEF S!Same, S!Live
    <3> DEFINE rec == [asks[d] EXCEPT !.step = "answered", !.job = j]
    <3>3. asks[d] \in AskSet /\ asks' = [asks EXCEPT ![d] = rec]
      BY <3>1 DEF AskSet
    <3>4. rec \in AskSet /\ rec.model = asks[d].model /\ rec.job = j
      BY ONLY <3>2, <3>3 DEF AskSet, S!Steps
    <3> HIDE DEF rec
    <3> QED
      BY <2>1, <3>2, <3>3, <3>4, AskMoves
  <2> QED
    BY <2>2, <2>3
<1>4. ASSUME NEW d \in Askers, S!Queues(d)
      PROVE  SeatsInv'
  <2> DEFINE job == [state |-> "new", model |-> asks[d].model, over |-> asks[d].over, at |-> asks[d].at]
  <2> DEFINE rec == [asks[d] EXCEPT !.step = "answered", !.job = d]
  <2>7. /\ seats' = [seats EXCEPT ![d] = job] /\ asks' = [asks EXCEPT ![d] = rec]
        /\ asks[d].step = "none" /\ UNCHANGED <<holder, choices>>
    BY <1>4 DEF S!Queues
  <2>8. asks[d] \in AskSet
    BY DEF AskSet
  <2>9. /\ job \in SeatSet /\ job.state = "new" /\ job.model = asks[d].model /\ job.over = asks[d].over
        /\ rec \in AskSet /\ rec.step = "answered" /\ rec.job = d /\ rec.model = asks[d].model /\ rec.over = asks[d].over
    BY ONLY <2>8, d \in Askers DEF SeatSet, AskSet, S!Steps
  <2> HIDE DEF job, rec
  <2>1. /\ job \in SeatSet /\ job.state = "new" /\ job.model = asks[d].model /\ job.over = asks[d].over
        /\ rec \in AskSet /\ rec.step = "answered" /\ rec.job = d /\ rec.model = asks[d].model /\ rec.over = asks[d].over
        /\ seats' = [seats EXCEPT ![d] = job] /\ asks' = [asks EXCEPT ![d] = rec]
        /\ asks[d].step = "none" /\ UNCHANGED <<holder, choices>>
    BY <2>7, <2>9
  <2>2. /\ asks' \in [Askers -> AskSet] /\ asks'[d] = rec /\ \A f \in Askers \ {d} : asks'[f] = asks[f]
        /\ DOMAIN seats' = Askers /\ seats'[d] = job /\ \A f \in Askers \ {d} : seats'[f] = seats[f]
    BY <2>1 DEF AskSet
  <2>3. S!STypeOK'
    BY <2>1, <2>2 DEF AskSet, SeatSet
  <2>4. JobIsItsAskers' /\ OneRuns'
    BY <2>1, <2>2 DEF JobIsItsAskers, OneRuns
  <2>5. seats[d].state = "none"
    BY <2>1 DEF JobIsItsAskers
  <2>6. AnswerNamesTheModel'
    BY <2>1, <2>2, <2>5 DEF AnswerNamesTheModel
  <2> QED
    BY <2>2, <2>3, <2>4, <2>6
<1>5. ASSUME NEW d \in Askers, S!Takes(d)
      PROVE  SeatsInv'
  BY <1>5, SeatMoves DEF S!Takes
<1>6. ASSUME NEW d \in Askers, S!Fails(d)
      PROVE  SeatsInv'
  BY <1>6, SeatMoves DEF S!Fails
<1>7. ASSUME NEW d \in Askers, S!Seats(d)
      PROVE  SeatsInv'
  <2>1. seats[d].state = "running" /\ UNCHANGED <<choices, asks>>
        /\ \E state \in {"done", "refused"} : seats' = [seats EXCEPT ![d].state = state]
        /\ holder' \in {holder, seats[d].model}
    BY <1>7 DEF S!Seats
  <2>2. holder' \in Seatable
    BY <2>1 DEF S!NoSeat
  <2> QED
    BY <2>1, <2>2, SeatMoves
<1>8. CASE UNCHANGED seat
  BY <1>8 DEF seat, JobIsItsAskers, AnswerNamesTheModel, OneRuns, S!NoSeat
<1> QED
  BY <1>1, <1>2, <1>3, <1>4, <1>5, <1>6, <1>7, <1>8 DEF S!SNext

(* Only a job at its seat changes the holder while nobody chooses, and only it ends a job done. *)
LEMMA OnlySeats ==
  ASSUME SeatsInv, [S!SNext]_seat,
         \/ holder' # holder /\ choices' = choices
         \/ \E j \in Askers : seats[j].state = "running" /\ seats'[j].state = "done"
  PROVE  \E f \in Askers : S!Seats(f)
<1> USE DEF SeatsInv, S!STypeOK
<1>1. ASSUME NEW m \in Seatable, S!Chooses(m)
      PROVE  FALSE
  BY <1>1, StandAssumption DEF S!Chooses
<1>2. ASSUME NEW d \in Askers, S!ReadsHolder(d) \/ S!LooksPending(d)
      PROVE  FALSE
  <2>1. UNCHANGED <<holder, choices, seats>>
    BY <1>2 DEF S!ReadsHolder, S!LooksPending
  <2> QED
    BY <2>1
<1>3. ASSUME NEW d \in Askers, S!Queues(d)
      PROVE  FALSE
  BY <1>3 DEF S!Queues
<1>4. ASSUME NEW d \in Askers, S!Takes(d) \/ S!Fails(d)
      PROVE  FALSE
  <2>1. UNCHANGED <<holder, choices>> /\ \E s \in {"running", "error"} : seats' = [seats EXCEPT ![d].state = s]
    BY <1>4 DEF S!Takes, S!Fails
  <2> QED
    BY <2>1, SMTT(30)
<1>5. CASE UNCHANGED seat
  BY <1>5 DEF seat
<1> QED
  BY <1>1, <1>2, <1>3, <1>4, <1>5 DEF S!SNext

(* A step that seats for an asker while nobody chose found the holder the asker saw. *)
LEMMA LaterChoiceStep ==
  ASSUME SeatsInv, [S!SNext]_seat
  PROVE  \A d \in Askers : seats[d].state = "running" /\ holder' # holder /\ choices' = choices =>
           seats[d].at = choices \/ holder = asks[d].over
<1> SUFFICES ASSUME NEW d \in Askers, seats[d].state = "running", holder' # holder, choices' = choices
             PROVE  holder = asks[d].over
  OBVIOUS
<1> USE StandAssumption DEF SeatsInv, S!STypeOK
<1>1. PICK f \in Askers : S!Seats(f)
  BY OnlySeats
<1>2. f = d
  BY <1>1 DEF S!Seats, OneRuns
<1> QED
  BY <1>1, <1>2 DEF S!Seats, S!MaySeat, JobIsItsAskers

LEMMA AskedStep ==
  ASSUME SeatsInv, [S!SNext]_seat, NEW d \in Askers,
         asks[d].step = "answered", seats[asks[d].job].state = "running", seats'[asks[d].job].state = "done"
  PROVE  holder' = asks[d].model
<1> USE StandAssumption DEF SeatsInv, S!STypeOK
<1>1. asks[d].job \in Askers
  OBVIOUS
<1>2. PICK f \in Askers : S!Seats(f)
  BY <1>1, OnlySeats
<1>3. f = asks[d].job
  BY <1>1, <1>2 DEF S!Seats, OneRuns
<1>4. seats[f].model = asks[d].model
  BY <1>3 DEF AnswerNamesTheModel
<1>5. CASE holder' = seats[f].model
  BY <1>4, <1>5
<1>6. CASE seats' = [seats EXCEPT ![f].state = "refused"]
  BY <1>3, <1>6
<1> QED
  BY <1>2, <1>5, <1>6 DEF S!Seats

-----------------------------------------------------------------------------
(* Integrations: what the row says of a live server was told by it, or a check waits or is on its *)
(* way to the very url; checks are counted by the updates that queued them.                       *)

PutTyped == put \in [step : {"idle", "read"}, url : Urls, status : {"keep", "disabled", "active"},
                     was : [url : Urls, status : I!Statuses, tools : SUBSET Urls]]
OneServersTools == card.tools = {} \/ \E u \in Urls : card.tools = {u}
ChecksCounted == checks \in Nat /\ checks <= puts + (IF put.step = "read" THEN 0 ELSE 1)
CheckGoes == checks > 0 \/ (probes[I!Checker].step # "idle" /\ probes[I!Checker].url = card.url)
StatusIsTold ==
  card.here /\ ~late /\ ~CheckGoes =>
    /\ card.status = "active" => told[card.url] = "alive" /\ ~card.failed
    /\ card.status = "unreachable" => told[card.url] = "dead" /\ card.failed
IntegrationInv ==
  /\ card \in I!Card /\ OneServersTools /\ PutTyped /\ ChecksCounted /\ puts \in 0..MaxPuts
  /\ removing \in BOOLEAN /\ late \in BOOLEAN /\ told \in [Urls -> {"nothing", "alive", "dead"}]
  /\ probes \in [Probers -> [step : {"idle", "speaks", "heard"}, kind : {"ping", "list"}, url : Urls, alive : BOOLEAN]]
  /\ StatusIsTold /\ I!ToolsAreOfTheUrl

LEMMA AnyUrlIsOne == I!AnyUrl \in Urls /\ I!Checker \in Probers
  BY StandAssumption DEF I!AnyUrl, I!Checker

PutSet == [step : {"idle", "read"}, url : Urls, status : {"keep", "disabled", "active"},
           was : [url : Urls, status : I!Statuses, tools : SUBSET Urls]]
ProbeSet == [step : {"idle", "speaks", "heard"}, kind : {"ping", "list"}, url : Urls, alive : BOOLEAN]

LEMMA NothingsTyped == /\ I!NoPut \in PutSet /\ I!NoPut.step = "idle"
                       /\ I!NoProbe \in ProbeSet /\ I!NoProbe.step = "idle"
  BY AnyUrlIsOne DEF I!NoPut, I!NoProbe, PutSet, ProbeSet, I!Statuses, I!NoTools

LEMMA IntegrationInit == I!IInit => IntegrationInv
<1> SUFFICES ASSUME I!IInit
             PROVE  IntegrationInv
  OBVIOUS
<1>1. card \in I!Card /\ card.status = "disabled" /\ card.tools = {}
  BY AnyUrlIsOne DEF I!IInit, I!Card, I!Statuses, I!NoTools
<1>2. PutTyped /\ put.step = "idle"
  BY NothingsTyped DEF I!IInit, PutTyped, PutSet
<1>3. probes \in [Probers -> ProbeSet]
  BY NothingsTyped DEF I!IInit
<1>7. puts = 0 /\ checks = 1 /\ removing = FALSE /\ late = FALSE
  BY DEF I!IInit
<1>4. puts = 0 /\ checks = 1 /\ puts \in 0..MaxPuts
  BY ONLY <1>7, BoundsAreNaturals
<1>8. removing \in BOOLEAN /\ late \in BOOLEAN
  BY ONLY <1>7, Zenon
<1>6. told \in [Urls -> {"nothing", "alive", "dead"}]
  BY DEF I!IInit
<1>5. ChecksCounted /\ OneServersTools /\ I!ToolsAreOfTheUrl /\ StatusIsTold
  BY <1>1, <1>2, <1>4 DEF ChecksCounted, OneServersTools, I!ToolsAreOfTheUrl, StatusIsTold
<1> QED
  BY <1>1, <1>2, <1>3, <1>4, <1>5, <1>6, <1>8 DEF IntegrationInv, ProbeSet

(* What a prober's own step keeps, while the row is as it was. *)
LEMMA ProbeMoves ==
  ASSUME IntegrationInv, NEW p \in Probers, NEW rec \in ProbeSet, probes' = [probes EXCEPT ![p] = rec],
         UNCHANGED <<card, put, puts, removing, told, late>>, checks' \in Nat, checks' <= checks,
         CheckGoes => CheckGoes'
  PROVE  IntegrationInv'
<1> USE DEF IntegrationInv
<1>1. probes' \in [Probers -> ProbeSet]
  BY DEF ProbeSet
<1>2. ChecksCounted'
  <2>1. puts \in Nat
    BY StandAssumption
  <2> QED
    BY <2>1 DEF ChecksCounted
<1>3. StatusIsTold'
  BY DEF StatusIsTold
<1>4. PutTyped' /\ OneServersTools' /\ I!ToolsAreOfTheUrl'
  BY DEF PutTyped, OneServersTools, I!ToolsAreOfTheUrl
<1> QED
  BY <1>1, <1>2, <1>3, <1>4 DEF ProbeSet

(* The write of a probe tells of the url it asked; it is late when the row has another by then. *)
LEMMA MarksKeeps ==
  ASSUME IntegrationInv, NEW p \in Probers, I!Marks(p)
  PROVE  IntegrationInv'
<1> USE DEF IntegrationInv
<1>1. /\ probes[p] \in ProbeSet /\ probes[p].step = "heard" /\ probes' = [probes EXCEPT ![p] = I!NoProbe]
      /\ UNCHANGED <<put, puts, removing, checks>>
  BY DEF I!Marks, ProbeSet
<1>2. probes' \in [Probers -> ProbeSet]
  BY <1>1, NothingsTyped DEF ProbeSet
<1>3. ChecksCounted' /\ PutTyped'
  BY <1>1 DEF ChecksCounted, PutTyped
<1>4. CASE ~card.here
  <2>1. UNCHANGED <<card, told, late>>
    BY <1>4 DEF I!Marks
  <2>2. OneServersTools' /\ I!ToolsAreOfTheUrl' /\ StatusIsTold'
    BY <1>4, <2>1 DEF OneServersTools, I!ToolsAreOfTheUrl, StatusIsTold
  <2> QED
    BY <1>1, <1>2, <1>3, <2>1, <2>2 DEF ProbeSet
<1>5. CASE card.here
  <2> DEFINE alive == probes[p].alive
             url == probes[p].url
  <2>1. /\ card' = [card EXCEPT !.status = I!Marked(card.status, alive), !.failed = ~alive,
                                !.tools = IF probes[p].kind = "list" /\ alive THEN {url} ELSE card.tools]
        /\ told' = [told EXCEPT ![url] = IF alive THEN "alive" ELSE "dead"]
        /\ late' = (late \/ url # card.url)
    BY <1>5 DEF I!Marks
  <2>2. url \in Urls /\ alive \in BOOLEAN
    BY <1>1 DEF ProbeSet
  <2> HIDE DEF alive, url
  <2>3. I!Marked(card.status, alive) \in I!Statuses
    BY <2>2 DEF I!Marked, I!Statuses, I!Card
  <2>4. /\ card' \in I!Card /\ card'.here = card.here /\ card'.url = card.url /\ card'.failed = ~alive
        /\ card'.status = I!Marked(card.status, alive) /\ card'.tools \in {card.tools, {url}}
    BY <2>1, <2>2, <2>3 DEF I!Card
  <2>5. told' \in [Urls -> {"nothing", "alive", "dead"}] /\ late' \in BOOLEAN
        /\ told'[url] = IF alive THEN "alive" ELSE "dead"
    BY <2>1, <2>2
  <2>6. OneServersTools' /\ I!ToolsAreOfTheUrl'
    BY <2>1, <2>2, <2>4 DEF OneServersTools, I!ToolsAreOfTheUrl
  <2>7. StatusIsTold'
    <3> SUFFICES ASSUME ~late'
                 PROVE  /\ card'.status = "active" => told'[card'.url] = "alive" /\ ~card'.failed
                        /\ card'.status = "unreachable" => told'[card'.url] = "dead" /\ card'.failed
      BY DEF StatusIsTold
    <3>1. url = card.url
      BY <2>1
    <3> QED
      BY <2>2, <2>4, <2>5, <3>1 DEF I!Marked, I!Card, I!Statuses
  <2> QED
    BY <1>1, <1>2, <1>3, <2>4, <2>5, <2>6, <2>7 DEF ProbeSet
<1> QED
  BY <1>4, <1>5

LEMMA IntegrationStep ==
  ASSUME IntegrationInv, [I!INext]_integration
  PROVE  IntegrationInv'
<1> USE AnyUrlIsOne, StandAssumption DEF IntegrationInv, I!Card, I!Statuses, I!NoTools
<1> USE DEF OneServersTools, PutTyped, ChecksCounted, CheckGoes, StatusIsTold, I!ToolsAreOfTheUrl
<1>1. CASE I!PutReads
  BY <1>1 DEF I!PutReads
<1>2. CASE I!PutWrites
  <2>1. /\ card'.url \in Urls /\ card'.status \in I!Statuses /\ card'.tools \in SUBSET Urls
        /\ card'.here = card.here /\ card'.failed = card.failed /\ card' \in I!Card
        /\ card'.tools \in {{}, card.tools}
    BY <1>2 DEF I!PutWrites, I!StatusWritten, I!ToolsWritten, I!Moved
  <2>2. ~late' => card'.tools \subseteq {card'.url}
    BY <1>2 DEF I!PutWrites, I!ToolsWritten, I!Moved
  <2>3. checks' = checks + 1 /\ put' = I!NoPut /\ UNCHANGED <<puts, removing, probes, told>> /\ late' \in BOOLEAN
        /\ put.step = "read"
    BY <1>2 DEF I!PutWrites, I!Rechecked
  <2>4. put' \in [step : {"idle", "read"}, url : Urls, status : {"keep", "disabled", "active"},
                     was : [url : Urls, status : I!Statuses, tools : SUBSET Urls]] /\ put'.step = "idle"
    BY <2>3 DEF I!NoPut
  <2> QED
    BY <2>1, <2>2, <2>3, <2>4
<1>3. CASE I!PutMisses
  BY <1>3 DEF I!PutMisses, I!NoPut
<1>4. CASE I!DeleteReads
  BY <1>4 DEF I!DeleteReads
<1>5. CASE I!DeleteWrites
  BY <1>5 DEF I!DeleteWrites
<1>10. CASE UNCHANGED integration
  BY <1>10 DEF integration
<1>6. CASE I!CheckReads
  <2> DEFINE rec == [I!NoProbe EXCEPT !.step = "speaks", !.url = card.url]
  <2>1. /\ checks > 0 /\ checks' = checks - 1 /\ probes' = [probes EXCEPT ![I!Checker] = rec]
        /\ UNCHANGED <<card, put, puts, removing, told, late>>
    BY <1>6 DEF I!CheckReads
  <2>2. card.url \in Urls
    OBVIOUS
  <2>3. rec \in ProbeSet /\ rec.step # "idle" /\ rec.url = card.url
    BY ONLY <2>2, NothingsTyped DEF ProbeSet
  <2> HIDE DEF rec
  <2>4. checks' \in Nat /\ checks' <= checks
    BY <2>1
  <2>5. probes'[I!Checker] = rec
    BY <2>1
  <2> QED
    BY <2>1, <2>3, <2>4, <2>5, ProbeMoves
<1>7. ASSUME NEW p \in Probers, p # I!Checker, I!ProbeReads(p)
      PROVE  IntegrationInv'
  <2>1. PICK k \in {"ping", "list"} :
          probes' = [probes EXCEPT ![p] = [I!NoProbe EXCEPT !.step = "speaks", !.kind = k, !.url = card.url]]
    BY <1>7 DEF I!ProbeReads
  <2> DEFINE rec == [I!NoProbe EXCEPT !.step = "speaks", !.kind = k, !.url = card.url]
  <2>2. card.url \in Urls
    OBVIOUS
  <2>3. rec \in ProbeSet
    BY ONLY <2>2, NothingsTyped DEF ProbeSet
  <2>4. UNCHANGED <<card, put, puts, removing, told, late, checks>> /\ checks' \in Nat /\ checks' <= checks
    BY <1>7 DEF I!ProbeReads
  <2>5. probes' = [probes EXCEPT ![p] = rec]
    BY <2>1
  <2> HIDE DEF rec
  <2>6. CheckGoes => CheckGoes'
    BY <1>7, <2>4, <2>5
  <2> QED
    BY ONLY IntegrationInv, p \in Probers, <2>3, <2>4, <2>5, <2>6, ProbeMoves
<1>8. ASSUME NEW p \in Probers, I!Hears(p)
      PROVE  IntegrationInv'
  <2>1. PICK alive \in BOOLEAN : probes' = [probes EXCEPT ![p] = [@ EXCEPT !.step = "heard", !.alive = alive]]
    BY <1>8 DEF I!Hears
  <2> DEFINE rec == [probes[p] EXCEPT !.step = "heard", !.alive = alive]
  <2>2. probes[p] \in ProbeSet /\ probes' = [probes EXCEPT ![p] = rec]
    BY <2>1 DEF ProbeSet
  <2>3. rec \in ProbeSet /\ rec.step # "idle" /\ rec.url = probes[p].url
    BY ONLY <2>2, alive \in BOOLEAN DEF ProbeSet
  <2> HIDE DEF rec
  <2>4. UNCHANGED <<card, put, puts, removing, told, late, checks>> /\ checks' \in Nat /\ checks' <= checks
    BY <1>8 DEF I!Hears
  <2>5. probes'[p] = rec /\ \A o \in Probers \ {p} : probes'[o] = probes[o]
    BY <2>2
  <2>6. CheckGoes => CheckGoes'
    BY <2>3, <2>4, <2>5
  <2> QED
    BY ONLY IntegrationInv, p \in Probers, <2>2, <2>3, <2>4, <2>6, ProbeMoves
<1>9. ASSUME NEW p \in Probers, I!Marks(p)
      PROVE  IntegrationInv'
  BY <1>9, MarksKeeps
<1> QED
  BY <1>1, <1>2, <1>3, <1>4, <1>5, <1>6, <1>7, <1>8, <1>9, <1>10 DEF I!INext, I!Updates, I!Probes

LEMMA IntegrationTyped == IntegrationInv => I!ITypeOK
<1> SUFFICES ASSUME IntegrationInv
             PROVE  I!ITypeOK
  OBVIOUS
<1> USE DEF IntegrationInv
<1>1. \A u, v \in card.tools : u = v
  BY DEF OneServersTools
<1>2. put.step \in {"idle", "read"} /\ put.url \in Urls
  BY DEF PutTyped
<1>3. checks \in 0..(MaxPuts + 1)
  BY BoundsAreNaturals DEF ChecksCounted
<1>4. /\ card \in I!Card /\ removing \in BOOLEAN /\ puts \in 0..MaxPuts
      /\ probes \in [Probers -> [step : {"idle", "speaks", "heard"}, kind : {"ping", "list"}, url : Urls, alive : BOOLEAN]]
      /\ told \in [Urls -> {"nothing", "alive", "dead"}] /\ late \in BOOLEAN
  OBVIOUS
<1> HIDE DEF IntegrationInv
<1> QED
  BY <1>1, <1>2, <1>3, <1>4, Zenon DEF I!ITypeOK

LEMMA IntegrationsAreHeld == IntegrationInv => IntegrationsHold
  BY IntegrationTyped, AnyUrlIsOne
     DEF IntegrationInv, IntegrationsHold, I!StatusIsOfItsServer, StatusIsTold, CheckGoes

LEMMA DisabledStep ==
  ASSUME IntegrationInv, [I!INext]_integration
  PROVE  card.status = "disabled" /\ card'.status # "disabled" => put.step = "read" /\ put.status = "active"
<1> USE DEF IntegrationInv, PutTyped, I!Card
<1>1. CASE I!PutWrites
  BY <1>1 DEF I!PutWrites, I!StatusWritten
<1>2. ASSUME NEW p \in Probers, I!Marks(p)
      PROVE  card.status = "disabled" => card'.status = "disabled"
  BY <1>2 DEF I!Marks, I!Marked
<1> QED
  BY <1>1, <1>2 DEF I!INext, I!Updates, I!Probes, I!PutReads, I!PutMisses, I!DeleteReads, I!DeleteWrites, I!CheckReads,
     I!ProbeReads, I!Hears, integration

-----------------------------------------------------------------------------
(* Prereg: a close that found the promise closed knows it at its write; one that found it open asked *)
(* the jobs of its run; a bar that cleared read every row.                                           *)

ClosedIsSeen ==
  \A c \in Closers : closes[c].sawClosed =>
    P!Closed /\ (closes[c].step \in {"looked", "noted"} => closes[c].looked = "closed")
OpenIsOwn == \A c \in Closers : closes[c].step \in {"checked", "judged", "looked", "noted"} /\ ~closes[c].sawClosed =>
  closes[c].own
ClearedIsWhole == \A c \in Closers : barred /\ closes[c].found = "cleared" => closes[c].whole
PromiseInv == P!PTypeOK /\ ClosedIsSeen /\ OpenIsOwn /\ ClearedIsWhole

CloseSet == [step : P!Places, run : Runs, sawClosed : BOOLEAN, found : P!Found,
             saw : SUBSET Closers, own : BOOLEAN, whole : BOOLEAN, looked : {"none", "open", "closed"}]
(* what is known of a close that may yet write *)
Sound(close, closed) ==
  /\ close.sawClosed => closed /\ (close.step \in {"looked", "noted"} => close.looked = "closed")
  /\ close.step \in {"checked", "judged", "looked", "noted"} /\ ~close.sawClosed => close.own
  /\ barred /\ close.found = "cleared" => close.whole

LEMMA IdleTyped == /\ P!Idle \in CloseSet /\ P!Idle.step = "idle" /\ P!Idle.sawClosed = FALSE /\ P!Idle.found = "none"
  BY StandAssumption DEF P!Idle, P!Places, P!Found, CloseSet

LEMMA PromiseInit == P!PInit => PromiseInv
<1> SUFFICES ASSUME P!PInit
             PROVE  PromiseInv
  OBVIOUS
<1>1. closes \in [Closers -> CloseSet] /\ \A c \in Closers : closes[c] = P!Idle
  BY IdleTyped DEF P!PInit
<1>2. ClosedIsSeen /\ OpenIsOwn /\ ClearedIsWhole
  BY <1>1, IdleTyped DEF ClosedIsSeen, OpenIsOwn, ClearedIsWhole
<1>3. {barred, promised} \subseteq BOOLEAN
  BY Zenon DEF P!PInit
<1>4. closedWith \in [run : Runs \cup {"none"}, cleared : BOOLEAN]
  BY DEF P!PInit, P!NoClosing
<1>5. attempts \subseteq Closers /\ jobs \in [Runs -> SUBSET {"look", "closing"}] /\ rows \subseteq Runs
  BY DEF P!PInit
<1>6. reading \in [Runs -> {"cleared", "missed"}]
  BY DEF P!PInit
<1> QED
  BY <1>1, <1>2, <1>3, <1>4, <1>5, <1>6 DEF PromiseInv, P!PTypeOK, CloseSet

(* What one close's own step keeps. *)
LEMMA CloseMoves ==
  ASSUME PromiseInv, NEW c \in Closers, NEW rec \in CloseSet, closes' = [closes EXCEPT ![c] = rec],
         Sound(rec, P!Closed'), P!Closed => P!Closed', attempts' \subseteq Closers,
         closedWith' \in [run : Runs \cup {"none"}, cleared : BOOLEAN],
         UNCHANGED <<barred, promised, jobs, rows, reading>>
  PROVE  PromiseInv'
<1> USE DEF PromiseInv, P!PTypeOK
<1>1. closes' \in [Closers -> CloseSet] /\ closes'[c] = rec /\ \A d \in Closers \ {c} : closes'[d] = closes[d]
  BY DEF CloseSet
<1>2. ClosedIsSeen'
  BY <1>1 DEF ClosedIsSeen, Sound
<1>3. OpenIsOwn'
  BY <1>1 DEF OpenIsOwn, Sound
<1>4. ClearedIsWhole'
  BY <1>1 DEF ClearedIsWhole, Sound
<1> QED
  BY <1>1, <1>2, <1>3, <1>4 DEF CloseSet

(* The steps beside the closes: a promise written, a run queued, its rows and what they say. *)
LEMMA RunsMove ==
  ASSUME PromiseInv, barred' = barred,
         \/ P!Writes
         \/ \E r \in Runs : P!Answers(r) \/ P!Rejudges(r) \/ \E how \in {"look", "closing"} : P!QueuesRun(r, how)
  PROVE  PromiseInv'
<1> USE DEF PromiseInv, P!PTypeOK
<1>1. UNCHANGED <<closedWith, attempts, closes>> /\ {barred', promised'} \subseteq BOOLEAN
  BY DEF P!Writes, P!Answers, P!Rejudges, P!QueuesRun
<1>2. jobs' \in [Runs -> SUBSET {"look", "closing"}] /\ rows' \subseteq Runs
  BY DEF P!Writes, P!Answers, P!Rejudges, P!QueuesRun
<1>3. reading' \in [Runs -> {"cleared", "missed"}]
  BY DEF P!Writes, P!Answers, P!Rejudges, P!QueuesRun
<1> QED
  BY <1>1, <1>2, <1>3 DEF ClosedIsSeen, OpenIsOwn, ClearedIsWhole, P!Closed

LEMMA CloseStepsKeep ==
  ASSUME PromiseInv, NEW c \in Closers, P!CloseSteps(c), barred' = barred
  PROVE  PromiseInv'
<1> DEFINE Moves == \E rec \in CloseSet : closes' = [closes EXCEPT ![c] = rec] /\ Sound(rec, P!Closed')
<1>1. closes[c] \in CloseSet /\ attempts \subseteq Closers
  BY DEF PromiseInv, P!PTypeOK, CloseSet
<1>2. Sound(closes[c], P!Closed) /\ closedWith \in [run : Runs \cup {"none"}, cleared : BOOLEAN]
  BY DEF PromiseInv, P!PTypeOK, ClosedIsSeen, OpenIsOwn, ClearedIsWhole, Sound
<1>10. UNCHANGED <<promised, jobs, rows, reading>>
  BY DEF P!CloseSteps, P!Reads, P!Checks, P!Judges, P!Looks, P!Notes, P!Closes
<1>11. attempts' \subseteq Closers
  <2>1. closes[c].saw \subseteq Closers
    BY <1>1 DEF CloseSet
  <2> QED
    BY <1>1, <2>1 DEF P!CloseSteps, P!Reads, P!Checks, P!Judges, P!Looks, P!Notes, P!Closes
<1>12. closedWith' = closedWith \/ \E cleared \in BOOLEAN : closedWith' = [run |-> closes[c].run, cleared |-> cleared]
  <2>1. CASE P!Closes(c)
    BY <2>1 DEF P!Closes
  <2> QED
    BY <2>1 DEF P!CloseSteps, P!Reads, P!Checks, P!Judges, P!Looks, P!Notes
<1>13. closes[c].run \in Runs
  BY <1>1 DEF CloseSet
<1>14. closedWith' \in [run : Runs \cup {"none"}, cleared : BOOLEAN]
  BY ONLY <1>2, <1>12, <1>13
<1>15. P!Closed => P!Closed'
  BY <1>12, <1>13, StandAssumption DEF P!Closed, P!NoClosing
<1>3. ASSUME UNCHANGED closedWith
      PROVE  P!Closed' = P!Closed
  BY <1>3 DEF P!Closed
<1>4. ASSUME NEW r \in Runs, P!Reads(c, r)
      PROVE  Moves
  <2> DEFINE rec == [P!Idle EXCEPT !.step = "read", !.run = r, !.sawClosed = P!Closed]
  <2>1. closes' = [closes EXCEPT ![c] = rec] /\ UNCHANGED <<promised, closedWith, attempts, jobs, rows, reading>>
    BY <1>4 DEF P!Reads
  <2>2. P!Closed \in BOOLEAN
    BY DEF P!Closed
  <2>3. rec \in CloseSet /\ rec.step = "read" /\ rec.sawClosed = P!Closed /\ rec.found = "none"
    BY ONLY <2>2, r \in Runs, IdleTyped DEF CloseSet, P!Places
  <2> HIDE DEF rec
  <2>4. Sound(rec, P!Closed')
    BY <1>3, <2>1, <2>3 DEF Sound
  <2> QED
    BY <2>1, <2>3, <2>4
<1>5. ASSUME P!Checks(c)
      PROVE  Moves
  <2>0. closes[c].step = "read" /\ UNCHANGED <<promised, closedWith, jobs, rows, reading>>
    BY <1>5 DEF P!Checks, P!At
  <2>1. CASE closes[c].sawClosed \/ P!UnderIt(closes[c].run)
    <3> DEFINE own == jobs[closes[c].run] = {"closing"}
               rec == [closes[c] EXCEPT !.step = "checked", !.own = own]
    <3>1. closes' = [closes EXCEPT ![c] = rec] /\ UNCHANGED attempts
      BY <1>5, <2>1 DEF P!Checks
    <3>2. own \in BOOLEAN
      OBVIOUS
    <3>3. closes[c].sawClosed \/ own
      BY <2>1 DEF P!UnderIt
    <3> HIDE DEF own
    <3>4. /\ rec \in CloseSet /\ rec.step = "checked" /\ rec.own = own /\ rec.sawClosed = closes[c].sawClosed
          /\ rec.found = closes[c].found /\ rec.whole = closes[c].whole
      BY ONLY <1>1, <3>2 DEF CloseSet, P!Places
    <3> HIDE DEF rec
    <3>5. Sound(rec, P!Closed')
      BY <1>2, <1>3, <2>0, <3>3, <3>4 DEF Sound
    <3> QED
      BY <3>1, <3>4, <3>5
  <2>2. CASE ~(closes[c].sawClosed \/ P!UnderIt(closes[c].run))
    <3> DEFINE rec == [closes[c] EXCEPT !.step = "refused"]
    <3>1. closes' = [closes EXCEPT ![c] = rec] /\ attempts' = attempts \cup {c}
      BY <1>5, <2>2 DEF P!Checks, P!Goes
    <3>2. /\ rec \in CloseSet /\ rec.step = "refused" /\ rec.sawClosed = closes[c].sawClosed
          /\ rec.found = closes[c].found /\ rec.whole = closes[c].whole
      BY ONLY <1>1 DEF CloseSet, P!Places
    <3> HIDE DEF rec
    <3>3. Sound(rec, P!Closed')
      BY <1>2, <1>3, <2>0, <3>2 DEF Sound
    <3> QED
      BY <3>1, <3>2, <3>3
  <2> QED
    BY <2>1, <2>2
<1>6. ASSUME P!Judges(c)
      PROVE  Moves
  <2>1. PICK read \in {"hold", "stop", "open"}, closing \in P!ClosingStates(closes[c].run) :
          closes' = [closes EXCEPT ![c] = [@ EXCEPT !.step = "judged", !.found = P!Verdict(closing, read),
                                                    !.whole = P!Whole(closes[c].run)]]
    BY <1>6 DEF P!Judges
  <2> DEFINE found == P!Verdict(closing, read)
             whole == P!Whole(closes[c].run)
             rec == [closes[c] EXCEPT !.step = "judged", !.found = found, !.whole = whole]
  <2>2. found \in P!Found
    BY DEF P!Verdict, P!Found
  <2>3. barred /\ found = "cleared" => whole
    BY DEF P!Verdict, P!ClosingStates, P!Incomplete
  <2>4. whole \in BOOLEAN
    BY DEF P!Whole
  <2>5. /\ closes' = [closes EXCEPT ![c] = rec] /\ closes[c].step = "checked"
        /\ UNCHANGED <<promised, closedWith, attempts, jobs, rows, reading>>
    BY <1>6, <2>1 DEF P!Judges, P!At
  <2> HIDE DEF found, whole
  <2>6. /\ rec \in CloseSet /\ rec.step = "judged" /\ rec.own = closes[c].own /\ rec.sawClosed = closes[c].sawClosed
        /\ rec.found = found /\ rec.whole = whole
    BY ONLY <1>1, <2>2, <2>4 DEF CloseSet, P!Places
  <2> HIDE DEF rec
  <2>7. Sound(rec, P!Closed')
    BY <1>2, <1>3, <2>3, <2>5, <2>6 DEF Sound
  <2> QED
    BY <2>5, <2>6, <2>7
<1>7. ASSUME P!Looks(c)
      PROVE  Moves
  <2> DEFINE looked == IF P!Closed THEN "closed" ELSE "open"
             rec == [closes[c] EXCEPT !.step = "looked", !.saw = attempts, !.looked = looked]
  <2>1. /\ closes' = [closes EXCEPT ![c] = rec] /\ closes[c].step = "judged"
        /\ UNCHANGED <<promised, closedWith, attempts, jobs, rows, reading>>
    BY <1>7 DEF P!Looks, P!At
  <2>2. looked \in {"none", "open", "closed"} /\ (P!Closed => looked = "closed")
    OBVIOUS
  <2> HIDE DEF looked
  <2>3. /\ rec \in CloseSet /\ rec.step = "looked" /\ rec.own = closes[c].own /\ rec.sawClosed = closes[c].sawClosed
        /\ rec.found = closes[c].found /\ rec.whole = closes[c].whole /\ rec.looked = looked
    BY ONLY <1>1, <2>2 DEF CloseSet, P!Places
  <2> HIDE DEF rec
  <2>4. Sound(rec, P!Closed')
    BY <1>2, <1>3, <2>1, <2>2, <2>3 DEF Sound
  <2> QED
    BY <2>1, <2>3, <2>4
<1>8. ASSUME P!Notes(c)
      PROVE  Moves
  <2>0. closes[c].step = "looked" /\ UNCHANGED <<promised, closedWith, jobs, rows, reading>>
    BY <1>8 DEF P!Notes, P!At
  <2>1. CASE P!SeesOpen(c)
    <3> DEFINE looked == IF P!Closed THEN "closed" ELSE "open"
               rec == [closes[c] EXCEPT !.step = "noted", !.looked = looked]
    <3>1. closes' = [closes EXCEPT ![c] = rec] /\ attempts' = closes[c].saw \cup {c}
      BY <1>8, <2>1 DEF P!Notes
    <3>2. looked \in {"none", "open", "closed"} /\ (P!Closed => looked = "closed")
      OBVIOUS
    <3> HIDE DEF looked
    <3>3. /\ rec \in CloseSet /\ rec.step = "noted" /\ rec.own = closes[c].own /\ rec.sawClosed = closes[c].sawClosed
          /\ rec.found = closes[c].found /\ rec.whole = closes[c].whole /\ rec.looked = looked
          /\ closes[c].saw \subseteq Closers
      BY ONLY <1>1, <3>2 DEF CloseSet, P!Places
    <3> HIDE DEF rec
    <3>4. Sound(rec, P!Closed')
      BY <1>2, <1>3, <2>0, <3>2, <3>3 DEF Sound
    <3> QED
      BY <3>1, <3>3, <3>4
  <2>2. CASE ~P!SeesOpen(c)
    <3> DEFINE rec == [closes[c] EXCEPT !.step = "noted"]
    <3>1. closes' = [closes EXCEPT ![c] = rec] /\ UNCHANGED attempts
      BY <1>8, <2>2 DEF P!Notes, P!Goes
    <3>2. /\ rec \in CloseSet /\ rec.step = "noted" /\ rec.own = closes[c].own /\ rec.sawClosed = closes[c].sawClosed
          /\ rec.found = closes[c].found /\ rec.whole = closes[c].whole /\ rec.looked = closes[c].looked
      BY ONLY <1>1 DEF CloseSet, P!Places
    <3> HIDE DEF rec
    <3>3. Sound(rec, P!Closed')
      BY <1>2, <1>3, <2>0, <3>2 DEF Sound
    <3> QED
      BY <3>1, <3>2, <3>3
  <2> QED
    BY <2>1, <2>2
<1>9. ASSUME P!Closes(c)
      PROVE  Moves
  <2>0. closes[c].step = "noted" /\ UNCHANGED <<promised, attempts, jobs, rows, reading>>
    BY <1>9 DEF P!Closes, P!At
  <2>1. PICK step \in {"ended", "refused"} : closes' = [closes EXCEPT ![c] = [closes[c] EXCEPT !.step = step]]
    BY <1>9 DEF P!Closes, P!Goes
  <2> DEFINE rec == [closes[c] EXCEPT !.step = step]
  <2>2. /\ rec \in CloseSet /\ rec.step = step /\ rec.sawClosed = closes[c].sawClosed
        /\ rec.found = closes[c].found /\ rec.whole = closes[c].whole
    BY ONLY <1>1, step \in {"ended", "refused"} DEF CloseSet, P!Places
  <2>3. closes' = [closes EXCEPT ![c] = rec]
    BY <2>1
  <2> HIDE DEF rec
  <2>6. Sound(rec, P!Closed')
    BY <1>2, <1>15, <2>0, <2>2 DEF Sound
  <2> QED
    BY <2>2, <2>3, <2>6
<1>16. Moves
  BY <1>4, <1>5, <1>6, <1>7, <1>8, <1>9 DEF P!CloseSteps
<1> HIDE DEF Moves
<1>17. PICK rec \in CloseSet : closes' = [closes EXCEPT ![c] = rec] /\ Sound(rec, P!Closed')
  BY <1>16 DEF Moves
<1> QED
  BY <1>10, <1>11, <1>14, <1>15, <1>17, CloseMoves

LEMMA PromiseStep ==
  ASSUME PromiseInv, [P!PNext]_promise
  PROVE  PromiseInv'
<1>1. CASE P!PNext
  BY <1>1, RunsMove, CloseStepsKeep DEF P!PNext
<1>2. CASE UNCHANGED promise
  BY <1>2 DEF promise, PromiseInv, P!PTypeOK, ClosedIsSeen, OpenIsOwn, ClearedIsWhole, P!Closed
<1> QED
  BY <1>1, <1>2

(* Only the last step of a close writes what the promise was closed with, and only if it looked open. *)
LEMMA WriterEnds ==
  ASSUME PromiseInv, [P!PNext]_promise, P!Writer
  PROVE  /\ barred' = barred
         /\ \E c \in Closers : /\ P!Ends(c) /\ P!Decides(c)
                               /\ closedWith'.cleared = (closes[c].found = "cleared")
<1> USE DEF P!Writer, P!At, P!Goes
<1>1. barred' = barred /\ \E c \in Closers : P!Closes(c)
  BY DEF P!PNext, P!CloseSteps, P!Writes, P!QueuesRun, P!Answers, P!Rejudges, P!Reads, P!Checks, P!Judges, P!Looks,
         P!Notes, promise
<1> QED
  BY <1>1 DEF P!Closes, P!Ends, PromiseInv, P!PTypeOK

LEMMA SettledStep ==
  ASSUME PromiseInv, [P!PNext]_promise
  PROVE  P!Closed /\ P!Writer => \E c \in Closers : P!Ends(c) /\ ~closes[c].sawClosed
  BY WriterEnds DEF PromiseInv, ClosedIsSeen, P!Ends, P!At, P!Decides, P!SeesOpen

LEMMA OwnStep ==
  ASSUME PromiseInv, [P!PNext]_promise
  PROVE  P!Writer => \E c \in Closers : P!Ends(c) /\ closes[c].own
  BY WriterEnds DEF PromiseInv, ClosedIsSeen, OpenIsOwn, P!Ends, P!At, P!Decides, P!SeesOpen

LEMMA ClearedStep ==
  ASSUME PromiseInv, [P!PNext]_promise
  PROVE  barred /\ P!Writer /\ closedWith'.cleared => \E c \in Closers : P!Ends(c) /\ closes[c].whole
  BY WriterEnds DEF PromiseInv, ClearedIsWhole

-----------------------------------------------------------------------------
(* Vectors: a cut and a fill the role did not move under hold to the model they began with, what a  *)
(* cut reuses is of its label, and a search past its check meets its own label until a cut commits. *)

CutHolds ==
  /\ \A t \in Texts : cut.chunks[t].by = cut.chunks[t].made
  /\ cut.step = "embed" /\ ~cut.moved => cut.label = seated
  /\ \A t \in Texts : cut.step = "embed" /\ cut.chunks[t] # V!Nothing =>
       cut.chunks[t].ver = files[t] /\ (~cut.moved => cut.chunks[t].by = cut.label)
  /\ \A t \in cut.reused : cut.chunks[t].by = cut.label /\ cut.chunks[t] # V!Nothing
FillHolds == fill.step = "embed" /\ ~fill.moved => \A q \in Questions \ fill.left : qvecs[q].by = seated
FindHolds ==
  ~find.raced => /\ find.step = "reads" => V!Labels(stored) \subseteq {find.label}
                 /\ find.step = "done" => find.met \subseteq {find.label}

CutSet == [step : {"idle", "embed"}, label : V!Models, chunks : [Texts -> V!Chunk], reused : SUBSET Texts, moved : BOOLEAN]
FillSet == [step : {"idle", "embed"}, left : SUBSET Questions, moved : BOOLEAN]
FindSet == [step : {"idle", "asks", "reads", "done", "refused"}, label : V!Models, met : SUBSET V!Models, raced : BOOLEAN]
QvecSet == [by : V!Models, made : V!Models]
CountsTyped ==
  /\ seated \in Embedders /\ boot \in {V!None} \cup Embedders
  /\ moves \in 0..MaxMoves /\ edits \in 0..MaxEdits /\ queuedJobs \in 0..MaxJobs /\ searches \in 0..MaxSearches
  /\ waiting \in 0..MaxJobs /\ waiting <= queuedJobs
FilesHold == files \in [Texts -> 1..(MaxEdits + 1)] /\ \A t \in Texts : files[t] <= edits + 1
StoredHolds == stored \in [Texts -> V!Chunk] /\ \A t \in Texts : stored[t].by = stored[t].made
QvecsHold == qvecs \in [Questions -> QvecSet] /\ \A q \in Questions : qvecs[q].by = qvecs[q].made
CutPart == cut \in CutSet /\ CutHolds
FillPart == fill \in FillSet /\ FillHolds
FindPart == find \in FindSet /\ FindHolds
VectorsInv == CountsTyped /\ FilesHold /\ StoredHolds /\ QvecsHold /\ CutPart /\ FillPart /\ FindPart

LEMMA NothingIsTyped ==
  /\ V!Nothing \in V!Chunk /\ V!Nothing.by = V!Nothing.made
  /\ V!NoCut \in CutSet /\ V!NoCut.step = "idle" /\ V!NoCut.reused = {}
  /\ \A t \in Texts : V!NoCut.chunks[t] = V!Nothing
  /\ V!NoFill \in FillSet /\ V!NoFill.step = "idle"
  /\ V!NoFind \in FindSet /\ V!NoFind.step = "idle"
<1>1. V!Nothing \in V!Chunk /\ V!Nothing.by = V!Nothing.made
  BY BoundsAreNaturals DEF V!Nothing, V!Chunk, V!Models
<1>2. /\ V!NoCut \in CutSet /\ V!NoCut.step = "idle" /\ V!NoCut.reused = {}
      /\ \A t \in Texts : V!NoCut.chunks[t] = V!Nothing
  BY <1>1 DEF V!NoCut, CutSet, V!Models
<1>3. V!NoFill \in FillSet /\ V!NoFill.step = "idle"
  BY DEF V!NoFill, FillSet
<1>4. V!NoFind \in FindSet /\ V!NoFind.step = "idle"
  BY DEF V!NoFind, FindSet, V!Models
<1> QED
  BY <1>1, <1>2, <1>3, <1>4

(* No cut, no fill and no search under way hold nothing up. *)
LEMMA AtRest ==
  /\ cut' = V!NoCut => CutPart'
  /\ fill' = V!NoFill => FillPart'
  /\ find' = V!NoFind => FindPart'
<1>1. ASSUME cut' = V!NoCut
      PROVE  CutPart'
  BY <1>1, NothingIsTyped DEF CutPart, CutHolds
<1>2. ASSUME fill' = V!NoFill
      PROVE  FillPart'
  BY <1>2, NothingIsTyped DEF FillPart, FillHolds
<1>3. ASSUME find' = V!NoFind
      PROVE  FindPart'
  BY <1>3, NothingIsTyped DEF FindPart, FindHolds
<1> QED
  BY <1>1, <1>2, <1>3

(* A part whose variables a step leaves alone stays as it was. *)
LEMMA PartsStay ==
  ASSUME VectorsInv
  PROVE  /\ UNCHANGED <<seated, boot, moves, edits, queuedJobs, searches, waiting>> => CountsTyped'
         /\ UNCHANGED <<files, edits>> => FilesHold'
         /\ UNCHANGED stored => StoredHolds'
         /\ UNCHANGED qvecs => QvecsHold'
         /\ UNCHANGED <<cut, seated, files>> => CutPart'
         /\ UNCHANGED <<fill, seated, qvecs>> => FillPart'
         /\ UNCHANGED <<find, stored>> => FindPart'
<1> USE DEF VectorsInv
<1>1. UNCHANGED <<seated, boot, moves, edits, queuedJobs, searches, waiting>> => CountsTyped'
  BY DEF CountsTyped
<1>2. UNCHANGED <<files, edits>> => FilesHold'
  BY DEF FilesHold
<1>3. (UNCHANGED stored => StoredHolds') /\ (UNCHANGED qvecs => QvecsHold')
  BY DEF StoredHolds, QvecsHold
<1>4. UNCHANGED <<cut, seated, files>> => CutPart'
  BY DEF CutPart, CutHolds
<1>5. UNCHANGED <<fill, seated, qvecs>> => FillPart'
  BY DEF FillPart, FillHolds
<1>6. UNCHANGED <<find, stored>> => FindPart'
  BY DEF FindPart, FindHolds, V!Labels
<1> QED
  BY <1>1, <1>2, <1>3, <1>4, <1>5, <1>6

LEMMA VectorsInit == V!VInit => VectorsInv
<1> SUFFICES ASSUME V!VInit
             PROVE  VectorsInv
  OBVIOUS
<1> USE DEF V!VInit
<1>1. CountsTyped
  BY BoundsAreNaturals DEF CountsTyped
<1>2. FilesHold
  BY BoundsAreNaturals DEF FilesHold
<1>3. StoredHolds
  BY NothingIsTyped DEF StoredHolds
<1>4. QvecsHold
  BY DEF QvecsHold, QvecSet, V!Blank, V!Models
<1>5. CutPart /\ FillPart /\ FindPart
  BY NothingIsTyped DEF CutPart, CutHolds, FillPart, FillHolds, FindPart, FindHolds
<1> QED
  BY <1>1, <1>2, <1>3, <1>4, <1>5 DEF VectorsInv

(* A cut's own steps. *)
LEMMA CutStep ==
  ASSUME VectorsInv, V!Cuts
  PROVE  VectorsInv'
<1> USE DEF V!counts
<1>0. /\ CountsTyped /\ FilesHold /\ StoredHolds /\ CutPart /\ FindPart /\ seated \in V!Models /\ seated # V!None
  BY StandAssumption DEF VectorsInv, CountsTyped, V!Models, V!None
<1>1. CASE V!CutBegins
  <2> DEFINE reused == V!Reusable(seated)
             chunks == [t \in Texts |-> IF t \in reused THEN stored[t] ELSE V!Nothing]
  <2>1. /\ cut' = [V!NoCut EXCEPT !.step = "embed", !.label = seated, !.reused = reused, !.chunks = chunks]
        /\ queuedJobs < MaxJobs /\ queuedJobs' = queuedJobs + 1
        /\ UNCHANGED <<seated, moves, edits, searches, files, stored, qvecs, fill, waiting, find, boot>>
    BY <1>1 DEF V!CutBegins
  <2>2. /\ reused \subseteq Texts
        /\ \A t \in reused : stored[t].ver = files[t] /\ stored[t].by = seated /\ stored[t] # V!Nothing
    BY DEF V!Reusable, V!Held
  <2> HIDE DEF reused
  <2>3. /\ chunks \in [Texts -> V!Chunk] /\ \A t \in Texts : chunks[t].by = chunks[t].made
        /\ \A t \in Texts : t \in reused => chunks[t] = stored[t]
        /\ \A t \in Texts : t \notin reused => chunks[t] = V!Nothing
    BY <1>0, <2>2, NothingIsTyped DEF StoredHolds
  <2> HIDE DEF chunks
  <2>4. /\ cut' \in CutSet /\ cut'.step = "embed" /\ cut'.label = seated /\ cut'.reused = reused
        /\ cut'.chunks = chunks
    BY <1>0, <2>1, <2>2, <2>3 DEF V!NoCut, CutSet
  <2>5. CutPart'
    BY <2>1, <2>2, <2>3, <2>4 DEF CutPart, CutHolds
  <2>6. CountsTyped'
    BY <1>0, <2>1, BoundsAreNaturals DEF CountsTyped
  <2> QED
    BY <2>1, <2>5, <2>6, PartsStay DEF VectorsInv
<1>2. CASE V!CutFails
  BY <1>2, AtRest, PartsStay DEF VectorsInv, V!CutFails
<1>3. CASE V!CutWrites
  <2>1. /\ stored' = cut.chunks /\ cut' = V!NoCut /\ find' = [find EXCEPT !.raced = (find.raced \/ find.step = "reads")]
        /\ UNCHANGED <<seated, moves, edits, queuedJobs, searches, files, qvecs, fill, waiting, boot>>
    BY <1>3 DEF V!CutWrites
  <2>2. StoredHolds'
    BY <1>0, <2>1 DEF CutPart, CutHolds, CutSet, StoredHolds
  <2>3. find \in FindSet
    BY <1>0 DEF FindPart
  <2>4. /\ find' \in FindSet /\ find'.step = find.step /\ find'.met = find.met /\ find'.label = find.label
        /\ find'.raced = (find.raced \/ find.step = "reads")
    BY ONLY <2>1, <2>3 DEF FindSet
  <2>5. FindPart'
    BY <1>0, <2>4 DEF FindPart, FindHolds
  <2> QED
    BY <2>1, <2>2, <2>5, AtRest, PartsStay DEF VectorsInv
<1>4. ASSUME NEW t \in Texts, V!CutEmbeds(t)
      PROVE  VectorsInv'
  <2> DEFINE new == [ver |-> files[t], by |-> seated, made |-> seated]
  <2>1. /\ cut.step = "embed" /\ cut.chunks[t] = V!Nothing /\ cut' = [cut EXCEPT !.chunks[t] = new]
        /\ UNCHANGED <<seated, moves, edits, queuedJobs, searches, files, stored, qvecs, fill, waiting, find, boot>>
    BY <1>4 DEF V!CutEmbeds, V!Embedded
  <2>2. new \in V!Chunk /\ new.ver = files[t] /\ new.by = seated /\ new.made = seated
    BY <1>0, BoundsAreNaturals DEF FilesHold, V!Chunk
  <2> HIDE DEF new
  <2>3. cut \in CutSet
    BY <1>0 DEF CutPart
  <2>4. /\ cut' \in CutSet /\ cut'.step = "embed" /\ cut'.label = cut.label /\ cut'.reused = cut.reused
        /\ cut'.moved = cut.moved /\ cut'.chunks = [cut.chunks EXCEPT ![t] = new]
    BY ONLY <2>1, <2>2, <2>3, t \in Texts DEF CutSet
  <2>5. cut'.chunks[t] = new /\ \A u \in Texts \ {t} : cut'.chunks[u] = cut.chunks[u]
    BY <2>3, <2>4 DEF CutSet
  <2>6. t \notin cut.reused
    BY <1>0, <2>1 DEF CutPart, CutHolds
  <2>7. CutPart'
    BY <1>0, <2>1, <2>2, <2>4, <2>5, <2>6 DEF CutPart, CutHolds
  <2> QED
    BY <2>1, <2>7, PartsStay DEF VectorsInv
<1> QED
  BY <1>1, <1>2, <1>3, <1>4 DEF V!Cuts

(* The steps of a fill and of the jobs that wait for one. *)
LEMMA FillStep ==
  ASSUME VectorsInv, V!Fills \/ V!Queues \/ V!BootLooks \/ V!BootQueues
  PROVE  VectorsInv'
<1> USE DEF V!counts
<1>0. CountsTyped /\ QvecsHold /\ FillPart /\ fill \in FillSet /\ seated \in V!Models
  BY DEF VectorsInv, CountsTyped, V!Models, FillPart
<1>1. CASE V!FillBegins
  <2> DEFINE left == V!Pending(seated)
  <2>1. /\ fill' = [step |-> "embed", left |-> left, moved |-> FALSE] /\ waiting > 0 /\ waiting' = waiting - 1
        /\ UNCHANGED <<seated, moves, edits, queuedJobs, searches, files, stored, cut, qvecs, find, boot>>
    BY <1>1 DEF V!FillBegins
  <2>2. left \subseteq Questions /\ \A q \in Questions \ left : qvecs[q].by = seated
    BY DEF V!Pending, V!Needs
  <2> HIDE DEF left
  <2>3. FillPart'
    BY <2>1, <2>2 DEF FillPart, FillHolds, FillSet
  <2>4. CountsTyped'
    BY <1>0, <2>1, BoundsAreNaturals DEF CountsTyped
  <2> QED
    BY <2>1, <2>3, <2>4, PartsStay DEF VectorsInv
<1>2. ASSUME NEW q \in Questions, V!FillEmbeds(q)
      PROVE  VectorsInv'
  <2> DEFINE new == [by |-> seated, made |-> seated]
  <2>1. /\ qvecs' = [qvecs EXCEPT ![q] = new] /\ fill' = [fill EXCEPT !.left = fill.left \ {q}]
        /\ UNCHANGED <<seated, moves, edits, queuedJobs, searches, files, stored, cut, waiting, find, boot>>
    BY <1>2 DEF V!FillEmbeds
  <2>2. new \in QvecSet /\ new.by = seated /\ new.made = seated
    BY <1>0 DEF QvecSet
  <2> HIDE DEF new
  <2>3. QvecsHold' /\ qvecs'[q].by = seated /\ \A r \in Questions \ {q} : qvecs'[r] = qvecs[r]
    BY <1>0, <2>1, <2>2 DEF QvecsHold
  <2>4. fill' \in FillSet /\ fill'.step = fill.step /\ fill'.moved = fill.moved /\ fill'.left = fill.left \ {q}
    BY ONLY <1>0, <2>1 DEF FillSet
  <2>5. FillPart'
    BY <1>0, <2>1, <2>3, <2>4 DEF FillPart, FillHolds
  <2> QED
    BY <2>1, <2>3, <2>5, PartsStay DEF VectorsInv
<1>3. CASE V!FillEnds
  BY <1>3, AtRest, PartsStay DEF VectorsInv, V!FillEnds
<1>4. CASE V!FillFails \/ V!Queues
  <2>1. /\ queuedJobs < MaxJobs /\ queuedJobs' = queuedJobs + 1 /\ waiting' = waiting + 1
        /\ UNCHANGED <<seated, moves, edits, searches, files, stored, cut, qvecs, find, boot>>
        /\ fill' \in {fill, V!NoFill}
    BY <1>4 DEF V!FillFails, V!Queues
  <2>2. CountsTyped'
    BY <1>0, <2>1, BoundsAreNaturals DEF CountsTyped
  <2> QED
    BY <2>1, <2>2, AtRest, PartsStay DEF VectorsInv
<1>5. CASE V!BootLooks
  <2>1. boot' = seated /\ UNCHANGED <<seated, moves, edits, queuedJobs, searches, files, stored, cut, qvecs, fill, waiting, find>>
    BY <1>5 DEF V!BootLooks
  <2>2. CountsTyped'
    BY <1>0, <2>1 DEF CountsTyped
  <2> QED
    BY <2>1, <2>2, PartsStay DEF VectorsInv
<1>6. CASE V!BootQueues
  <2>1. /\ boot' = V!None /\ UNCHANGED <<seated, moves, edits, searches, files, stored, cut, qvecs, fill, find>>
        /\ \/ UNCHANGED <<waiting, queuedJobs>>
           \/ queuedJobs < MaxJobs /\ waiting' = waiting + 1 /\ queuedJobs' = queuedJobs + 1
    BY <1>6 DEF V!BootQueues
  <2>2. CountsTyped'
    BY <1>0, <2>1, BoundsAreNaturals DEF CountsTyped
  <2> QED
    BY <2>1, <2>2, PartsStay DEF VectorsInv
<1> QED
  BY <1>1, <1>2, <1>3, <1>4, <1>5, <1>6 DEF V!Fills

(* The steps of a search, of the role and of the source's files. *)
LEMMA FindStep ==
  ASSUME VectorsInv, V!Finds \/ (\E m \in Embedders : V!Seats(m)) \/ (\E t \in Texts : V!Edits(t))
  PROVE  VectorsInv'
<1> USE DEF V!counts
<1>0. /\ CountsTyped /\ QvecsHold /\ StoredHolds /\ FilesHold /\ CutPart /\ FillPart /\ FindPart
      /\ find \in FindSet /\ cut \in CutSet /\ fill \in FillSet /\ seated \in V!Models
  BY DEF VectorsInv, CountsTyped, V!Models, FindPart, CutPart, FillPart
<1>1. CASE V!FindAsks
  <2>1. PICK label \in {seated} \cup ({qvecs[q].by : q \in Questions} \ {V!None}) :
          find' = [V!NoFind EXCEPT !.step = "asks", !.label = label]
    BY <1>1 DEF V!FindAsks
  <2>2. label \in V!Models
    BY <1>0 DEF QvecsHold, QvecSet
  <2>3. find' \in FindSet /\ find'.step = "asks"
    BY ONLY <2>1, <2>2 DEF FindSet, V!NoFind
  <2>4. FindPart'
    BY <2>3 DEF FindPart, FindHolds
  <2>5. /\ searches < MaxSearches /\ searches' = searches + 1
        /\ UNCHANGED <<seated, moves, edits, queuedJobs, files, stored, cut, qvecs, fill, waiting, boot>>
    BY <1>1 DEF V!FindAsks
  <2>6. CountsTyped'
    BY <1>0, <2>5, BoundsAreNaturals DEF CountsTyped
  <2> QED
    BY <2>4, <2>5, <2>6, PartsStay DEF VectorsInv
<1>2. CASE V!FindChecks
  <2>1. /\ find' = [find EXCEPT !.step = IF V!Foreign(find.label) THEN "refused" ELSE "reads"]
        /\ UNCHANGED <<seated, moves, edits, queuedJobs, searches, files, stored, cut, qvecs, fill, waiting, boot>>
    BY <1>2 DEF V!FindChecks
  <2> DEFINE step == IF V!Foreign(find.label) THEN "refused" ELSE "reads"
  <2>2. step \in {"refused", "reads"} /\ (step = "reads" => V!Labels(stored) \subseteq {find.label})
    BY DEF V!Foreign
  <2> HIDE DEF step
  <2>3. find' \in FindSet /\ find'.step = step /\ find'.label = find.label /\ find'.raced = find.raced
    BY ONLY <1>0, <2>1, <2>2 DEF FindSet, step
  <2>4. V!Labels(stored)' = V!Labels(stored)
    BY <2>1 DEF V!Labels
  <2>5. FindPart'
    BY <2>2, <2>3, <2>4 DEF FindPart, FindHolds
  <2> QED
    BY <2>1, <2>5, PartsStay DEF VectorsInv
<1>3. CASE V!FindReads
  <2> DEFINE met == {stored[t].made : t \in V!Held}
  <2>1. /\ find.step = "reads" /\ find' = [find EXCEPT !.step = "done", !.met = met]
        /\ UNCHANGED <<seated, moves, edits, queuedJobs, searches, files, stored, cut, qvecs, fill, waiting, boot>>
    BY <1>3 DEF V!FindReads
  <2>2. met \subseteq V!Models
    BY <1>0 DEF StoredHolds, V!Chunk, V!Held
  <2>3. met \subseteq V!Labels(stored)
    BY <1>0 DEF StoredHolds, V!Held, V!Labels
  <2> HIDE DEF met
  <2>4. /\ find' \in FindSet /\ find'.step = "done" /\ find'.met = met /\ find'.label = find.label
        /\ find'.raced = find.raced
    BY ONLY <1>0, <2>1, <2>2 DEF FindSet
  <2>5. FindPart'
    BY <1>0, <2>1, <2>3, <2>4 DEF FindPart, FindHolds
  <2> QED
    BY <2>1, <2>5, PartsStay DEF VectorsInv
<1>4. CASE V!FindEnds
  BY <1>4, AtRest, PartsStay DEF VectorsInv, V!FindEnds
<1>5. ASSUME NEW m \in Embedders, V!Seats(m)
      PROVE  VectorsInv'
  <2>1. /\ moves < MaxMoves /\ seated' = m /\ moves' = moves + 1
        /\ cut' = [cut EXCEPT !.moved = (cut.step # "idle")] /\ fill' = [fill EXCEPT !.moved = (fill.step # "idle")]
        /\ UNCHANGED <<edits, queuedJobs, searches, files, stored, qvecs, waiting, find, boot>>
    BY <1>5 DEF V!Seats
  <2>2. /\ cut' \in CutSet /\ cut'.step = cut.step /\ cut'.label = cut.label /\ cut'.reused = cut.reused
        /\ cut'.chunks = cut.chunks /\ cut'.moved = (cut.step # "idle")
    BY ONLY <1>0, <2>1 DEF CutSet
  <2>3. fill' \in FillSet /\ fill'.step = fill.step /\ fill'.moved = (fill.step # "idle")
    BY ONLY <1>0, <2>1 DEF FillSet
  <2>4. cut.step = "embed" /\ ~cut'.moved => FALSE
    BY <2>2
  <2>5. cut.step = "embed" => \A t \in Texts : cut.chunks[t] # V!Nothing => cut.chunks[t].ver = files[t]
    BY <1>0 DEF CutPart, CutHolds
  <2>6. CutPart'
    BY <1>0, <2>1, <2>2, <2>4, <2>5 DEF CutPart, CutHolds
  <2>7. FillPart'
    BY <2>3 DEF FillPart, FillHolds
  <2>8. CountsTyped'
    BY <1>0, <2>1, BoundsAreNaturals DEF CountsTyped
  <2> QED
    BY <2>1, <2>6, <2>7, <2>8, PartsStay DEF VectorsInv
<1>6. ASSUME NEW t \in Texts, V!Edits(t)
      PROVE  VectorsInv'
  <2>1. /\ edits < MaxEdits /\ cut.step = "idle" /\ edits' = edits + 1 /\ files' = [files EXCEPT ![t] = @ + 1]
        /\ UNCHANGED <<seated, moves, queuedJobs, searches, stored, cut, qvecs, fill, waiting, find, boot>>
    BY <1>6 DEF V!Edits
  <2>2. edits \in 0..MaxEdits /\ edits + 1 \in 0..MaxEdits
    BY <1>0, <2>1, BoundsAreNaturals DEF CountsTyped
  <2>3. FilesHold'
    BY <1>0, <2>1, <2>2, BoundsAreNaturals DEF FilesHold
  <2>4. CountsTyped'
    BY <1>0, <2>1, <2>2 DEF CountsTyped
  <2>5. CutPart'
    BY <1>0, <2>1 DEF CutPart, CutHolds
  <2> QED
    BY <2>1, <2>3, <2>4, <2>5, PartsStay DEF VectorsInv
<1> QED
  BY <1>1, <1>2, <1>3, <1>4, <1>5, <1>6 DEF V!Finds

LEMMA VectorsStep ==
  ASSUME VectorsInv, [V!VNext]_vectors
  PROVE  VectorsInv'
<1>1. CASE V!VNext
  BY <1>1, CutStep, FillStep, FindStep DEF V!VNext
<1>2. CASE UNCHANGED vectors
  BY <1>2, PartsStay DEF vectors, VectorsInv
<1> QED
  BY <1>1, <1>2

LEMMA VectorsAreHeld == VectorsInv => VectorsHold
<1> SUFFICES ASSUME VectorsInv
             PROVE  VectorsHold
  OBVIOUS
<1> USE DEF VectorsInv
<1>1. /\ seated \in Embedders /\ boot \in {V!None} \cup Embedders
      /\ moves \in 0..MaxMoves /\ edits \in 0..MaxEdits /\ queuedJobs \in 0..MaxJobs /\ searches \in 0..MaxSearches
      /\ waiting \in 0..MaxJobs
  BY DEF CountsTyped
<1>2. /\ files \in [Texts -> 1..(MaxEdits + 1)] /\ stored \in [Texts -> V!Chunk]
      /\ qvecs \in [Questions -> [by : V!Models, made : V!Models]]
  BY DEF FilesHold, StoredHolds, QvecsHold, QvecSet
<1>3. cut \in CutSet /\ fill \in FillSet /\ find \in FindSet
  BY DEF CutPart, FillPart, FindPart
<1>4. V!VTypeOK
  BY <1>1, <1>2, <1>3 DEF V!VTypeOK, CutSet, FillSet, FindSet
<1>5. V!LabelsTellTheMaker
  BY DEF StoredHolds, QvecsHold, V!LabelsTellTheMaker
<1>6. V!SearchMeetsItsOwn
  BY DEF FindPart, FindHolds, V!SearchMeetsItsOwn
<1> QED
  BY <1>4, <1>5, <1>6 DEF VectorsHold

(* Only CutWrites writes what is stored or ends a cut that may write. *)
LEMMA OnlyCutWrites ==
  ASSUME VectorsInv, [V!VNext]_vectors, stored' # stored \/ (V!MayWrite /\ cut' = V!NoCut)
  PROVE  V!CutWrites
<1>0. cut \in CutSet /\ V!NoCut.step = "idle"
  BY NothingIsTyped DEF VectorsInv, CutPart
<1>1. ASSUME NEW m \in Embedders, V!Seats(m)
      PROVE  FALSE
  <2>1. UNCHANGED stored /\ cut' = [cut EXCEPT !.moved = (cut.step # "idle")]
    BY <1>1 DEF V!Seats
  <2>2. cut'.step = cut.step
    BY ONLY <1>0, <2>1 DEF CutSet
  <2> QED
    BY <1>0, <2>1, <2>2 DEF V!MayWrite
<1>2. CASE V!CutFails \/ V!CutBegins
  BY <1>2 DEF V!CutFails, V!CutBegins, V!MayWrite, V!LaneFree
<1>3. ASSUME NEW t \in Texts, V!CutEmbeds(t)
      PROVE  FALSE
  BY <1>3 DEF V!CutEmbeds, V!MayWrite, V!Whole
<1>4. CASE UNCHANGED <<cut, stored>>
  BY <1>0, <1>4 DEF V!MayWrite
<1>5. V!CutWrites \/ V!CutFails \/ V!CutBegins \/ (\E t \in Texts : V!CutEmbeds(t)) \/ (\E m \in Embedders : V!Seats(m))
        \/ UNCHANGED <<cut, stored>>
  BY DEF V!VNext, V!Cuts, V!Fills, V!Finds, V!Edits, V!Queues, V!BootLooks, V!BootQueues, V!FillBegins, V!FillEmbeds,
         V!FillEnds, V!FillFails, V!FindAsks, V!FindChecks, V!FindReads, V!FindEnds, vectors
<1> QED
  BY <1>1, <1>2, <1>3, <1>4, <1>5

LEMMA UnmovedStep ==
  ASSUME VectorsInv, [V!VNext]_vectors, V!MayWrite, cut' = V!NoCut, ~cut.moved, NEW t \in Texts
  PROVE  stored'[t].made = cut.label /\ stored'[t].ver = files[t]
<1>1. stored' = cut.chunks
  BY OnlyCutWrites DEF V!CutWrites
<1>2. cut.step = "embed" /\ cut.chunks[t] # V!Nothing
  BY DEF V!MayWrite, V!Whole
<1> QED
  BY <1>1, <1>2 DEF VectorsInv, CutPart, CutHolds

LEMMA PureStep ==
  ASSUME VectorsInv, [V!VNext]_vectors, stored' # stored, cut.reused # {}
  PROVE  ~V!Mixed(stored')
<1>1. V!MayWrite /\ stored' = cut.chunks
  BY OnlyCutWrites DEF V!CutWrites
<1>2. \A t, u \in Texts : cut.chunks[t].by = cut.chunks[u].by
  <2>1. CASE V!Fresh = {}
    BY <2>1 DEF V!Fresh, VectorsInv, CutPart, CutHolds
  <2>2. CASE V!Fresh # {}
    BY <1>1, <2>2 DEF V!MayWrite, V!MovedUnder
  <2> QED
    BY <2>1, <2>2
<1>3. \A a \in V!Labels(stored') : \E t \in Texts : a = cut.chunks[t].by
  BY <1>1 DEF V!Labels
<1> QED
  BY <1>2, <1>3 DEF V!Mixed

-----------------------------------------------------------------------------
(* Registry: the io thread runs one job, weights at rest have a row or a delete on its way, and while *)
(* a delete removes the weights every row there is has a pull to bring them back.                     *)

JobSet == [kind : {"pull", "delete"}, on : Engines, late : BOOLEAN,
           state : {"new", "running", "done", "error", "cancelled"}, tries : 0..MaxAttempts]
IoTyped == \E n \in 0..MaxPulls : io \in [1..n -> JobSet]
RowsTyped ==
  /\ models \in [Engines -> [key : 0..MaxKeys, ready : BOOLEAN]] /\ keys \in 0..MaxKeys
  /\ held \in BOOLEAN /\ role \in 0..MaxKeys
  /\ doing \in [job : 0..MaxPulls, step : {"idle", "look", "pull", "record", "remove"}]
  /\ deleter \in [step : {"idle", "deciding"}, on : Engines, key : 0..MaxKeys]
  /\ asker \in {"idle", "registered", "waits", "ready", "failed"}
  /\ booting \in [step : {"idle", "read", "queue"}, on : Engines, seen : BOOLEAN]
  /\ halts \in 0..MaxHalts /\ slips \subseteq {"refused", "cancelled", "cut", "lost", "stale"}
  /\ \A e \in Engines : Registered(e) => models[e].key # 0
Typed == RowsTyped /\ IoTyped
OneRunsInIo ==
  /\ (doing.step = "idle") = (doing.job = 0)
  /\ doing.job # 0 => doing.job \in DOMAIN io /\ Running.state = "running"
  /\ \A j \in DOMAIN io : io[j].state = "running" => j = doing.job
  /\ doing.step \in {"pull", "record"} => Running.kind = "pull"
  /\ doing.step = "remove" => Running.kind = "delete"
Strays == slips \cap {"cancelled", "cut"} # {}
RemovesUnderNoRow == doing.step = "remove" => \A e \in Engines : Registered(e) => Awaited(e) \/ Strays
DeleteComing == \E j \in DOMAIN io : io[j].kind = "delete" /\ io[j].state \in {"new", "running"}
WeightsHaveAnEnd ==
  /\ doing.step = "record" => held
  /\ (held \/ doing.step = "pull") /\ "lost" \notin slips => DeleteComing \/ \E e \in Engines : Registered(e)
RegistryInv ==
  Typed /\ OneRunsInIo /\ RemovesUnderNoRow /\ WeightsHaveAnEnd /\ ReadyIsHeld /\ AvailableIsComing

LEMMA RegistryInit == RInit => RegistryInv
<1> SUFFICES ASSUME RInit
             PROVE  RegistryInv
  OBVIOUS
<1> USE RegistryAssumption DEF RInit, NoRow, Idle, NoDoor, NoBoot
<1>1. io \in [1..0 -> JobSet] /\ DOMAIN io = {}
  OBVIOUS
<1>2. RowsTyped
  <2>1. [key |-> 0, ready |-> FALSE] \in [key : 0..MaxKeys, ready : BOOLEAN]
    OBVIOUS
  <2>2. models \in [Engines -> [key : 0..MaxKeys, ready : BOOLEAN]]
    BY <2>1
  <2>3. booting \in [step : {"idle", "read", "queue"}, on : Engines, seen : BOOLEAN]
    OBVIOUS
  <2>4. /\ doing \in [job : 0..MaxPulls, step : {"idle", "look", "pull", "record", "remove"}]
        /\ deleter \in [step : {"idle", "deciding"}, on : Engines, key : 0..MaxKeys]
    OBVIOUS
  <2>5. keys \in 0..MaxKeys /\ role \in 0..MaxKeys /\ halts \in 0..MaxHalts
    OBVIOUS
  <2>7. held \in BOOLEAN
    BY Zenon
  <2>6. \A e \in Engines : ~Registered(e)
    BY DEF Registered
  <2> QED
    BY <2>2, <2>3, <2>4, <2>5, <2>6, <2>7 DEF RowsTyped
<1>4. 0 \in 0..MaxPulls
  OBVIOUS
<1>5. IoTyped
  BY <1>1, <1>4 DEF IoTyped
<1>3. OneRunsInIo /\ RemovesUnderNoRow /\ WeightsHaveAnEnd /\ ReadyIsHeld /\ AvailableIsComing
  BY <1>1 DEF OneRunsInIo, RemovesUnderNoRow, WeightsHaveAnEnd, ReadyIsHeld, AvailableIsComing, Registered
<1> QED
  BY <1>2, <1>5, <1>3 DEF RegistryInv, Typed

(* A job queued is put behind the others. *)
LEMMA QueuedIs ==
  ASSUME IoTyped, Room, NEW kind \in {"pull", "delete"}, NEW e \in Engines
  PROVE  \E n \in Nat :
           /\ n < MaxPulls /\ DOMAIN io = 1..n /\ DOMAIN Queued(kind, e) = 1..(n + 1)
           /\ Queued(kind, e) \in [1..(n + 1) -> JobSet]
           /\ \A j \in 1..n : Queued(kind, e)[j] = io[j]
           /\ Queued(kind, e)[n + 1] = Job(kind, e)
<1> USE RegistryAssumption
<1>1. PICK n \in 0..MaxPulls : io \in [1..n -> JobSet]
  BY DEF IoTyped
<1>2. Cardinality(DOMAIN io) = n /\ DOMAIN io = 1..n
  BY <1>1, FS_Interval
<1>3. Job(kind, e) \in JobSet
  BY DEF Job, JobSet
<1>4. n < MaxPulls /\ n \in Nat
  BY <1>2 DEF Room
<1>5. Queued(kind, e) = [j \in 1..(n + 1) |-> IF j \in 1..n THEN io[j] ELSE Job(kind, e)]
  BY <1>2 DEF Queued
<1> QED
  BY <1>1, <1>2, <1>3, <1>4, <1>5

(* What a step that only queues a job keeps of the lane. *)
LEMMA QueuedKeeps ==
  ASSUME RegistryInv, Room, NEW kind \in {"pull", "delete"}, NEW d \in Engines, io' = Queued(kind, d), UNCHANGED doing
  PROVE  /\ IoTyped' /\ OneRunsInIo'
         /\ \A e \in Engines : (Coming(e) => Coming(e)') /\ (GaveUp(e) => GaveUp(e)')
         /\ DeleteComing => DeleteComing'
         /\ kind = "pull" => Coming(d)'
         /\ kind = "delete" => DeleteComing'
         /\ doing'.job = 0 => \A j \in DOMAIN io' : io'[j].state # "running"
<1>1. PICK n \in Nat :
           /\ n < MaxPulls /\ DOMAIN io = 1..n /\ DOMAIN Queued(kind, d) = 1..(n + 1)
           /\ Queued(kind, d) \in [1..(n + 1) -> JobSet]
           /\ \A j \in 1..n : Queued(kind, d)[j] = io[j]
           /\ Queued(kind, d)[n + 1] = Job(kind, d)
  BY QueuedIs DEF RegistryInv, Typed
<1>2. io'[n + 1].kind = kind /\ io'[n + 1].on = d /\ io'[n + 1].state = "new"
  BY <1>1 DEF Job
<1>3. IoTyped'
  BY <1>1, RegistryAssumption DEF IoTyped
<1>4. OneRunsInIo'
  BY <1>1, <1>2 DEF OneRunsInIo, RegistryInv, Running
<1>5. ASSUME NEW e \in Engines
      PROVE  (Coming(e) => Coming(e)') /\ (GaveUp(e) => GaveUp(e)')
  BY <1>1 DEF Coming, GaveUp, Pulls
<1>6. DeleteComing => DeleteComing'
  BY <1>1 DEF DeleteComing
<1>7. (kind = "pull" => Coming(d)') /\ (kind = "delete" => DeleteComing')
  BY <1>1, <1>2 DEF Coming, DeleteComing
<1>8. doing'.job = 0 => \A j \in DOMAIN io' : io'[j].state # "running"
  BY <1>4, <1>1 DEF OneRunsInIo
<1> QED
  BY <1>3, <1>4, <1>5, <1>6, <1>7, <1>8

(* What a step that changes one job keeps of the others. *)
LEMMA ChangedKeeps ==
  ASSUME IoTyped, NEW k \in DOMAIN io, NEW rec \in JobSet, io' = [io EXCEPT ![k] = rec],
         rec.kind = io[k].kind, rec.on = io[k].on, io[k].state # "error"
  PROVE  /\ IoTyped' /\ DOMAIN io' = DOMAIN io /\ io'[k] = rec
         /\ \A j \in DOMAIN io \ {k} : io'[j] = io[j]
         /\ \A e \in Engines :
              /\ Coming(e) => \/ Coming(e)'
                              \/ (rec.kind = "pull" /\ rec.on = e /\ rec.state \notin {"new", "running"})
              /\ GaveUp(e) => GaveUp(e)'
              /\ rec.kind = "pull" /\ rec.on = e /\ rec.state = "error" => GaveUp(e)'
         /\ DeleteComing => DeleteComing' \/ (rec.kind = "delete" /\ rec.state \notin {"new", "running"})
<1>1. PICK n \in 0..MaxPulls : io \in [1..n -> JobSet]
  BY DEF IoTyped
<1>2. io' \in [1..n -> JobSet] /\ DOMAIN io' = 1..n /\ DOMAIN io = 1..n
  BY <1>1
<1>3. io'[k] = rec /\ \A j \in DOMAIN io \ {k} : io'[j] = io[j]
  BY <1>1
<1>4. IoTyped'
  BY <1>2 DEF IoTyped
<1>5. ASSUME NEW e \in Engines
      PROVE  /\ Coming(e) => \/ Coming(e)'
                             \/ (rec.kind = "pull" /\ rec.on = e /\ rec.state \notin {"new", "running"})
             /\ GaveUp(e) => GaveUp(e)'
             /\ rec.kind = "pull" /\ rec.on = e /\ rec.state = "error" => GaveUp(e)'
  BY <1>2, <1>3 DEF Coming, GaveUp, Pulls
<1>6. DeleteComing => DeleteComing' \/ (rec.kind = "delete" /\ rec.state \notin {"new", "running"})
  BY <1>2, <1>3 DEF DeleteComing
<1> QED
  BY <1>2, <1>3, <1>4, <1>5, <1>6

LEMMA RunningTyped ==
  ASSUME IoTyped, OneRunsInIo, doing.job # 0
  PROVE  Running \in JobSet /\ doing.job \in DOMAIN io /\ Running.state = "running" /\ doing.job \in 1..MaxPulls
  BY RegistryAssumption DEF IoTyped, OneRunsInIo, Running

(* The thread's job ends in a state: the thread is free, the rest of the lane as it was. *)
LEMMA EndsAs ==
  ASSUME RegistryInv, doing.job # 0, NEW state \in {"done", "error"}, Set(doing.job, state), doing' = Idle
  PROVE  /\ IoTyped' /\ OneRunsInIo'
         /\ \A e \in Engines :
              /\ Coming(e) => Coming(e)' \/ (Running.kind = "pull" /\ Running.on = e)
              /\ GaveUp(e) => GaveUp(e)'
              /\ Running.kind = "pull" /\ Running.on = e /\ state = "error" => GaveUp(e)'
         /\ DeleteComing => DeleteComing' \/ Running.kind = "delete"
         /\ \A j \in DOMAIN io' : io'[j].state # "running"
<1> DEFINE rec == [Running EXCEPT !.state = state]
<1>1. Running \in JobSet /\ doing.job \in DOMAIN io /\ Running.state = "running"
  BY RunningTyped DEF RegistryInv, Typed
<1>2. rec \in JobSet /\ rec.kind = Running.kind /\ rec.on = Running.on /\ rec.state = state
  BY <1>1 DEF JobSet
<1>3. io' = [io EXCEPT ![doing.job] = rec]
  BY DEF Set, Running
<1> HIDE DEF rec
<1>4. /\ IoTyped' /\ DOMAIN io' = DOMAIN io /\ io'[doing.job] = rec
      /\ \A j \in DOMAIN io \ {doing.job} : io'[j] = io[j]
      /\ \A e \in Engines :
              /\ Coming(e) => Coming(e)' \/ (Running.kind = "pull" /\ Running.on = e)
              /\ GaveUp(e) => GaveUp(e)'
              /\ Running.kind = "pull" /\ Running.on = e /\ state = "error" => GaveUp(e)'
      /\ DeleteComing => DeleteComing' \/ Running.kind = "delete"
  BY <1>1, <1>2, <1>3, ChangedKeeps DEF RegistryInv, Typed, Running
<1>5. \A j \in DOMAIN io' : io'[j].state # "running"
  BY <1>1, <1>2, <1>4 DEF RegistryInv, OneRunsInIo
<1>6. OneRunsInIo'
  BY <1>5 DEF OneRunsInIo, Idle
<1> QED
  BY <1>4, <1>5, <1>6

(* The thread's job comes again: nothing ended. *)
LEMMA ComesAgain ==
  ASSUME RegistryInv, doing.job # 0, NEW tries \in 0..MaxAttempts, doing' = Idle,
         io' = [io EXCEPT ![doing.job] = [@ EXCEPT !.state = "new", !.late = TRUE, !.tries = tries]]
  PROVE  /\ IoTyped' /\ OneRunsInIo'
         /\ \A e \in Engines : (Coming(e) => Coming(e)') /\ (GaveUp(e) => GaveUp(e)')
         /\ DeleteComing => DeleteComing'
         /\ \A j \in DOMAIN io' : io'[j].state # "running"
<1> DEFINE rec == [Running EXCEPT !.state = "new", !.late = TRUE, !.tries = tries]
<1>1. Running \in JobSet /\ doing.job \in DOMAIN io /\ Running.state = "running"
  BY RunningTyped DEF RegistryInv, Typed
<1>2. rec \in JobSet /\ rec.kind = Running.kind /\ rec.on = Running.on /\ rec.state = "new"
  BY <1>1 DEF JobSet
<1>3. io' = [io EXCEPT ![doing.job] = rec]
  BY DEF Running
<1> HIDE DEF rec
<1>4. /\ IoTyped' /\ DOMAIN io' = DOMAIN io /\ io'[doing.job] = rec
      /\ \A j \in DOMAIN io \ {doing.job} : io'[j] = io[j]
      /\ \A e \in Engines : (Coming(e) => Coming(e)') /\ (GaveUp(e) => GaveUp(e)')
      /\ DeleteComing => DeleteComing'
  BY <1>1, <1>2, <1>3, ChangedKeeps DEF RegistryInv, Typed, Running
<1>5. \A j \in DOMAIN io' : io'[j].state # "running"
  BY <1>1, <1>2, <1>4 DEF RegistryInv, OneRunsInIo
<1>6. OneRunsInIo'
  BY <1>5 DEF OneRunsInIo, Idle
<1> QED
  BY <1>4, <1>5, <1>6

LEMMA AgainKeeps ==
  ASSUME RegistryInv, doing.job # 0, NEW final \in BOOLEAN, Again(final)
  PROVE  /\ IoTyped' /\ OneRunsInIo' /\ doing' = Idle
         /\ slips' \in {slips, slips \cup {"lost"}}
         /\ \A e \in Engines :
              /\ Coming(e) => Coming(e)' \/ GaveUp(e)'
              /\ GaveUp(e) => GaveUp(e)'
         /\ DeleteComing => DeleteComing' \/ "lost" \in slips'
         /\ \A j \in DOMAIN io' : io'[j].state # "running"
<1>1. CASE final \/ Running.tries + 1 >= MaxAttempts
  <2>1. Set(doing.job, "error") /\ doing' = Idle
        /\ slips' = IF Running.kind = "delete" THEN slips \cup {"lost"} ELSE slips
    BY <1>1 DEF Again
  <2> QED
    BY <2>1, EndsAs
<1>2. CASE ~(final \/ Running.tries + 1 >= MaxAttempts)
  <2>1. /\ io' = [io EXCEPT ![doing.job] = [@ EXCEPT !.state = "new", !.late = TRUE, !.tries = Running.tries + 1]]
        /\ slips' = slips /\ doing' = Idle
    BY <1>2 DEF Again, Running
  <2>2. Running.tries + 1 \in 0..MaxAttempts
    BY <1>2, RunningTyped, RegistryAssumption DEF RegistryInv, Typed, JobSet
  <2> QED
    BY <2>1, <2>2, ComesAgain
<1> QED
  BY <1>1, <1>2

(* How a step may leave a row there is: with a pull on its way, as it was with all that served it, with *)
(* weights in the store, or for the bootstrap to queue a pull.                                           *)
Serves(f) ==
  \/ Awaited(f)' \/ Strays'
  \/ /\ models'[f] = models[f] /\ (held => held')
     /\ Awaited(f) => Awaited(f)' \/ GaveUp(f)'
     /\ GaveUp(f) => GaveUp(f)'
     /\ booting.step = "queue" /\ booting.on = f => booting' = booting \/ Awaited(f)'
  \/ models'[f].ready /\ (held' \/ "stale" \in slips')
  \/ ~models'[f].ready /\ booting'.step = "queue" /\ booting'.on = f

LEMMA RowsAreServed ==
  ASSUME RegistryInv, slips \subseteq slips', \A f \in Engines : Registered(f)' => Serves(f),
         RowsTyped', IoTyped', OneRunsInIo', RemovesUnderNoRow', WeightsHaveAnEnd'
  PROVE  RegistryInv'
<1>1. ASSUME NEW f \in Engines, models'[f].ready
      PROVE  Registered(f)'
  BY <1>1 DEF Registered, NoRow
<1>2. ASSUME NEW f \in Engines, models'[f].ready
      PROVE  (held \/ Awaited(f) \/ GaveUp(f))' \/ slips' \cap {"cancelled", "cut", "stale"} # {}
  <2>1. Serves(f)
    BY <1>1, <1>2
  <2>2. models[f].ready => held \/ Awaited(f) \/ GaveUp(f) \/ slips \cap {"cancelled", "cut", "stale"} # {}
    BY DEF RegistryInv, ReadyIsHeld
  <2> QED
    BY <1>2, <2>1, <2>2 DEF Serves, Strays
<1>3. ASSUME NEW f \in Engines, Registered(f)', ~models'[f].ready
      PROVE  \/ Awaited(f)' \/ (booting'.step = "queue" /\ booting'.on = f) \/ GaveUp(f)'
             \/ slips' \cap {"cancelled", "cut"} # {}
  <2>1. Serves(f)
    BY <1>3
  <2>2. Registered(f) /\ ~models[f].ready => \/ Awaited(f) \/ (booting.step = "queue" /\ booting.on = f)
                                             \/ GaveUp(f) \/ slips \cap {"cancelled", "cut"} # {}
    BY DEF RegistryInv, AvailableIsComing
  <2>3. models'[f] = models[f] => Registered(f)
    BY <1>3 DEF Registered
  <2> QED
    BY <1>3, <2>1, <2>2, <2>3 DEF Serves, Strays
<1>4. ReadyIsHeld'
  BY <1>2 DEF ReadyIsHeld
<1>5. AvailableIsComing'
  BY <1>3 DEF AvailableIsComing
<1> QED
  BY <1>4, <1>5 DEF RegistryInv, Typed

LEMMA StraysStay ==
  ASSUME slips \subseteq slips', Strays
  PROVE  Strays'
  BY DEF Strays

(* A step that takes no row and no weights, and starts no removal. *)
LEMMA RowsStay ==
  ASSUME RegistryInv, slips \subseteq slips', UNCHANGED <<models, held>>, RowsTyped', IoTyped', OneRunsInIo',
         \A f \in Engines : booting.step = "queue" /\ booting.on = f => booting' = booting \/ Awaited(f)',
         \A f \in Engines : /\ Awaited(f) => Awaited(f)' \/ Strays' \/ (GaveUp(f)' /\ doing'.step # "remove")
                            /\ GaveUp(f) => GaveUp(f)',
         DeleteComing => DeleteComing' \/ "lost" \in slips',
         doing'.step \in {"remove", "record"} => doing'.step = doing.step,
         doing'.step = "pull" => doing.step = "pull" \/ \E e \in Engines : Registered(e)
  PROVE  RegistryInv'
<1>1. \A f \in Engines : Registered(f)' = Registered(f)
  BY DEF Registered
<1>2. \A f \in Engines : Registered(f)' => Serves(f)
  BY DEF Serves
<1>3. RemovesUnderNoRow'
  <2>1. ASSUME doing'.step = "remove", NEW f \in Engines, Registered(f)'
        PROVE  Awaited(f)' \/ Strays'
    <3>1. Awaited(f) \/ Strays
      BY <1>1, <2>1 DEF RegistryInv, RemovesUnderNoRow
    <3> QED
      BY <2>1, <3>1, StraysStay
  <2> QED
    BY <2>1 DEF RemovesUnderNoRow
<1>4. WeightsHaveAnEnd'
  <2>1. (doing.step = "record" => held)
        /\ ((held \/ doing.step = "pull") /\ "lost" \notin slips => DeleteComing \/ \E e \in Engines : Registered(e))
    BY DEF RegistryInv, WeightsHaveAnEnd
  <2> QED
    BY <1>1, <2>1 DEF WeightsHaveAnEnd
<1> QED
  BY <1>2, <1>3, <1>4, RowsAreServed

(* The doors' steps. *)
LEMMA CreatesStep ==
  ASSUME RegistryInv, NEW e \in Engines, Creates(e)
  PROVE  RegistryInv'
<1>1. Room /\ io' = Queued("pull", e) /\ UNCHANGED <<held, role, doing, deleter, asker, booting, halts, slips>>
      /\ keys < MaxKeys /\ keys' = keys + 1 /\ models' = [models EXCEPT ![e] = [key |-> keys + 1, ready |-> FALSE]]
  BY DEF Creates, Made
<1>2. /\ IoTyped' /\ OneRunsInIo' /\ Coming(e)' /\ (DeleteComing => DeleteComing')
      /\ \A f \in Engines : (Coming(f) => Coming(f)') /\ (GaveUp(f) => GaveUp(f)')
  BY <1>1, QueuedKeeps
<1> DEFINE row == [key |-> keys + 1, ready |-> FALSE]
<1>3. row \in [key : 0..MaxKeys, ready : BOOLEAN] /\ row # NoRow /\ row.key # 0
  BY <1>1, RegistryAssumption DEF RegistryInv, Typed, RowsTyped, NoRow
<1> HIDE DEF row
<1>4. models' = [models EXCEPT ![e] = row]
  BY <1>1 DEF row
<1>5. /\ models' \in [Engines -> [key : 0..MaxKeys, ready : BOOLEAN]]
      /\ models'[e] = row /\ \A f \in Engines \ {e} : models'[f] = models[f]
  BY <1>3, <1>4 DEF RegistryInv, Typed, RowsTyped
<1>6. RowsTyped'
  BY <1>1, <1>3, <1>5, RegistryAssumption DEF RegistryInv, Typed, RowsTyped, Registered
<1>7. Registered(e)' /\ Awaited(e)' /\ \A f \in Engines \ {e} : Registered(f)' = Registered(f)
  BY <1>2, <1>3, <1>5 DEF Registered, Awaited
<1>8. \A f \in Engines : (Awaited(f) => Awaited(f)')
  BY <1>1, <1>2 DEF Awaited
<1>9. \A f \in Engines : Registered(f)' => Serves(f)
  BY <1>1, <1>2, <1>5, <1>7, <1>8 DEF Serves
<1>10. RemovesUnderNoRow'
  BY <1>1, <1>7, <1>8 DEF RegistryInv, RemovesUnderNoRow, Strays
<1>11. WeightsHaveAnEnd'
  BY <1>1, <1>7 DEF RegistryInv, WeightsHaveAnEnd
<1> QED
  BY <1>1, <1>2, <1>6, <1>9, <1>10, <1>11, RowsAreServed

(* A step that touches neither the rows nor the lane. *)
LEMMA LaneUntouched ==
  ASSUME RegistryInv, UNCHANGED <<io, doing>>
  PROVE  /\ IoTyped' /\ OneRunsInIo' /\ DeleteComing' = DeleteComing
         /\ \A f \in Engines : Coming(f)' = Coming(f) /\ GaveUp(f)' = GaveUp(f)
  BY DEF RegistryInv, Typed, IoTyped, OneRunsInIo, Running, Coming, GaveUp, Pulls, DeleteComing

LEMMA CommitsStep ==
  ASSUME RegistryInv, DeleteCommits, ~KeyRefuses(deleter.key)
  PROVE  RegistryInv'
<1>1. /\ Room /\ io' = Queued("delete", deleter.on) /\ deleter' = NoDoor
      /\ models' = [models EXCEPT ![deleter.on] = IF @.key = deleter.key THEN NoRow ELSE @]
      /\ UNCHANGED <<keys, held, role, doing, asker, booting, halts, slips>>
  BY DEF DeleteCommits
<1>2. deleter.on \in Engines
  BY DEF RegistryInv, Typed, RowsTyped
<1>3. /\ IoTyped' /\ OneRunsInIo' /\ DeleteComing'
      /\ \A f \in Engines : (Coming(f) => Coming(f)') /\ (GaveUp(f) => GaveUp(f)')
  BY <1>1, <1>2, QueuedKeeps
<1>4. NoRow \in [key : 0..MaxKeys, ready : BOOLEAN]
  BY RegistryAssumption DEF NoRow
<1>5. models' \in [Engines -> [key : 0..MaxKeys, ready : BOOLEAN]]
      /\ \A f \in Engines : models'[f] = NoRow \/ models'[f] = models[f]
  BY <1>1, <1>4 DEF RegistryInv, Typed, RowsTyped
<1>6. NoDoor \in [step : {"idle", "deciding"}, on : Engines, key : 0..MaxKeys]
  BY RegistryAssumption DEF NoDoor
<1>7. RowsTyped'
  BY <1>1, <1>5, <1>6 DEF RegistryInv, Typed, RowsTyped, Registered
<1>8. \A f \in Engines : (Awaited(f) => Awaited(f)') /\ (Registered(f)' => Registered(f) /\ models'[f] = models[f])
  BY <1>1, <1>3, <1>5 DEF Awaited, Registered
<1>9. \A f \in Engines : Registered(f)' => Serves(f)
  BY <1>1, <1>3, <1>8 DEF Serves
<1>10. RemovesUnderNoRow'
  BY <1>1, <1>8 DEF RegistryInv, RemovesUnderNoRow, Strays
<1>11. WeightsHaveAnEnd'
  BY <1>1, <1>3 DEF RegistryInv, WeightsHaveAnEnd
<1> QED
  BY <1>1, <1>3, <1>7, <1>9, <1>10, <1>11, RowsAreServed

LEMMA DoorsStep ==
  ASSUME RegistryInv, Doors
  PROVE  RegistryInv'
<1>1. ASSUME UNCHANGED <<models, keys, held, io, doing, asker, booting, halts, slips>>, role' \in 0..MaxKeys,
             deleter' \in [step : {"idle", "deciding"}, on : Engines, key : 0..MaxKeys]
      PROVE  RegistryInv'
  <2>1. RowsTyped'
    BY <1>1 DEF RegistryInv, Typed, RowsTyped, Registered
  <2>2. \A f \in Engines : Awaited(f)' = Awaited(f)
    BY <1>1, LaneUntouched DEF Awaited
  <2>3. doing.step = "pull" => doing.step = "pull"
    OBVIOUS
  <2> QED
    BY <1>1, <2>1, <2>2, LaneUntouched, RowsStay
<1>2. ASSUME NEW e \in Engines, Seats(e) \/ DeleteLooks(e)
      PROVE  models[e].key \in 0..MaxKeys
  BY DEF RegistryInv, Typed, RowsTyped
<1>3. ASSUME NEW e \in Engines, Seats(e)
      PROVE  RegistryInv'
  BY <1>1, <1>2, <1>3 DEF Seats, RegistryInv, Typed, RowsTyped
<1>4. ASSUME NEW e \in Engines, DeleteLooks(e)
      PROVE  RegistryInv'
  BY <1>1, <1>2, <1>4 DEF DeleteLooks, RegistryInv, Typed, RowsTyped
<1>5. CASE Unseats
  BY <1>1, <1>5, RegistryAssumption DEF Unseats, RegistryInv, Typed, RowsTyped
<1>6. CASE DeleteCommits /\ KeyRefuses(deleter.key)
  BY <1>1, <1>6, RegistryAssumption DEF DeleteCommits, NoDoor, RegistryInv, Typed, RowsTyped
<1> QED
  BY <1>3, <1>4, <1>5, <1>6, CreatesStep, CommitsStep DEF Doors

(* The steps of a job that names the model. *)
LEMMA AsksStep ==
  ASSUME RegistryInv, Asks
  PROVE  RegistryInv'
<1>1. CASE AskerLooks /\ \A e \in Engines : ~Registered(e)
  <2>1. /\ UNCHANGED <<held, role, io, doing, deleter, booting, halts, slips>> /\ asker' = "registered"
        /\ keys < MaxKeys /\ keys' = keys + 1
        /\ models' = [models EXCEPT ![Seeded] = [key |-> keys + 1, ready |-> FALSE]]
    BY <1>1 DEF AskerLooks, Made
  <2> DEFINE row == [key |-> keys + 1, ready |-> FALSE]
  <2>2. row \in [key : 0..MaxKeys, ready : BOOLEAN] /\ row # NoRow /\ row.key # 0
    BY <2>1, RegistryAssumption DEF RegistryInv, Typed, RowsTyped, NoRow
  <2> HIDE DEF row
  <2>3. /\ models' \in [Engines -> [key : 0..MaxKeys, ready : BOOLEAN]]
        /\ models'[Seeded] = row /\ \A f \in Engines \ {Seeded} : models'[f] = models[f]
    <3>1. models' = [models EXCEPT ![Seeded] = row]
      BY <2>1 DEF row
    <3> QED
      BY <3>1, <2>2, RegistryAssumption DEF RegistryInv, Typed, RowsTyped
  <2>4. RowsTyped'
    BY <2>1, <2>2, <2>3 DEF RegistryInv, Typed, RowsTyped, Registered
  <2>5. Registered(Seeded)' /\ Awaited(Seeded)' /\ \A f \in Engines \ {Seeded} : ~Registered(f)'
    BY <1>1, <2>1, <2>2, <2>3 DEF Registered, Awaited
  <2>6. RemovesUnderNoRow' /\ \A f \in Engines : Registered(f)' => Serves(f)
    BY <2>5 DEF RemovesUnderNoRow, Serves
  <2>7. WeightsHaveAnEnd'
    BY <2>1, <2>5, RegistryAssumption DEF RegistryInv, WeightsHaveAnEnd
  <2> QED
    BY <2>1, <2>4, <2>6, <2>7, LaneUntouched, RowsAreServed
<1>2. CASE AskerLooks /\ ~\A e \in Engines : ~Registered(e)
  <2>1. /\ UNCHANGED <<models, keys, held, role, io, doing, deleter, booting, halts, slips>>
        /\ asker \in {"idle", "waits"} /\ asker' \in {"ready", "failed", "waits"}
    BY <1>2 DEF AskerLooks
  <2>2. RowsTyped'
    BY <2>1 DEF RegistryInv, Typed, RowsTyped, Registered
  <2>3. \A f \in Engines : Awaited(f)' = Awaited(f)
    BY <2>1, LaneUntouched DEF Awaited
  <2> QED
    BY <2>1, <2>2, <2>3, LaneUntouched, RowsStay
<1>3. CASE AskerQueues
  <2>1. /\ Room /\ io' = Queued("pull", Seeded) /\ asker' = "waits" /\ asker = "registered"
        /\ UNCHANGED <<models, keys, held, role, doing, deleter, booting, halts, slips>>
    BY <1>3 DEF AskerQueues
  <2>2. /\ IoTyped' /\ OneRunsInIo' /\ Coming(Seeded)' /\ (DeleteComing => DeleteComing')
        /\ \A f \in Engines : (Coming(f) => Coming(f)') /\ (GaveUp(f) => GaveUp(f)')
    BY <2>1, QueuedKeeps, RegistryAssumption
  <2>3. RowsTyped'
    BY <2>1 DEF RegistryInv, Typed, RowsTyped, Registered
  <2>4. \A f \in Engines : Awaited(f) => Awaited(f)'
    BY <2>2 DEF Awaited
  <2> QED
    BY <2>1, <2>2, <2>3, <2>4, RowsStay
<1> QED
  BY <1>1, <1>2, <1>3 DEF Asks

(* The bootstrap's steps. *)
LEMMA BootsStep ==
  ASSUME RegistryInv, Boots
  PROVE  RegistryInv'
<1>0. NoBoot \in [step : {"idle", "read", "queue"}, on : Engines, seen : BOOLEAN] /\ NoBoot.step = "idle"
  BY RegistryAssumption DEF NoBoot
<1>1. ASSUME NEW e \in Engines, BootReads(e)
      PROVE  RegistryInv'
  <2>1. /\ UNCHANGED <<models, keys, held, role, io, doing, deleter, asker, halts, slips>> /\ booting.step = "idle"
        /\ booting' \in [step : {"idle", "read", "queue"}, on : Engines, seen : BOOLEAN]
    BY <1>1 DEF BootReads, RegistryInv, Typed, RowsTyped
  <2>2. RowsTyped'
    BY <2>1 DEF RegistryInv, Typed, RowsTyped, Registered
  <2>3. \A f \in Engines : Awaited(f)' = Awaited(f)
    BY <2>1, LaneUntouched DEF Awaited
  <2> QED
    BY <2>1, <2>2, <2>3, LaneUntouched, RowsStay
<1>2. ASSUME NEW d \in Engines, d = booting.on, BootWrites, Registered(d)
      PROVE  RegistryInv'
  <2>1. /\ UNCHANGED <<keys, held, role, io, doing, deleter, asker, halts>> /\ booting.step = "read"
        /\ models' = [models EXCEPT ![d].ready = booting.seen]
        /\ booting' = IF booting.seen THEN NoBoot ELSE [booting EXCEPT !.step = "queue"]
        /\ slips' = IF booting.seen /\ ~held THEN slips \cup {"stale"} ELSE slips
    BY <1>2 DEF BootWrites
  <2>2. booting.seen \in BOOLEAN
        /\ booting \in [step : {"idle", "read", "queue"}, on : Engines, seen : BOOLEAN]
        /\ models \in [Engines -> [key : 0..MaxKeys, ready : BOOLEAN]]
    BY DEF RegistryInv, Typed, RowsTyped
  <2>3. /\ models' \in [Engines -> [key : 0..MaxKeys, ready : BOOLEAN]]
        /\ models'[d].ready = booting.seen /\ models'[d].key = models[d].key
        /\ \A f \in Engines \ {d} : models'[f] = models[f]
    BY <2>1, <2>2
  <2>4. /\ booting' \in [step : {"idle", "read", "queue"}, on : Engines, seen : BOOLEAN]
        /\ ~booting.seen => booting'.step = "queue" /\ booting'.on = d
    BY <1>0, <1>2, <2>1, <2>2
  <2>5. \A f \in Engines : models[f] = NoRow <=> ~Registered(f)
    BY DEF Registered
  <2>6. models[d].key # 0
    BY <1>2, <2>2 DEF RegistryInv, Typed, RowsTyped
  <2>7. \A f \in Engines : Registered(f)' => Registered(f) /\ models'[f].key # 0
    BY <1>2, <2>2, <2>3, <2>6 DEF Registered, RegistryInv, Typed, RowsTyped
  <2>8. RowsTyped'
    <3>1. slips' \subseteq {"refused", "cancelled", "cut", "lost", "stale"}
      BY <2>1 DEF RegistryInv, Typed, RowsTyped
    <3> QED
      BY <2>1, <2>3, <2>4, <2>7, <3>1 DEF RegistryInv, Typed, RowsTyped
  <2>9. \A f \in Engines : Awaited(f)' = Awaited(f)
    BY <2>1, LaneUntouched DEF Awaited
  <2>10. RemovesUnderNoRow'
    BY <2>1, <2>7, <2>9, StraysStay DEF RegistryInv, RemovesUnderNoRow
  <2>11. Registered(d)'
    BY <2>3, <2>6 DEF Registered, NoRow
  <2>12. WeightsHaveAnEnd'
    BY <2>1, <2>11, <1>2, LaneUntouched DEF RegistryInv, WeightsHaveAnEnd
  <2>13. \A f \in Engines \ {d} : Serves(f)
    BY <2>1, <2>3, <2>9, LaneUntouched DEF Serves
  <2>14. Serves(d)
    BY <2>1, <2>2, <2>3, <2>4 DEF Serves
  <2> QED
    BY <2>1, <2>8, <2>10, <2>12, <2>13, <2>14, LaneUntouched, RowsAreServed
<1>3. CASE BootWrites /\ ~Registered(booting.on)
  <2>1. /\ UNCHANGED <<models, keys, held, role, io, doing, deleter, asker, halts, slips>>
        /\ booting' = NoBoot /\ booting.step = "read"
    BY <1>3 DEF BootWrites
  <2>2. RowsTyped'
    BY <1>0, <2>1 DEF RegistryInv, Typed, RowsTyped, Registered
  <2>3. \A f \in Engines : Awaited(f)' = Awaited(f)
    BY <2>1, LaneUntouched DEF Awaited
  <2> QED
    BY <2>1, <2>2, <2>3, LaneUntouched, RowsStay
<1>4. ASSUME NEW d \in Engines, d = booting.on, BootQueues, Coming(d)
      PROVE  RegistryInv'
  <2>1. /\ UNCHANGED <<models, keys, held, role, io, doing, deleter, asker, halts, slips>> /\ booting' = NoBoot
    BY <1>4 DEF BootQueues, PendingFor
  <2>2. RowsTyped'
    BY <1>0, <2>1 DEF RegistryInv, Typed, RowsTyped, Registered
  <2>3. \A f \in Engines : Awaited(f)' = Awaited(f)
    BY <2>1, LaneUntouched DEF Awaited
  <2>4. Awaited(d)'
    BY <1>4, <2>3 DEF Awaited
  <2> QED
    BY <1>4, <2>1, <2>2, <2>3, <2>4, LaneUntouched, RowsStay
<1>5. ASSUME NEW d \in Engines, d = booting.on, BootQueues, ~Coming(d)
      PROVE  RegistryInv'
  <2>1. /\ Room /\ io' = Queued("pull", d) /\ booting' = NoBoot
        /\ UNCHANGED <<models, keys, held, role, doing, deleter, asker, halts, slips>>
    BY <1>5 DEF BootQueues, PendingFor
  <2>2. /\ IoTyped' /\ OneRunsInIo' /\ Coming(d)' /\ (DeleteComing => DeleteComing')
        /\ \A f \in Engines : (Coming(f) => Coming(f)') /\ (GaveUp(f) => GaveUp(f)')
    BY <2>1, QueuedKeeps
  <2>3. RowsTyped'
    BY <1>0, <2>1 DEF RegistryInv, Typed, RowsTyped, Registered
  <2>4. Awaited(d)' /\ \A f \in Engines : Awaited(f) => Awaited(f)'
    BY <2>1, <2>2 DEF Awaited
  <2> QED
    BY <1>5, <2>1, <2>2, <2>3, <2>4, RowsStay
<1>6. booting.on \in Engines
  BY DEF RegistryInv, Typed, RowsTyped
<1> QED
  BY <1>1, <1>2, <1>3, <1>4, <1>5, <1>6 DEF Boots

(* The io thread's steps, deaths and cancels. *)
LEMMA ClaimKeeps ==
  ASSUME RegistryInv, NEW j \in DOMAIN io, Claims(j)
  PROVE  /\ IoTyped' /\ OneRunsInIo' /\ j \in 1..MaxPulls
         /\ \A e \in Engines : (Coming(e) => Coming(e)') /\ (GaveUp(e) => GaveUp(e)')
         /\ DeleteComing => DeleteComing'
<1> DEFINE rec == [io[j] EXCEPT !.state = "running"]
<1>1. io[j] \in JobSet /\ io[j].state = "new" /\ j \in 1..MaxPulls
  BY RegistryAssumption DEF RegistryInv, Typed, IoTyped, Claims, Turn
<1>2. rec \in JobSet /\ rec.kind = io[j].kind /\ rec.on = io[j].on /\ rec.state = "running"
  BY <1>1 DEF JobSet
<1>3. io' = [io EXCEPT ![j] = rec]
  BY DEF Claims, Set
<1> HIDE DEF rec
<1>4. /\ IoTyped' /\ DOMAIN io' = DOMAIN io /\ io'[j] = rec
      /\ \A k \in DOMAIN io \ {j} : io'[k] = io[k]
      /\ \A e \in Engines : (Coming(e) => Coming(e)') /\ (GaveUp(e) => GaveUp(e)')
      /\ DeleteComing => DeleteComing'
  BY <1>1, <1>2, <1>3, ChangedKeeps DEF RegistryInv, Typed
<1>5. doing.job = 0 /\ doing' = [job |-> j, step |-> "look"]
  BY DEF Claims
<1>6. \A k \in DOMAIN io : io[k].state # "running"
  BY <1>5 DEF RegistryInv, Typed, IoTyped, OneRunsInIo
<1>7. doing'.job = j /\ doing'.step = "look" /\ io'[j].state = "running" /\ j # 0
  BY <1>1, <1>2, <1>4, <1>5
<1>8. OneRunsInIo'
  BY <1>4, <1>6, <1>7 DEF OneRunsInIo, Running
<1> QED
  BY <1>1, <1>4, <1>8

LEMMA CancelKeeps ==
  ASSUME RegistryInv, NEW j \in DOMAIN io, CancelsPull(j)
  PROVE  /\ IoTyped' /\ OneRunsInIo' /\ slips' \subseteq slips \cup {"cancelled", "lost"} /\ slips \subseteq slips'
         /\ \A e \in Engines : (Coming(e) => Coming(e)' \/ "cancelled" \in slips') /\ (GaveUp(e) => GaveUp(e)')
         /\ DeleteComing => DeleteComing' \/ "lost" \in slips'
<1> DEFINE rec == [io[j] EXCEPT !.state = "cancelled"]
<1>1. io[j] \in JobSet /\ io[j].state = "new" /\ doing' = doing
      /\ slips' = slips \cup {IF io[j].kind = "pull" THEN "cancelled" ELSE "lost"}
  BY DEF RegistryInv, Typed, IoTyped, CancelsPull
<1>2. rec \in JobSet /\ rec.kind = io[j].kind /\ rec.on = io[j].on /\ rec.state = "cancelled"
  BY <1>1 DEF JobSet
<1>3. io' = [io EXCEPT ![j] = rec]
  BY DEF CancelsPull, Set
<1> HIDE DEF rec
<1>4. /\ IoTyped' /\ DOMAIN io' = DOMAIN io /\ io'[j] = rec
      /\ \A k \in DOMAIN io \ {j} : io'[k] = io[k]
      /\ \A e \in Engines : (Coming(e) => Coming(e)' \/ rec.kind = "pull") /\ (GaveUp(e) => GaveUp(e)')
      /\ DeleteComing => DeleteComing' \/ rec.kind = "delete"
  BY <1>1, <1>2, <1>3, ChangedKeeps DEF RegistryInv, Typed
<1>5. OneRunsInIo'
  BY <1>1, <1>2, <1>4 DEF OneRunsInIo, RegistryInv, Running
<1> QED
  BY <1>1, <1>2, <1>4, <1>5

(* A job that comes to its end the wrong way, or again: nothing else moved. *)
LEMMA AgainStep ==
  ASSUME RegistryInv, NEW final \in BOOLEAN, Again(final), doing.step \in {"look", "pull"}, halts' \in 0..MaxHalts,
         UNCHANGED <<models, keys, held, role, deleter, asker, booting>>
  PROVE  RegistryInv'
<1>1. doing.job # 0
  BY DEF RegistryInv, OneRunsInIo
<1>2. /\ IoTyped' /\ OneRunsInIo' /\ doing' = Idle
      /\ slips' \in {slips, slips \cup {"lost"}}
      /\ \A e \in Engines :
           /\ Coming(e) => Coming(e)' \/ GaveUp(e)'
           /\ GaveUp(e) => GaveUp(e)'
      /\ DeleteComing => DeleteComing' \/ "lost" \in slips'
  BY <1>1, AgainKeeps
<1>3. doing'.step = "idle" /\ doing' \in [job : 0..MaxPulls, step : {"idle", "look", "pull", "record", "remove"}]
  BY <1>2, RegistryAssumption DEF Idle
<1>4. RowsTyped'
  BY <1>2, <1>3 DEF RegistryInv, Typed, RowsTyped, Registered
<1>5. \A f \in Engines : Awaited(f) => Awaited(f)' \/ GaveUp(f)'
  BY <1>2 DEF Awaited
<1> QED
  BY <1>2, <1>3, <1>4, <1>5, RowsStay

LEMMA RecordsStep ==
  ASSUME RegistryInv, PullRecords
  PROVE  RegistryInv'
<1>1. doing.step = "record" /\ doing' = Idle /\ Set(doing.job, "done") /\ doing.job # 0
      /\ models' = [models EXCEPT ![Running.on].ready = (@ \/ Registered(Running.on))]
      /\ UNCHANGED <<keys, held, role, deleter, asker, booting, halts, slips>>
  BY DEF PullRecords, RegistryInv, OneRunsInIo
<1>2. PICK d \in Engines : d = Running.on
  BY <1>1, RunningTyped DEF RegistryInv, Typed, JobSet
<1>3. held /\ Running.kind = "pull"
  BY <1>1 DEF RegistryInv, WeightsHaveAnEnd, OneRunsInIo
<1>4. /\ IoTyped' /\ OneRunsInIo'
      /\ \A e \in Engines : (Coming(e) => Coming(e)' \/ d = e) /\ (GaveUp(e) => GaveUp(e)')
      /\ DeleteComing => DeleteComing'
  BY <1>1, <1>2, <1>3, EndsAs
<1>5. models' = [models EXCEPT ![d].ready = (@ \/ Registered(d))]
  BY <1>1, <1>2
<1>6. /\ models' \in [Engines -> [key : 0..MaxKeys, ready : BOOLEAN]]
      /\ \A f \in Engines \ {d} : models'[f] = models[f]
      /\ models'[d].key = models[d].key
      /\ Registered(d) => models'[d].ready
      /\ ~Registered(d) => models'[d] = models[d]
  <2>1. models \in [Engines -> [key : 0..MaxKeys, ready : BOOLEAN]]
    BY DEF RegistryInv, Typed, RowsTyped
  <2> DEFINE row == [models[d] EXCEPT !.ready = (@ \/ Registered(d))]
  <2>2. /\ row \in [key : 0..MaxKeys, ready : BOOLEAN] /\ row.key = models[d].key
        /\ Registered(d) => row.ready
        /\ ~Registered(d) => row = models[d]
    BY <2>1
  <2>3. models' = [models EXCEPT ![d] = row]
    BY <1>5
  <2> HIDE DEF row
  <2> QED
    BY <2>1, <2>2, <2>3
<1>7. \A f \in Engines : Registered(f)' => models'[f].key # 0
  BY <1>6 DEF RegistryInv, Typed, RowsTyped, Registered
<1>8. doing' \in [job : 0..MaxPulls, step : {"idle", "look", "pull", "record", "remove"}] /\ doing'.step = "idle"
  BY <1>1, RegistryAssumption DEF Idle
<1>9. RowsTyped'
  BY <1>1, <1>6, <1>7, <1>8 DEF RegistryInv, Typed, RowsTyped
<1>10. \A f \in Engines : Registered(f) => Registered(f)'
  BY <1>6 DEF RegistryInv, Typed, RowsTyped, Registered, NoRow
<1>11. \A f \in Engines : Registered(f)' => Serves(f)
  <2>1. ASSUME NEW f \in Engines \ {d}
        PROVE  Serves(f)
    BY <1>1, <1>4, <1>6 DEF Serves, Awaited
  <2>2. Registered(d)' => Registered(d)
    BY <1>6 DEF Registered
  <2>3. Registered(d) => Serves(d)
    BY <1>1, <1>3, <1>6 DEF Serves
  <2> QED
    BY <2>1, <2>2, <2>3
<1>12. RemovesUnderNoRow'
  BY <1>8 DEF RemovesUnderNoRow
<1>13. WeightsHaveAnEnd'
  BY <1>1, <1>3, <1>4, <1>8, <1>10 DEF RegistryInv, WeightsHaveAnEnd
<1> QED
  BY <1>1, <1>4, <1>9, <1>11, <1>12, <1>13, RowsAreServed

LEMMA RemovalStarts ==
  ASSUME RegistryInv, DeleteStarts, ~\E final \in BOOLEAN : Again(final)
  PROVE  RegistryInv'
<1>1. /\ doing.step = "look" /\ Running.kind = "delete" /\ ~Shared(Running.on) /\ doing.job # 0
      /\ models' = [models EXCEPT ![Running.on] = NoRow]
      /\ slips' \in {slips, slips \cup {"refused"}}
      /\ doing' = [doing EXCEPT !.step = "remove"]
      /\ UNCHANGED <<keys, held, role, io, deleter, asker, booting, halts>>
  BY DEF DeleteStarts, Proceeds, RegistryInv, OneRunsInIo
<1>2. PICK d \in Engines : d = Running.on
  BY <1>1, RunningTyped DEF RegistryInv, Typed, JobSet
<1>3. /\ doing \in [job : 0..MaxPulls, step : {"idle", "look", "pull", "record", "remove"}]
      /\ models \in [Engines -> [key : 0..MaxKeys, ready : BOOLEAN]]
  BY DEF RegistryInv, Typed, RowsTyped
<1>4. /\ doing' \in [job : 0..MaxPulls, step : {"idle", "look", "pull", "record", "remove"}]
      /\ doing'.step = "remove" /\ doing'.job = doing.job
  BY <1>1, <1>3
<1>5. NoRow \in [key : 0..MaxKeys, ready : BOOLEAN]
  BY RegistryAssumption DEF NoRow
<1>6. models' \in [Engines -> [key : 0..MaxKeys, ready : BOOLEAN]] /\ \A f \in Engines : models'[f] = NoRow
  BY <1>1, <1>2, <1>3, <1>5 DEF Shared, Registered
<1>7. IoTyped' /\ DeleteComing'
  BY <1>1, RunningTyped DEF RegistryInv, Typed, IoTyped, DeleteComing, Running
<1>8. OneRunsInIo'
  BY <1>1, <1>4 DEF RegistryInv, OneRunsInIo, Running
<1>9. \A f \in Engines : ~Registered(f)'
  BY <1>6 DEF Registered
<1>10. RowsTyped'
  BY <1>1, <1>4, <1>6, <1>9 DEF RegistryInv, Typed, RowsTyped
<1>11. RemovesUnderNoRow' /\ WeightsHaveAnEnd'
  BY <1>4, <1>7, <1>9 DEF RemovesUnderNoRow, WeightsHaveAnEnd
<1> QED
  BY <1>1, <1>7, <1>8, <1>9, <1>10, <1>11, RowsAreServed

LEMMA RemovesStep ==
  ASSUME RegistryInv, DeleteRemoves
  PROVE  RegistryInv'
<1>1. doing.step = "remove" /\ held' = FALSE /\ doing' = Idle /\ Set(doing.job, "done")
      /\ UNCHANGED <<models, keys, role, deleter, asker, booting, halts, slips>>
  BY DEF DeleteRemoves
<1>2. doing.job # 0 /\ Running.kind = "delete"
  BY <1>1 DEF RegistryInv, OneRunsInIo
<1>3. /\ IoTyped' /\ OneRunsInIo'
      /\ \A e \in Engines : Coming(e) => Coming(e)'
  BY <1>1, <1>2, EndsAs
<1>4. doing' \in [job : 0..MaxPulls, step : {"idle", "look", "pull", "record", "remove"}] /\ doing'.step = "idle"
  BY <1>1, RegistryAssumption DEF Idle
<1>5. held' \in BOOLEAN
  BY <1>1, Zenon
<1>6. RowsTyped'
  BY <1>1, <1>4, <1>5 DEF RegistryInv, Typed, RowsTyped, Registered
<1>7. \A f \in Engines : Registered(f)' => Awaited(f) \/ Strays
  BY <1>1 DEF RegistryInv, RemovesUnderNoRow, Registered
<1>8. \A f \in Engines : Registered(f)' => Serves(f)
  BY <1>1, <1>3, <1>7, StraysStay DEF Serves, Awaited
<1>9. RemovesUnderNoRow' /\ WeightsHaveAnEnd'
  BY <1>1, <1>4 DEF RemovesUnderNoRow, WeightsHaveAnEnd
<1> QED
  BY <1>1, <1>3, <1>6, <1>8, <1>9, RowsAreServed

LEMMA DiesStep ==
  ASSUME RegistryInv, Dies
  PROVE  RegistryInv'
<1>1. /\ doing' = Idle /\ halts' \in 0..MaxHalts /\ UNCHANGED <<models, keys, held, role, deleter, booting>>
      /\ asker' \in {asker, "waits"} /\ slips' \in {slips, slips \cup {"cut"}}
      /\ asker = "registered" => "cut" \in slips'
      /\ asker # "registered" => asker' = asker
  <2>1. halts' \in 0..MaxHalts
    BY RegistryAssumption DEF Dies, RegistryInv, Typed, RowsTyped
  <2> QED
    BY <2>1 DEF Dies
<1>2. /\ IoTyped' /\ OneRunsInIo'
      /\ \A e \in Engines : (Coming(e) => Coming(e)') /\ (GaveUp(e) => GaveUp(e)')
      /\ DeleteComing => DeleteComing'
  <2>1. CASE doing.job = 0
    <3>1. io' = io
      BY <2>1 DEF Dies
    <3>2. IoTyped' /\ OneRunsInIo'
      BY <1>1, <2>1, <3>1 DEF Idle, RegistryInv, Typed, IoTyped, OneRunsInIo
    <3> QED
      BY <3>1, <3>2 DEF Coming, GaveUp, Pulls, DeleteComing
  <2>2. CASE doing.job # 0
    <3>1. Running \in JobSet
      BY <2>2, RunningTyped DEF RegistryInv, Typed
    <3>2. Running.tries \in 0..MaxAttempts
          /\ [Running EXCEPT !.state = "new", !.late = TRUE]
               = [Running EXCEPT !.state = "new", !.late = TRUE, !.tries = Running.tries]
      BY <3>1 DEF JobSet
    <3>3. io' = [io EXCEPT ![doing.job] = [@ EXCEPT !.state = "new", !.late = TRUE, !.tries = Running.tries]]
      BY <2>2, <3>2 DEF Dies, Running
    <3> QED
      BY <1>1, <2>2, <3>2, <3>3, ComesAgain
  <2> QED
    BY <2>1, <2>2
<1>3. doing'.step = "idle" /\ doing' \in [job : 0..MaxPulls, step : {"idle", "look", "pull", "record", "remove"}]
  BY <1>1, RegistryAssumption DEF Idle
<1>4. RowsTyped'
  <2>1. asker' \in {"idle", "registered", "waits", "ready", "failed"}
        /\ slips' \subseteq {"refused", "cancelled", "cut", "lost", "stale"}
    BY <1>1 DEF RegistryInv, Typed, RowsTyped
  <2> QED
    BY <1>1, <1>3, <2>1 DEF RegistryInv, Typed, RowsTyped, Registered
<1>5. \A f \in Engines : Awaited(f) => Awaited(f)' \/ Strays'
  BY <1>1, <1>2 DEF Awaited, Strays
<1> QED
  BY <1>1, <1>2, <1>3, <1>4, <1>5, RowsStay

LEMMA LaneStep ==
  ASSUME RegistryInv, Lane
  PROVE  RegistryInv'
<1>1. ASSUME NEW j \in DOMAIN io, Claims(j)
      PROVE  RegistryInv'
  <2>1. /\ IoTyped' /\ OneRunsInIo' /\ j \in 1..MaxPulls
        /\ \A e \in Engines : (Coming(e) => Coming(e)') /\ (GaveUp(e) => GaveUp(e)')
        /\ DeleteComing => DeleteComing'
    BY <1>1, ClaimKeeps
  <2>2. doing' = [job |-> j, step |-> "look"] /\ UNCHANGED <<models, keys, held, role, deleter, asker, booting, halts, slips>>
    BY <1>1 DEF Claims
  <2>3. RowsTyped'
    BY <2>1, <2>2, RegistryAssumption DEF RegistryInv, Typed, RowsTyped, Registered
  <2>4. \A f \in Engines : Awaited(f) => Awaited(f)'
    BY <2>1, <2>2 DEF Awaited
  <2> QED
    BY <2>1, <2>2, <2>3, <2>4, RowsStay
<1>2. ASSUME NEW j \in DOMAIN io, CancelsPull(j)
      PROVE  RegistryInv'
  <2>1. /\ IoTyped' /\ OneRunsInIo' /\ slips' \subseteq slips \cup {"cancelled", "lost"} /\ slips \subseteq slips'
        /\ \A e \in Engines : (Coming(e) => Coming(e)' \/ "cancelled" \in slips') /\ (GaveUp(e) => GaveUp(e)')
        /\ DeleteComing => DeleteComing' \/ "lost" \in slips'
    BY <1>2, CancelKeeps
  <2>2. halts' \in 0..MaxHalts /\ UNCHANGED <<models, keys, held, role, doing, deleter, asker, booting>>
    BY <1>2, RegistryAssumption DEF CancelsPull, RegistryInv, Typed, RowsTyped
  <2>3. RowsTyped'
    BY <2>1, <2>2 DEF RegistryInv, Typed, RowsTyped, Registered
  <2>4. \A f \in Engines : Awaited(f) => Awaited(f)' \/ Strays'
    BY <2>1, <2>2 DEF Awaited, Strays
  <2> QED
    BY <2>1, <2>2, <2>3, <2>4, RowsStay
<1>3. ASSUME NEW step \in {"pull", "record"}, doing' = [doing EXCEPT !.step = step], doing.step \in {"look", "pull"},
             Running.kind = "pull", UNCHANGED <<models, io>>
      PROVE  /\ IoTyped' /\ OneRunsInIo' /\ doing'.step = step /\ DeleteComing' = DeleteComing
             /\ doing' \in [job : 0..MaxPulls, step : {"idle", "look", "pull", "record", "remove"}]
             /\ \A f \in Engines : Coming(f)' = Coming(f) /\ GaveUp(f)' = GaveUp(f)
  <2>1. doing \in [job : 0..MaxPulls, step : {"idle", "look", "pull", "record", "remove"}]
    BY DEF RegistryInv, Typed, RowsTyped
  <2>2. /\ doing' \in [job : 0..MaxPulls, step : {"idle", "look", "pull", "record", "remove"}]
        /\ doing'.step = step /\ doing'.job = doing.job
    BY <1>3, <2>1
  <2>3. OneRunsInIo'
    BY <1>3, <2>2 DEF RegistryInv, OneRunsInIo, Running
  <2> QED
    BY <1>3, <2>2, <2>3 DEF RegistryInv, Typed, IoTyped, Coming, GaveUp, Pulls, DeleteComing
<1>4. CASE PullLooks /\ Registered(Running.on)
  <2>1. doing.step = "look" /\ Running.kind = "pull" /\ doing' = [doing EXCEPT !.step = "pull"]
        /\ UNCHANGED <<models, keys, held, role, io, deleter, asker, booting, halts, slips>>
    BY <1>4 DEF PullLooks
  <2>2. \E e \in Engines : Registered(e)
    BY <1>4, <2>1, RunningTyped DEF RegistryInv, Typed, OneRunsInIo, JobSet
  <2>3. /\ IoTyped' /\ OneRunsInIo' /\ doing'.step = "pull" /\ DeleteComing' = DeleteComing
        /\ doing' \in [job : 0..MaxPulls, step : {"idle", "look", "pull", "record", "remove"}]
        /\ \A f \in Engines : Coming(f)' = Coming(f) /\ GaveUp(f)' = GaveUp(f)
    BY <1>3, <2>1
  <2>4. RowsTyped'
    BY <2>1, <2>3 DEF RegistryInv, Typed, RowsTyped, Registered
  <2>5. \A f \in Engines : Awaited(f) => Awaited(f)'
    BY <2>1, <2>3 DEF Awaited
  <2> QED
    BY <2>1, <2>2, <2>3, <2>4, <2>5, RowsStay
<1>5. CASE PullLooks /\ ~Registered(Running.on)
  BY <1>5, AgainStep DEF PullLooks, RegistryInv, Typed, RowsTyped
<1>6. CASE PullFails
  BY <1>6, AgainStep, RegistryAssumption DEF PullFails, RegistryInv, Typed, RowsTyped
<1>7. CASE PullArrives
  <2>1. doing.step = "pull" /\ held' = TRUE /\ doing' = [doing EXCEPT !.step = "record"]
        /\ UNCHANGED <<models, keys, role, io, deleter, asker, booting, halts, slips>>
    BY <1>7 DEF PullArrives
  <2>2. Running.kind = "pull"
    BY <2>1 DEF RegistryInv, OneRunsInIo
  <2>3. /\ IoTyped' /\ OneRunsInIo' /\ doing'.step = "record" /\ DeleteComing' = DeleteComing
        /\ doing' \in [job : 0..MaxPulls, step : {"idle", "look", "pull", "record", "remove"}]
        /\ \A f \in Engines : Coming(f)' = Coming(f) /\ GaveUp(f)' = GaveUp(f)
    BY <1>3, <2>1, <2>2
  <2>4. RowsTyped'
    BY <2>1, <2>3 DEF RegistryInv, Typed, RowsTyped, Registered
  <2>5. \A f \in Engines : (Awaited(f) => Awaited(f)') /\ Registered(f)' = Registered(f)
    BY <2>1, <2>3 DEF Awaited, Registered
  <2>6. \A f \in Engines : Registered(f)' => Serves(f)
    BY <2>1, <2>3, <2>5 DEF Serves
  <2>7. RemovesUnderNoRow'
    BY <2>3 DEF RemovesUnderNoRow
  <2>8. WeightsHaveAnEnd'
    BY <2>1, <2>3, <2>5 DEF RegistryInv, WeightsHaveAnEnd
  <2> QED
    BY <2>1, <2>3, <2>4, <2>6, <2>7, <2>8, RowsAreServed
<1>8. CASE DeleteStarts /\ \E final \in BOOLEAN : Again(final)
  <2>1. doing.step = "look" /\ UNCHANGED <<keys, held, role, deleter, asker, booting, halts>>
    BY <1>8 DEF DeleteStarts
  <2>2. PICK final \in BOOLEAN : Again(final)
    BY <1>8
  <2>3. doing'.step = "idle"
    BY <2>2 DEF Again, Idle
  <2>4. UNCHANGED models
    <3>1. CASE Shared(Running.on) \/ (Registered(Running.on) /\ models[Running.on].key = role)
      BY <1>8, <3>1 DEF DeleteStarts
    <3>2. CASE ~(Shared(Running.on) \/ (Registered(Running.on) /\ models[Running.on].key = role))
      <4>1. doing' = [doing EXCEPT !.step = "remove"]
        BY <1>8, <3>2 DEF DeleteStarts, Proceeds
      <4>2. doing'.step = "remove"
        BY <4>1 DEF RegistryInv, Typed, RowsTyped
      <4> QED
        BY <2>3, <4>2
    <3> QED
      BY <3>1, <3>2
  <2> QED
    BY <2>1, <2>2, <2>4, AgainStep DEF RegistryInv, Typed, RowsTyped
<1> QED
  BY <1>1, <1>2, <1>4, <1>5, <1>6, <1>7, <1>8, RecordsStep, RemovalStarts, RemovesStep, DiesStep DEF Lane

LEMMA RegistryStep ==
  ASSUME RegistryInv, [RNext]_rvars
  PROVE  RegistryInv'
<1>1. CASE RNext
  BY <1>1, DoorsStep, AsksStep, LaneStep, BootsStep DEF RNext
<1>2. CASE UNCHANGED rvars
  <2>1. UNCHANGED <<models, keys, held, role, io, doing, deleter, asker, booting, halts, slips>>
    BY <1>2 DEF rvars
  <2>2. RowsTyped'
    BY <2>1 DEF RegistryInv, Typed, RowsTyped, Registered
  <2>3. \A f \in Engines : Awaited(f)' = Awaited(f)
    BY <2>1, LaneUntouched DEF Awaited
  <2> QED
    BY <2>1, <2>2, <2>3, LaneUntouched, RowsStay
<1> QED
  BY <1>1, <1>2

LEMMA RegistryTyped == RegistryInv => RTypeOK
<1> SUFFICES ASSUME RegistryInv
             PROVE  RTypeOK
  OBVIOUS
<1>1. \A j \in DOMAIN io : io[j] \in JobSet
  BY DEF RegistryInv, Typed, IoTyped
<1>2. (doing.job = 0) = (\A j \in DOMAIN io : io[j].state # "running")
  <2>1. \A j \in DOMAIN io : j # 0
    BY DEF RegistryInv, Typed, IoTyped
  <2>2. /\ doing.job # 0 => doing.job \in DOMAIN io /\ io[doing.job].state = "running"
        /\ \A j \in DOMAIN io : io[j].state = "running" => j = doing.job
    BY DEF RegistryInv, OneRunsInIo, Running
  <2>3. doing.job = 0 <=> \A j \in DOMAIN io : io[j].state # "running"
    BY <2>1, <2>2
  <2> QED
    BY <2>3
<1> QED
  BY <1>1, <1>2 DEF RTypeOK, RegistryInv, Typed, RowsTyped, JobSet

LEMMA OrphansHaveAnEnd == RegistryInv => NoOrphanWeights
  BY DEF RegistryInv, WeightsHaveAnEnd, DeleteComing, NoOrphanWeights, Quiet, Typed, IoTyped, OneRunsInIo

(* No step takes the row a role is seated on. *)
LEMMA SeatedStep ==
  ASSUME RegistryInv, [RNext]_rvars, NEW e \in Engines, models[e].key = role, role # 0
  PROVE  models'[e].key = role
<1> USE DEF RegistryInv, Typed, RowsTyped
<1>0. Registered(e)
  BY DEF Registered, NoRow
<1>1. doing.step # "idle" => Running \in JobSet
  BY RunningTyped DEF OneRunsInIo
<1>2. ASSUME NEW f \in Engines, Creates(f)
      PROVE  models'[e].key = role
  BY <1>0, <1>2 DEF Creates, Made
<1>3. CASE DeleteCommits
  BY <1>3 DEF DeleteCommits, KeyRefuses
<1>4. CASE AskerLooks
  BY <1>0, <1>4, RegistryAssumption DEF AskerLooks
<1>5. CASE PullRecords
  BY <1>1, <1>5 DEF PullRecords, JobSet
<1>6. CASE DeleteStarts
  BY <1>0, <1>1, <1>6 DEF DeleteStarts, JobSet
<1>7. CASE BootWrites
  BY <1>7 DEF BootWrites
<1>8. CASE UNCHANGED models
  BY <1>8
<1> QED
  BY <1>2, <1>3, <1>4, <1>5, <1>6, <1>7, <1>8
     DEF RNext, Doors, Asks, Lane, Boots, Unseats, Seats, DeleteLooks, AskerQueues, PullLooks, PullArrives, PullFails,
         DeleteRemoves, Dies, Claims, CancelsPull, BootReads, BootQueues, rvars

-----------------------------------------------------------------------------
StandInv == RegistryInv /\ SeatsInv /\ IntegrationInv /\ PromiseInv /\ VectorsInv

(* Every part of the stand keeps its invariant, beside the others. *)
THEOREM StandInductive == StandSpec => []StandInv
<1>1. StandInit => StandInv
  BY InitOfParts, RegistryInit, SeatsInit, IntegrationInit, PromiseInit, VectorsInit DEF StandInv
<1>2. StandInv /\ [StandNext]_standVars => StandInv'
  BY StepOfParts, RegistryStep, SeatsStep, IntegrationStep, PromiseStep, VectorsStep DEF StandInv
<1> QED
  BY <1>1, <1>2, PTL DEF StandSpec

(* models/registry.py, api/v1/llm_model.py, model_ops.py, bootstrap.py: a ready row has its weights or a *)
(* pull on its way, weights at rest have a row, and a row that is not ready waits for a pull, for any    *)
(* number of engines, jobs and faults.                                                                  *)
THEOREM RegistryStands == StandSpec => []RegistryHolds
<1>1. StandInv => RegistryHolds
  BY RegistryTyped, OrphansHaveAnEnd DEF StandInv, RegistryHolds, RegistryInv, SeatsInv
<1> QED
  BY <1>1, StandInductive, PTL

(* mcp_integration.py, mcp_ops.py: what the row says of its server at rest the server told, and schemas *)
(* at rest are of the url the row names.                                                                *)
THEOREM IntegrationsStand == StandSpec => []IntegrationsHold
<1>1. StandInv => IntegrationsHold
  BY IntegrationsAreHeld DEF StandInv
<1> QED
  BY <1>1, StandInductive, PTL

(* use_cases/index.py, corpus_search.py: labels tell the maker, and a search meets its own model. *)
THEOREM VectorsStand == StandSpec => []VectorsHold
<1>1. StandInv => VectorsHold
  BY VectorsAreHeld DEF StandInv
<1> QED
  BY <1>1, StandInductive, PTL

(* A later choice of an operator stands, whatever seat, delete or probe was on its way. *)
THEOREM ChoicesAreKept == StandSpec => ChoicesStand
<1>1. ASSUME StandInv, [StandNext]_standVars
      PROVE  [\A e \in Engines : models[e].key = role /\ role # 0 => models'[e].key = role]_rvars
  BY <1>1, StepOfParts, SeatedStep DEF StandInv
<1>2. ASSUME StandInv, [StandNext]_standVars
      PROVE  [\A d \in Askers : seats[d].state = "running" /\ holder' # holder /\ choices' = choices =>
                seats[d].at = choices \/ holder = asks[d].over]_S!svars
  BY <1>2, StepOfParts, LaterChoiceStep DEF StandInv
<1>3. ASSUME StandInv, [StandNext]_standVars
      PROVE  [\A d \in Askers :
                LET j == asks[d].job
                IN  asks[d].step = "answered" /\ seats[j].state = "running" /\ seats'[j].state = "done"
                      => holder' = asks[d].model]_S!svars
  BY <1>3, StepOfParts, AskedStep DEF StandInv
<1>4. ASSUME StandInv, [StandNext]_standVars
      PROVE  [card.status = "disabled" /\ card'.status # "disabled" => put.step = "read" /\ put.status = "active"]_I!ivars
  BY <1>4, StepOfParts, DisabledStep DEF StandInv
<1> QED
  BY <1>1, <1>2, <1>3, <1>4, StandInductive, PTL
     DEF StandSpec, ChoicesStand, SeatedStays, S!LaterChoiceStands, S!AskedIsSeated, I!DisabledStays

(* use_cases/prereg.py: what a promise is closed with was queued as its closing, a close that saw it closed *)
(* changes nothing, and a bar is cleared on rows of every question.                                        *)
THEOREM PromisesAreKept == StandSpec => PromiseStands
<1>1. StandInv => P!PTypeOK
  BY DEF StandInv, PromiseInv
<1>2. ASSUME StandInv, [StandNext]_standVars
      PROVE  [P!Closed /\ P!Writer => \E c \in Closers : P!Ends(c) /\ ~closes[c].sawClosed]_P!pvars
  BY <1>2, StepOfParts, SettledStep DEF StandInv
<1>3. ASSUME StandInv, [StandNext]_standVars
      PROVE  [P!Writer => \E c \in Closers : P!Ends(c) /\ closes[c].own]_P!pvars
  BY <1>3, StepOfParts, OwnStep DEF StandInv
<1>4. ASSUME StandInv, [StandNext]_standVars
      PROVE  [barred /\ P!Writer /\ closedWith'.cleared => \E c \in Closers : P!Ends(c) /\ closes[c].whole]_P!pvars
  BY <1>4, StepOfParts, ClearedStep DEF StandInv
<1> QED
  BY <1>1, <1>2, <1>3, <1>4, StandInductive, PTL
     DEF StandSpec, PromiseStands, P!SettledStands, P!ClosedOnItsOwn, P!ClearedWhole

(* use_cases/index.py, indexing.py: a cut the role did not move under is of one geometry, a reused vector *)
(* is never put beside another model's, and an unmoved fill leaves no question foreign to the role.       *)
THEOREM CutsAreKept == StandSpec => CutsKeepTheirModel
<1>1. ASSUME StandInv, [StandNext]_standVars
      PROVE  [V!MayWrite /\ cut' = V!NoCut /\ ~cut.moved =>
                \A t \in Texts : stored'[t].made = cut.label /\ stored'[t].ver = files[t]]_V!vvars
  BY <1>1, StepOfParts, UnmovedStep DEF StandInv
<1>2. ASSUME StandInv, [StandNext]_standVars
      PROVE  [stored' # stored /\ V!Mixed(stored') => cut.reused = {}]_V!vvars
  BY <1>2, StepOfParts, PureStep DEF StandInv
<1>3. ASSUME StandInv, [StandNext]_standVars
      PROVE  [fill.step = "embed" /\ fill'.step = "idle" /\ fill.left = {} /\ ~fill.moved =>
                \A q \in Questions : qvecs[q].by = seated]_V!vvars
  BY <1>3 DEF StandInv, VectorsInv, FillPart, FillHolds
<1> QED
  BY <1>1, <1>2, <1>3, StandInductive, PTL
     DEF StandSpec, CutsKeepTheirModel, V!UnmovedCutIsWhole, V!ReusedStaysPure, V!FillLeavesNone
=============================================================================
