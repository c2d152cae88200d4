-------------------------------- MODULE Seats --------------------------------
(***************************************************************************)
(* One role's seat: PUT /v1/role seats at once, or finds an asleep server  *)
(* and asks the queue to wake it, probe it and seat the role then.         *)
(* Source: api/v1/model_role.py, job_queue.pending_handover,               *)
(* job_handlers/card.py, use_cases/model_acceptance.py (seat).             *)
(***************************************************************************)
EXTENDS Naturals, FiniteSets

CONSTANTS
  Seatable,   \* models the role may be given to
  Askers,     \* requests that met an asleep server
  MaxChoices  \* bound of the model: seats taken at once

VARIABLES
  holder,   \* the model the role holds
  choices,  \* seats taken at once so far
  asks,     \* per asker its place, the model, the holder it read and the choices made by then
  seats     \* the hand_card jobs with a seat, one at most per asker

svars == <<holder, choices, asks, seats>>

NoAsk == [step |-> "idle", model |-> CHOOSE m \in Seatable : TRUE, over |-> CHOOSE m \in Seatable : TRUE,
          at |-> 0, job |-> CHOOSE d \in Askers : TRUE]
NoSeat == [state |-> "none"]
Steps == {"idle", "held", "none", "answered"}
Live(j) == seats[j].state \in {"new", "running"}

STypeOK ==
  /\ holder \in Seatable /\ choices \in 0..MaxChoices
  /\ asks \in [Askers -> [step : Steps, model : Seatable, over : Seatable, at : 0..MaxChoices, job : Askers]]
  /\ \A d \in Askers : seats[d] = NoSeat \/ seats[d] \in
       [state : {"new", "running", "done", "error", "refused"}, model : Seatable, over : Seatable, at : 0..MaxChoices]

SInit ==
  /\ holder \in Seatable /\ choices = 0
  /\ asks = [d \in Askers |-> NoAsk] /\ seats = [d \in Askers |-> NoSeat]

(* an awake server, another engine or anyway=true: the role is written at once *)
Chooses(m) ==
  /\ choices < MaxChoices /\ choices' = choices + 1 /\ holder' = m
  /\ UNCHANGED <<asks, seats>>

(* NeedsProbe: the holder is read, then a waiting seat of the same model, then the job is queued *)
ReadsHolder(d) ==
  /\ asks[d].step = "idle"
  /\ \E m \in Seatable :
       asks' = [asks EXCEPT ![d] = [@ EXCEPT !.step = "held", !.model = m, !.over = holder, !.at = choices]]
  /\ UNCHANGED <<holder, choices, seats>>

Same(d) == {j \in Askers : Live(j) /\ seats[j].model = asks[d].model}
LooksPending(d) ==
  /\ asks[d].step = "held"
  /\ IF Same(d) = {} THEN asks' = [asks EXCEPT ![d].step = "none"]
     ELSE \E j \in Same(d) : asks' = [asks EXCEPT ![d] = [@ EXCEPT !.step = "answered", !.job = j]]
  /\ UNCHANGED <<holder, choices, seats>>

Queues(d) ==
  /\ asks[d].step = "none"
  /\ seats' = [seats EXCEPT ![d] = [state |-> "new", model |-> asks[d].model, over |-> asks[d].over, at |-> asks[d].at]]
  /\ asks' = [asks EXCEPT ![d] = [@ EXCEPT !.step = "answered", !.job = d]]
  /\ UNCHANGED <<holder, choices>>

-----------------------------------------------------------------------------
(* hand_card, one at a time: the card, the gate, then the seat under its lock *)
Takes(d) ==
  /\ seats[d].state = "new" /\ \A j \in Askers : seats[j].state # "running"
  /\ seats' = [seats EXCEPT ![d].state = "running"]
  /\ UNCHANGED <<holder, choices, asks>>

(* a card not handed or a gate that refuses *)
Fails(d) ==
  /\ seats[d].state = "running" /\ seats' = [seats EXCEPT ![d].state = "error"]
  /\ UNCHANGED <<holder, choices, asks>>

SeatsAnyway(d) == TRUE
MaySeat(d) == holder = seats[d].over
Seats(d) ==
  /\ seats[d].state = "running"
  /\ IF holder = seats[d].model \/ MaySeat(d)
     THEN holder' = seats[d].model /\ seats' = [seats EXCEPT ![d].state = "done"]
     ELSE UNCHANGED holder /\ seats' = [seats EXCEPT ![d].state = "refused"]
  /\ UNCHANGED <<choices, asks>>

SNext ==
  \/ \E m \in Seatable : Chooses(m)
  \/ \E d \in Askers : ReadsHolder(d) \/ LooksPending(d) \/ Queues(d) \/ Takes(d) \/ Fails(d) \/ Seats(d)
SSpec == SInit /\ [][SNext]_svars

-----------------------------------------------------------------------------
(* A seat queued for later changes the holder only if it is the one its     *)
(* asker saw, so a different later choice stands, whatever was asked twice. *)
LaterChoiceStands ==
  [][\A d \in Askers : seats[d].state = "running" /\ holder' # holder /\ choices' = choices =>
       seats[d].at = choices \/ holder = asks[d].over]_svars

(* An ask answered with a job another asker queued gets its own model when  *)
(* that job is done.                                                        *)
AskedIsSeated ==
  [][\A d \in Askers :
       LET j == asks[d].job
       IN  asks[d].step = "answered" /\ seats[j].state = "running" /\ seats'[j].state = "done"
             => holder' = asks[d].model]_svars

-----------------------------------------------------------------------------
(* Violated, not run.  model_acceptance.py:143: "a later choice is not      *)
(* undone"; a choice away and back again is.                                *)
LaterChoiceNeverUndone ==
  [][\A d \in Askers : seats[d].state = "running" /\ holder' # holder /\ choices' = choices =>
       seats[d].at = choices]_svars

(* model_role.py:71: "a seat already waiting answers a second ask": the     *)
(* second ask, made after another choice, is answered by a job that refuses *)
(* for that choice though nothing was chosen since the ask.                 *)
SecondAskIsAnswered ==
  [][\A d \in Askers :
       LET j == asks[d].job
       IN  asks[d].step = "answered" /\ seats[j].state = "running" /\ asks[d].at = choices
             => seats'[j].state # "refused"]_svars
=============================================================================
