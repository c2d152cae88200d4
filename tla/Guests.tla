------------------------------- MODULE Guests --------------------------------
(***************************************************************************)
(* A judge_guest_axes pass: the guest's numbers over a drawn part of one   *)
(* run, its sweeps inside the process, and the job put back by the worker. *)
(* Sources: app/job_handlers/judging.py (judge_guest_axes, _score_guests,  *)
(* _merge_guest_scores), app/use_cases/judge_debts.py, app/worker.py.      *)
(*                                                                         *)
(* A row is one debt: its axes are scored, capped and dropped alike.  The  *)
(* seeded draw is a function of the rows that owe; here it takes the first *)
(* of them, rows being numbered as the seed would order them.              *)
(***************************************************************************)
EXTENDS Naturals, FiniteSets

CONSTANTS
  Rows,         \* the run's rows with material for the guest
  Budget,       \* `sample`
  MaxTries,     \* MAX_JUDGE_ATTEMPTS
  MaxSweeps,    \* _MAX_SWEEPS, walks of one attempt
  MaxAttempts,  \* MAX_ATTEMPTS of the worker
  MaxHalts      \* bound of the model: deaths, faults and refused writes

VARIABLES
  scored, tries,      \* rows with a number; failures written on each row
  job, attempts,      \* the one job and the attempts it carries
  place, budget, due, sweep, got,
  calls,              \* calls to the guest for each row, by this job
  stops

pass == <<budget, due, sweep, got>>
gvars == <<scored, tries, job, attempts, place, pass, calls, stops>>

TypeOK ==
  /\ scored \subseteq Rows /\ tries \in [Rows -> 0..MaxTries]
  /\ job \in {"none", "new", "running", "done", "error", "cancelled"}
  /\ attempts \in 0..MaxAttempts /\ place \in {"idle", "walking", "closing"}
  /\ budget \subseteq Rows /\ due \subseteq budget
  /\ sweep \in 0..MaxSweeps /\ got \in BOOLEAN /\ stops \in 0..MaxHalts
  /\ calls \in [Rows -> Nat]

Init ==
  /\ scored = {} /\ tries \in [Rows -> {0, MaxTries}]
  /\ job = "none" /\ attempts = 0 /\ place = "idle"
  /\ budget = {} /\ due = {} /\ sweep = 0 /\ got = FALSE
  /\ calls = [r \in Rows |-> 0] /\ stops = 0

Halts == stops < MaxHalts /\ stops' = stops + 1

(* guest_clauses: no number yet, and attempts left *)
Owed == {r \in Rows \ scored : tries[r] < MaxTries}

(* drawn: all that owe, or the sample's worth of them *)
Drawn(S) == {r \in S : Cardinality({q \in S : q < r}) < Budget}

Asks ==
  /\ job = "none" /\ Owed # {}
  /\ job' = "new"
  /\ UNCHANGED <<scored, tries, attempts, place, pass, calls, stops>>

Cancels ==
  /\ job \in {"new", "running"}
  /\ job' = "cancelled"
  /\ UNCHANGED <<scored, tries, attempts, place, pass, calls, stops>>

Lets == place' = "idle" /\ budget' = {} /\ due' = {} /\ sweep' = 0 /\ got' = FALSE
Ends(kind) == job' = (IF job = "cancelled" THEN job ELSE kind) /\ UNCHANGED attempts /\ Lets
EndsInRetry ==
  IF attempts + 1 < MaxAttempts /\ job # "cancelled"
  THEN job' = "new" /\ attempts' = attempts + 1 /\ Lets
  ELSE Ends("error")

(* the draw is kept for the sweeps of this attempt *)
Claims ==
  /\ job = "new" /\ place = "idle"
  /\ job' = "running" /\ place' = "walking"
  /\ budget' = Drawn(Owed) /\ due' = budget' /\ sweep' = 1
  /\ UNCHANGED <<scored, tries, attempts, got, calls, stops>>

(* _score_guests and _merge_guest_scores of one row: a number or an       *)
(* abstention, an error, an input over the window that ends the row, or a *)
(* write the row's lock refused                                           *)
Scores(r) ==
  /\ place = "walking" /\ r \in due /\ job # "cancelled"
  /\ due' = due \ {r}
  /\ calls' = [calls EXCEPT ![r] = @ + 1]
  /\ \/ scored' = scored \cup {r} /\ got' = TRUE /\ UNCHANGED <<tries, stops>>
     \/ tries' \in {[tries EXCEPT ![r] = @ + 1], [tries EXCEPT ![r] = MaxTries]}
        /\ UNCHANGED <<scored, got, stops>>
     \/ Halts /\ UNCHANGED <<scored, tries, got>>
  /\ UNCHANGED <<job, attempts, place, budget, sweep>>

(* SeatChanged is Final, any other fault is retried *)
Faults ==
  /\ place = "walking" /\ due # {} /\ Halts
  /\ Ends("error") \/ EndsInRetry
  /\ UNCHANGED <<scored, tries, calls>>

AgainWide == Owed
Again == Owed \cap budget

Sweeps ==
  /\ place = "walking" /\ (due = {} \/ job = "cancelled")
  /\ IF Again # {} /\ sweep < MaxSweeps /\ job # "cancelled"
     THEN due' = Again /\ sweep' = sweep + 1 /\ UNCHANGED <<place, budget, got>>
     ELSE place' = "closing" /\ due' = {} /\ UNCHANGED <<budget, sweep, got>>
  /\ UNCHANGED <<scored, tries, job, attempts, calls, stops>>

(* walk.close: a budget of which nothing was written is a fault *)
Closes ==
  /\ place = "closing"
  /\ IF budget # {} /\ ~got THEN Ends("error") ELSE Ends("done")
  /\ UNCHANGED <<scored, tries, calls, stops>>

Dies ==
  /\ place # "idle" /\ Halts
  /\ job' = IF job = "cancelled" THEN job ELSE "new"
  /\ attempts' = IF attempts < MaxAttempts THEN attempts + 1 ELSE attempts
  /\ Lets
  /\ UNCHANGED <<scored, tries, calls>>

Worker == Claims \/ (\E r \in due : Scores(r)) \/ Faults \/ Sweeps \/ Closes
Next == Worker \/ Asks \/ Cancels \/ Dies
GuestSpec == Init /\ [][Next]_gvars

-----------------------------------------------------------------------------
(* A pass done leaves nothing of its own draw owed, unless its sweeps ran   *)
(* out on it: a row is walked again only inside the budget it was drawn in. *)
WalksItsBudget ==
  /\ place # "idle" => \A r \in due : r \in budget /\ tries[r] < MaxTries /\ r \notin scored
  /\ place = "closing" /\ job = "running" /\ sweep < MaxSweeps => Owed \cap budget = {}

(* However often the job comes back, a row costs at most its attempts, and  *)
(* one more for each call whose answer was lost.                            *)
CallsBounded == \A r \in Rows : calls[r] <= MaxTries + stops

(* What a comment says and the code does not keep.                          *)
(* job_handlers/judging.py:263: "drawn once: a sweep that redraws turns a   *)
(* budget of fifty rows into a hundred and fifty", and judge_debts.py:132:  *)
(* "a sweep redraws the same rows rather than wandering the run": the rows  *)
(* one job puts to the guest are no more than its sample.                   *)
BudgetHolds == Cardinality({r \in Rows : calls[r] > 0}) <= Budget
=============================================================================
