-------------------------------- MODULE Prereg -------------------------------
(***************************************************************************)
(* A promise and the doors that close it.  A close reads the promise, then *)
(* the jobs of the runs it names, then their rows, and only then writes    *)
(* what it found, in two commits, with nothing held between.               *)
(* Source: use_cases/prereg.py, models/prereg.py, mcp_ops.py.              *)
(***************************************************************************)
EXTENDS Naturals, FiniteSets

CONSTANTS
  Runs,     \* runs a close may name as the arm
  Closers   \* closes, each asked once

VARIABLES
  barred,     \* TRUE: a one-arm bar; FALSE: arm and control paired
  promised,   \* written
  closedWith, \* what the promise was closed with: the run, what was said, "none" before
  attempts,   \* the column of attempts, as a set of the closes it names
  jobs,       \* per run how its jobs were queued
  rows,       \* runs with a row on every question of the population; the others have some
  reading,    \* per run what its rows say on the closing columns
  closes      \* per closer its place and what it read

pvars == <<barred, promised, closedWith, attempts, jobs, rows, reading, closes>>

NoClosing == [run |-> "none", cleared |-> FALSE]
Idle == [step |-> "idle", run |-> CHOOSE r \in Runs : TRUE, sawClosed |-> FALSE, found |-> "none",
         saw |-> {}, own |-> TRUE, whole |-> TRUE, looked |-> "none"]
Found == {"none", "cleared", "missed", "open"}
Places == {"idle", "read", "checked", "judged", "looked", "noted", "ended", "refused"}

PTypeOK ==
  /\ {barred, promised} \subseteq BOOLEAN /\ attempts \subseteq Closers
  /\ closedWith \in [run : Runs \cup {"none"}, cleared : BOOLEAN]
  /\ jobs \in [Runs -> SUBSET {"look", "closing"}]
  /\ rows \subseteq Runs /\ reading \in [Runs -> {"cleared", "missed"}]
  /\ closes \in [Closers -> [step : Places, run : Runs, sawClosed : BOOLEAN, found : Found,
       saw : SUBSET Closers, own : BOOLEAN, whole : BOOLEAN, looked : {"none", "open", "closed"}]]

PInit ==
  /\ barred \in BOOLEAN /\ promised = FALSE /\ closedWith = NoClosing /\ attempts = {}
  /\ jobs = [r \in Runs |-> {}] /\ rows = {} /\ reading = [r \in Runs |-> "cleared"]
  /\ closes = [c \in Closers |-> Idle]

Closed == closedWith # NoClosing

-----------------------------------------------------------------------------
(* the promise is written once; eval runs are queued under it as the        *)
(* closing, or as a look, before it or beside it, and their rows come       *)
Writes ==
  /\ ~promised /\ promised' = TRUE
  /\ UNCHANGED <<closedWith, attempts, jobs, rows, reading, closes>>

QueuesRun(r, how) ==
  /\ how = "closing" => promised
  /\ how \notin jobs[r] /\ jobs' = [jobs EXCEPT ![r] = @ \cup {how}]
  /\ UNCHANGED <<promised, closedWith, attempts, rows, reading, closes>>

Whole(r) == r \in rows
Answers(r) ==
  /\ jobs[r] # {} /\ ~Whole(r) /\ rows' = rows \cup {r}
  /\ UNCHANGED <<promised, closedWith, attempts, jobs, reading, closes>>

(* a rejudge moves what a run's rows say *)
Rejudges(r) ==
  /\ jobs[r] # {} /\ reading' = [reading EXCEPT ![r] = IF @ = "cleared" THEN "missed" ELSE "cleared"]
  /\ UNCHANGED <<promised, closedWith, attempts, jobs, rows, closes>>

-----------------------------------------------------------------------------
At(c, step) == closes[c].step = step
Goes(c, step) == closes' = [closes EXCEPT ![c].step = step]

Reads(c, r) ==
  /\ promised /\ At(c, "idle")
  /\ closes' = [closes EXCEPT ![c] = [Idle EXCEPT !.step = "read", !.run = r, !.sawClosed = Closed]]
  /\ UNCHANGED <<promised, closedWith, attempts, jobs, rows, reading>>

(* only the jobs of a promise not yet closed are asked; a refusal is an attempt *)
UnderIt(r) == jobs[r] = {"closing"}
Checks(c) ==
  /\ At(c, "read")
  /\ IF closes[c].sawClosed \/ UnderIt(closes[c].run) THEN /\ closes' = [closes EXCEPT ![c] = [@ EXCEPT !.step = "checked", !.own = jobs[closes[c].run] = {"closing"}]]
          /\ UNCHANGED attempts
     ELSE Goes(c, "refused") /\ attempts' = attempts \cup {c}
  /\ UNCHANGED <<promised, closedWith, jobs, rows, reading>>

(* the bar asks every question of the population, the pair those it has *)
Incomplete(r) == barred /\ ~Whole(r)
(* the bar or the effect against the floor; without a floor or a direction it is open *)
ClosingStates(r) ==
  IF Incomplete(r) THEN {"incomplete"} ELSE {reading[r], "no_direction"} \cup (IF barred THEN {} ELSE {"no_floor"})
(* guards and vetoes: one broken or fired stops it, one undecided leaves it open *)
Verdict(closing, checks) ==
  CASE closing = "missed" \/ checks = "stop" -> "missed"
    [] closing # "cleared" \/ checks = "open" -> "open"
    [] OTHER -> "cleared"
Judges(c) ==
  /\ At(c, "checked")
  /\ LET r == closes[c].run
     IN  \E checks \in {"hold", "stop", "open"}, closing \in ClosingStates(r) :
           closes' = [closes EXCEPT ![c] =
             [@ EXCEPT !.step = "judged", !.found = Verdict(closing, checks), !.whole = Whole(r)]]
  /\ UNCHANGED <<promised, closedWith, attempts, jobs, rows, reading>>

(* _closed_with: the row is read, the look is written whole over what was read *)
Looks(c) ==
  /\ At(c, "judged")
  /\ closes' = [closes EXCEPT ![c] = [@ EXCEPT !.step = "looked", !.saw = attempts,
       !.looked = IF Closed THEN "closed" ELSE "open"]]
  /\ UNCHANGED <<promised, closedWith, attempts, jobs, rows, reading>>
SeesOpen(c) == closes[c].looked = "open"
Notes(c) ==
  /\ At(c, "looked")
  /\ IF SeesOpen(c)
     (* the commit expires the row, and the test below reads it again *)
     THEN /\ attempts' = closes[c].saw \cup {c}
          /\ closes' = [closes EXCEPT ![c] = [@ EXCEPT !.step = "noted", !.looked = IF Closed THEN "closed" ELSE "open"]]
     ELSE UNCHANGED attempts /\ Goes(c, "noted")
  /\ UNCHANGED <<promised, closedWith, jobs, rows, reading>>

WritesAlways(c) == closes[c].found # "open"
Decides(c) == SeesOpen(c) /\ closes[c].found # "open"
Closes(c) ==
  /\ At(c, "noted")
  /\ IF Decides(c)
     THEN closedWith' = [run |-> closes[c].run, cleared |-> closes[c].found = "cleared"] /\ Goes(c, "ended")
     ELSE /\ Goes(c, IF closes[c].looked = "closed" /\ closedWith.run # closes[c].run THEN "refused" ELSE "ended")
          /\ UNCHANGED closedWith
  /\ UNCHANGED <<promised, attempts, jobs, rows, reading>>

CloseSteps(c) == Checks(c) \/ Judges(c) \/ Looks(c) \/ Notes(c) \/ Closes(c) \/ \E r \in Runs : Reads(c, r)
PNext ==
  /\ UNCHANGED barred
  /\ \/ Writes
     \/ \E r \in Runs : Answers(r) \/ Rejudges(r) \/ \E how \in {"look", "closing"} : QueuesRun(r, how)
     \/ \E c \in Closers : CloseSteps(c)
PSpec == PInit /\ [][PNext]_pvars

-----------------------------------------------------------------------------
Ends(c) == At(c, "noted") /\ closes'[c].step = "ended"
Writer == closedWith' # closedWith
(* A close that began when the promise was closed never changes what it was *)
(* closed with, though no close holds the row from its first read to its    *)
(* last write.                                                              *)
SettledStands == [][Closed /\ Writer => \E c \in Closers : Ends(c) /\ ~closes[c].sawClosed]_pvars

(* What a promise is closed with was queued as its closing and as nothing   *)
(* else when the close asked, also where a close skips the question.        *)
ClosedOnItsOwn == [][Writer => \E c \in Closers : Ends(c) /\ closes[c].own]_pvars

(* A bar is cleared on rows of every question the population declares.      *)
ClearedWhole ==
  [][barred /\ Writer /\ closedWith'.cleared => \E c \in Closers : Ends(c) /\ closes[c].whole]_pvars

-----------------------------------------------------------------------------
(* Violated, not run.  use_cases/prereg.py:359: "a promise closes once".    *)
ClosesOnce == [][Closed => closedWith' = closedWith]_pvars

(* use_cases/prereg.py:347: "every look is kept".                           *)
LookIsKept == [][attempts \subseteq attempts']_pvars
=============================================================================
