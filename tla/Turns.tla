-------------------------------- MODULE Turns --------------------------------
(***************************************************************************)
(* The card's lane as a line: whose turn it is, how age brings a job       *)
(* forward, and the live judge that gathers answers while it waits.        *)
(* Source: job_queue.py (_turn, claim_next, judge_live, reschedule),       *)
(* job_specs.py (PRIORITY, STARVED_AFTER_MINUTES).                         *)
(***************************************************************************)
EXTENDS Naturals, Integers, Sequences, FiniteSets

CONSTANTS
  Answers,    \* live answers to judge
  MaxLine,    \* bound of the model: jobs waiting at once, runs asked for without end
  MaxHands,   \* bound of the model: handovers asked for
  MaxReturns  \* bound of the model: deferrals, retries and reclaims

VARIABLES
  line,     \* jobs in status new; those that may be claimed stand in the order of apply_since
  running,  \* the job the lane's thread holds, as its claim read it
  asked,    \* answers whose judge_live has committed
  judged,
  hands, returns

tvars == <<line, running, asked, judged, hands, returns>>

Nobody == "nobody"
Kinds == {"hand", "run", "judge"}
Rank(kind) == CASE kind = "hand" -> -2 [] kind = "run" -> 0 [] kind = "judge" -> 10
Job(kind, logs, due) == [kind |-> kind, old |-> FALSE, due |-> due, logs |-> logs, lock |-> Nobody]
NoJob == Job("none", {}, FALSE)

TTypeOK ==
  /\ \A i \in DOMAIN line : line[i] \in [kind : Kinds, old : BOOLEAN, due : BOOLEAN,
                                         logs : SUBSET Answers, lock : Answers \cup {Nobody}]
  /\ Len(line) <= MaxLine
  /\ running = NoJob \/ (running.kind \in Kinds /\ running.due /\ running.lock = Nobody)
  /\ asked \subseteq Answers /\ judged \subseteq asked
  /\ hands \in 0..MaxHands /\ returns \in 0..MaxReturns

TInit == line = <<>> /\ running = NoJob /\ asked = {} /\ judged = {} /\ hands = 0 /\ returns = 0

-----------------------------------------------------------------------------
(* whose turn: the type's rank, raised for a job that starves *)
TurnByRank(j) == Rank(j.kind)
Turn(j) == IF j.old /\ Rank(j.kind) > -1 THEN -1 ELSE Rank(j.kind)

Comes(kind) ==
  /\ Len(line) < MaxLine
  /\ line' = Append(line, Job(kind, {}, TRUE))
  /\ IF kind = "hand" THEN hands < MaxHands /\ hands' = hands + 1 ELSE UNCHANGED hands
  /\ UNCHANGED <<running, asked, judged, returns>>

Ages(i) ==
  /\ ~line[i].old /\ line' = [line EXCEPT ![i].old = TRUE]
  /\ UNCHANGED <<running, asked, judged, hands, returns>>

Without(i) == SubSeq(line, 1, i - 1) \o SubSeq(line, i + 1, Len(line))
(* the five minutes a live batch waits, or the backoff of one that came back: *)
(* its apply_since is then the latest of the jobs that may be claimed         *)
FallsDue(i) ==
  /\ ~line[i].due /\ line' = Append(Without(i), [line[i] EXCEPT !.due = TRUE])
  /\ UNCHANGED <<running, asked, judged, hands, returns>>

(* FOR UPDATE SKIP LOCKED *)
Claimable == {i \in DOMAIN line : line[i].due /\ line[i].lock = Nobody}
Next1 == CHOOSE i \in Claimable : \A k \in Claimable :
           Turn(line[i]) < Turn(line[k]) \/ (Turn(line[i]) = Turn(line[k]) /\ i <= k)
Claims ==
  /\ running = NoJob /\ Claimable # {}
  /\ running' = line[Next1] /\ line' = Without(Next1)
  /\ UNCHANGED <<asked, judged, hands, returns>>

Ends ==
  /\ running # NoJob /\ running' = NoJob
  /\ judged' = judged \cup running.logs
  /\ UNCHANGED <<line, asked, hands, returns>>

(* a deferral, a retry or a restart writes the options the claim read, and its new place is at the end *)
Returned == [running EXCEPT !.due = FALSE]
ComesBack ==
  /\ running # NoJob /\ returns < MaxReturns /\ Len(line) < MaxLine
  /\ line' = Append(line, Returned) /\ running' = NoJob /\ returns' = returns + 1
  /\ UNCHANGED <<asked, judged, hands>>

-----------------------------------------------------------------------------
(* judge_live: a waiting live job nobody holds takes the answer, or a new  *)
(* one does                                                                *)
Waiting == {i \in DOMAIN line : line[i].kind = "judge" /\ line[i].lock = Nobody}
Locks(a) ==
  /\ a \notin asked /\ \A i \in DOMAIN line : line[i].lock # a
  /\ \E i \in Waiting : line' = [line EXCEPT ![i].lock = a]
  /\ UNCHANGED <<running, asked, judged, hands, returns>>
Appends(a) ==
  /\ \E i \in DOMAIN line :
       /\ line[i].lock = a
       /\ line' = [line EXCEPT ![i] = [@ EXCEPT !.logs = @ \cup {a}, !.lock = Nobody]]
  /\ asked' = asked \cup {a}
  /\ UNCHANGED <<running, judged, hands, returns>>
Inserts(a) ==
  /\ a \notin asked /\ \A i \in DOMAIN line : line[i].lock # a
  /\ Waiting = {} /\ Len(line) < MaxLine
  /\ line' = Append(line, Job("judge", {a}, FALSE)) /\ asked' = asked \cup {a}
  /\ UNCHANGED <<running, judged, hands, returns>>

Batches(a) == Locks(a) \/ Appends(a) \/ Inserts(a)
TNext ==
  \/ \E kind \in {"hand", "run"} : Comes(kind)
  \/ \E i \in DOMAIN line : Ages(i) \/ FallsDue(i)
  \/ Claims \/ Ends \/ ComesBack
  \/ \E a \in Answers : Batches(a)

(* time passes for every job in line, an append is one statement, and the worker claims and ends *)
TFair ==
  /\ WF_tvars(Claims) /\ WF_tvars(Ends)
  /\ \A i \in 1..MaxLine : WF_tvars(i \in DOMAIN line /\ (Ages(i) \/ FallsDue(i)))
  /\ \A a \in Answers : WF_tvars(Appends(a))
TSpec == TInit /\ [][TNext]_tvars /\ TFair

-----------------------------------------------------------------------------
(* Every live answer is judged, though runs are asked for without end and    *)
(* rank before the judge: age raises it over all but a handover.            *)
EveryAnswerIsJudged == \A a \in Answers : (a \in asked) ~> (a \in judged)
=============================================================================
