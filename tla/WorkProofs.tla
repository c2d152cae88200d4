------------------------------ MODULE WorkProofs -----------------------------
(***************************************************************************)
(* Theorems about what a job reaches for while it runs: the calls of a     *)
(* walk, for any rows and threads; a pull's weights, for any shards; a     *)
(* conversion, for any pieces; and the copies of a text, for any sources.  *)
(***************************************************************************)
EXTENDS MCWork, FunctionTheorems, FiniteSetTheorems, WellFoundedInduction, TLAPS

-----------------------------------------------------------------------------
(* Calls *)

(* a throttle met once and within the pace: what is left of it is what no thread has waited yet *)
ThrottleIsMet ==
  /\ server = "throttled" => lifts >= 1
  /\ turns = 0 => /\ server = "well" /\ \A t \in Threads : tried[t] = 0
                  /\ \A r \in Rows : why[r] # "throttled"
  /\ turns = 1 /\ ~long =>
       /\ server = "throttled" => \A t \in Threads : tried[t] + lifts <= PaceTries
       /\ what # "score" => \A r \in Rows : why[r] # "throttled"
FailedIsOfTheRow == what # "score" => \A r \in Rows : outcome[r] = "failed" => ~Fault(why[r]) /\ why[r] # "unusable"

(* one thread has a row in hand, and what its tally lacks is the reply the thread has not read *)
Owed(t) == IF reply[t] # "none" /\ Counted(reply[t]) THEN 1 ELSE 0
InHand ==
  /\ \A t \in Threads : IF at[t] = "none" THEN reply[t] = "none"
                        ELSE outcome[at[t]] = "open" /\ served[at[t]] = rowTally[at[t]] + Owed(t)
  /\ \A t, u \in Threads : at[t] = at[u] /\ at[t] # "none" => t = u
  /\ \A r \in Rows : outcome[r] # "open" => rowTally[r] = served[r]
JobHasAll == IsFiniteSet(Told) /\ jobTally = Cardinality(Told)
CallsInv == WTypeOK /\ JobHasAll /\ InHand /\ ThrottleIsMet /\ FailedIsOfTheRow

LEMMA CallsInit == WInit => CallsInv
<1> SUFFICES ASSUME WInit PROVE CallsInv
  OBVIOUS
<1>1. WTypeOK
  <2>1. 0 \in 0..MaxTurns /\ 0 \in 0..PaceTries + 1 /\ 0 \in 0..PaceTries /\ 0 \in Nat
    BY WorkAssumption
  <2>2. input \in [Rows -> {"fits", "over", "unseen"}]
    BY DEF WInit
  <2> QED
    BY <2>1, <2>2, Zenon DEF WInit, WTypeOK, Conditions, Refusing, Enders
<1>2. Told = {}
  BY DEF WInit, Told
<1>3. JobHasAll
  BY <1>2, FS_EmptySet DEF WInit, JobHasAll
<1>4. InHand
  BY DEF WInit, InHand
<1>5. ThrottleIsMet /\ FailedIsOfTheRow
  BY DEF WInit, ThrottleIsMet, FailedIsOfTheRow
<1> QED
  BY <1>1, <1>3, <1>4, <1>5 DEF CallsInv

(* One more answer in a row's tally and in the job's is one more in what the job has been told. *)
LEMMA OneMoreTold ==
  ASSUME WTypeOK, JobHasAll, NEW r \in Rows, Count(r)
  PROVE  JobHasAll'
<1> DEFINE n == rowTally[r] + 1
<1>1. \A x \in Rows : rowTally'[x] = IF x = r THEN n ELSE rowTally[x]
  BY DEF WTypeOK, Count
<1>2. rowTally[r] \in Nat /\ 1..n = (1..rowTally[r]) \cup {n} /\ n \notin 1..rowTally[r]
  BY DEF WTypeOK
<1>3. Told' = Told \cup {<<r, n>>}
  <2>1. Told' = UNION {{x} \X (1..rowTally'[x]) : x \in Rows}
    BY DEF Told
  <2>2. \A x \in Rows \ {r} : {x} \X (1..rowTally'[x]) = {x} \X (1..rowTally[x])
    BY <1>1
  <2>3. {r} \X (1..rowTally'[r]) = ({r} \X (1..rowTally[r])) \cup {<<r, n>>}
    BY <1>1, <1>2
  <2>4. ASSUME NEW p \in Told'
        PROVE  p \in Told \cup {<<r, n>>}
    <3>1. PICK x \in Rows : p \in {x} \X (1..rowTally'[x])
      BY <2>1
    <3>2. x # r => p \in {x} \X (1..rowTally[x])
      BY <2>2, <3>1
    <3>3. x = r => p \in ({r} \X (1..rowTally[r])) \cup {<<r, n>>}
      BY <2>3, <3>1
    <3> QED
      BY <3>2, <3>3, Zenon DEF Told
  <2>5. ASSUME NEW p \in Told \cup {<<r, n>>}
        PROVE  p \in Told'
    <3>1. CASE p = <<r, n>>
      BY <2>1, <2>3, <3>1, Zenon
    <3>2. CASE p \in Told
      <4>1. PICK x \in Rows : p \in {x} \X (1..rowTally[x])
        BY <3>2 DEF Told
      <4>2. p \in {x} \X (1..rowTally'[x])
        BY <2>2, <2>3, <4>1
      <4> QED
        BY <2>1, <4>2, Zenon
    <3> QED
      BY <3>1, <3>2
  <2> QED
    BY <2>4, <2>5
<1>4. <<r, n>> \notin Told
  BY <1>2 DEF Told
<1>5. IsFiniteSet(Told') /\ Cardinality(Told') = Cardinality(Told) + 1
  BY <1>3, <1>4, FS_AddElement DEF JobHasAll
<1> QED
  BY <1>5 DEF JobHasAll, Count

(* A call that ends: what its row and its thread are left as, and what is counted. *)
LEMMA CallEnds ==
  ASSUME CallsInv, NEW t \in Threads,
         Refused(t) \/ RequestRefused(t) \/ Answered(t) \/ NoUsage(t)
  PROVE  CallsInv'
<1> USE DEF CallsInv
<1> DEFINE r == at[t]
<1> DEFINE Left(how, said) ==
       /\ Ends(t, how, said)
       /\ said = "throttled" => server = "throttled" /\ (what = "score" \/ ~(tried[t] < PaceTries))
       /\ how = "failed" /\ what # "score" => ~Fault(said) /\ said # "unusable"
<1>0. reply[t] # "none" => at[t] # "none"
  BY DEF InHand
<1>1. /\ at[t] # "none" /\ UNCHANGED <<kind, what, input, server, turns, lifts, long, stopped, served>>
      /\ \E how \in {"answered", "failed", "fault"}, said \in Enders : Left(how, said)
  <2>1. CASE Refused(t)
    <3>1. PICK said \in IF server = "well" THEN Once ELSE {server} : Ends(t, IF Fault(said) THEN "fault" ELSE "failed", said)
      BY <2>1 DEF Refused
    <3>2. said = "throttled" => server = "throttled"
      BY <3>1 DEF Enders, Once, Refusing, Conditions, WTypeOK
    <3>3. said \in Enders /\ said # "unusable"
      BY <3>1 DEF Enders, Once, Refusing, Conditions, WTypeOK
    <3>4. said = "throttled" => what = "score" \/ ~(tried[t] < PaceTries)
      BY <2>1, <3>2, <3>3 DEF Refused, Paced
    <3>5. at[t] # "none" /\ UNCHANGED <<kind, what, input, server, turns, lifts, long, stopped, served>>
      BY <2>1 DEF Refused, Same, SameServer, Asks
    <3> DEFINE how == IF Fault(said) THEN "fault" ELSE "failed"
    <3>6. how \in {"answered", "failed", "fault"} /\ Left(how, said)
      BY <3>1, <3>2, <3>3, <3>4
    <3> QED
      BY <3>3, <3>5, <3>6
  <2>2. CASE RequestRefused(t)
    <3>1. Left("failed", "input")
      BY <2>2 DEF RequestRefused, Fault
    <3> QED
      BY <2>2, <3>1 DEF RequestRefused, Same, SameServer, Asks, Enders
  <2>3. CASE Answered(t)
    <3>1. Left("failed", "empty") \/ Left("failed", "input") \/ Left("answered", "none")
      BY <2>3 DEF Answered, Fault
    <3> QED
      BY <1>0, <2>3, <3>1 DEF Answered, Same, SameServer, Enders
  <2>4. CASE NoUsage(t)
    <3>1. Left("answered", "none") \/ Left("fault", "unusable")
      BY <2>4 DEF NoUsage
    <3> QED
      BY <1>0, <2>4, <3>1 DEF NoUsage, Same, SameServer, Enders
  <2> QED
    BY <2>1, <2>2, <2>3, <2>4
<1>2. \/ Owed(t) = 0 /\ UNCHANGED <<jobTally, rowTally>>
      \/ Owed(t) = 1 /\ Count(r)
  <2>1. CASE Refused(t) \/ RequestRefused(t)
    BY <2>1 DEF Refused, RequestRefused, Asks, Owed
  <2>2. CASE Answered(t)
    BY <2>2 DEF Answered, Owed, Counted
  <2>3. CASE NoUsage(t)
    BY <2>3 DEF NoUsage, Owed, Counted
  <2> QED
    BY <2>1, <2>2, <2>3
<1>3. r \in Rows
  BY <1>1 DEF WTypeOK
<1>4. PICK how \in {"answered", "failed", "fault"}, said \in Enders : Left(how, said)
  BY <1>1
<1>5. /\ outcome' = [outcome EXCEPT ![r] = how] /\ why' = [why EXCEPT ![r] = said]
      /\ at' = [at EXCEPT ![t] = "none"] /\ tried' = [tried EXCEPT ![t] = 0] /\ reply' = [reply EXCEPT ![t] = "none"]
  BY <1>4 DEF Ends
<1>6. WTypeOK'
  <2>1. /\ at' \in [Threads -> Rows \cup {"none"}] /\ tried' \in [Threads -> 0..PaceTries]
        /\ outcome' \in [Rows -> {"todo", "open", "answered", "failed", "fault"}] /\ why' \in [Rows -> Enders]
        /\ reply' \in [Threads -> {"none"} \cup Sorts]
    BY <1>3, <1>5, WorkAssumption DEF WTypeOK
  <2>2. jobTally' \in Nat /\ rowTally' \in [Rows -> Nat]
    BY <1>2, <1>3 DEF WTypeOK, Count
  <2> QED
    BY <1>1, <2>1, <2>2 DEF WTypeOK
<1>7. JobHasAll'
  <2>1. CASE UNCHANGED <<jobTally, rowTally>>
    BY <2>1 DEF JobHasAll, Told
  <2> QED
    BY <1>2, <1>3, <2>1, OneMoreTold
<1>8. InHand'
  <2>1. \A x \in Threads : /\ at'[x] = IF x = t THEN "none" ELSE at[x]
                           /\ reply'[x] = IF x = t THEN "none" ELSE reply[x]
    BY <1>5 DEF WTypeOK
  <2>2. \A x \in Rows : outcome'[x] = IF x = r THEN how ELSE outcome[x]
    BY <1>5 DEF WTypeOK
  <2>3. \A x \in Rows : rowTally'[x] = rowTally[x] + (IF x = r THEN Owed(t) ELSE 0)
    BY <1>2, <1>3 DEF Count, WTypeOK
  <2>4. served[r] = rowTally[r] + Owed(t)
    BY <1>1 DEF InHand
  <2>5. \A u \in Threads : u # t => Owed(u)' = Owed(u)
    BY <1>1, <2>1 DEF Owed, Counted
  <2>6. ASSUME NEW u \in Threads
        PROVE  IF at'[u] = "none" THEN reply'[u] = "none"
               ELSE outcome'[at'[u]] = "open" /\ served'[at'[u]] = rowTally'[at'[u]] + Owed(u)'
    <3>1. CASE u = t
      BY <2>1, <3>1
    <3>2. CASE u # t /\ at[u] = "none"
      BY <2>1, <3>2 DEF InHand
    <3>3. CASE u # t /\ at[u] # "none"
      <4>1. at[u] # r /\ at[u] \in Rows /\ at'[u] = at[u]
        BY <1>1, <2>1, <3>3 DEF InHand, WTypeOK
      <4>2. rowTally'[at[u]] = rowTally[at[u]] /\ outcome'[at[u]] = outcome[at[u]]
        BY <2>2, <2>3, <4>1 DEF WTypeOK
      <4>3. outcome[at[u]] = "open" /\ served[at[u]] = rowTally[at[u]] + Owed(u)
        BY <3>3 DEF InHand
      <4> QED
        BY <1>1, <2>5, <3>3, <4>1, <4>2, <4>3
    <3> QED
      BY <3>1, <3>2, <3>3
  <2>7. \A u, v \in Threads : at'[u] = at'[v] /\ at'[u] # "none" => u = v
    BY <2>1 DEF InHand
  <2>8. \A x \in Rows : outcome'[x] # "open" => rowTally'[x] = served'[x]
    BY <1>1, <2>2, <2>3, <2>4 DEF InHand, WTypeOK
  <2> QED
    BY <2>6, <2>7, <2>8 DEF InHand
<1>9. FailedIsOfTheRow'
  BY <1>1, <1>3, <1>4, <1>5 DEF FailedIsOfTheRow, WTypeOK, Fault
<1>10. ThrottleIsMet'
  <2>1. \A x \in Threads : tried'[x] = IF x = t THEN 0 ELSE tried[x]
    BY <1>5 DEF WTypeOK
  <2>2. \A x \in Rows : why'[x] = IF x = r THEN said ELSE why[x]
    BY <1>5 DEF WTypeOK
  <2>3. said = "throttled" => turns # 0 /\ (turns = 1 /\ ~long => what = "score")
    BY <1>4, WorkAssumption DEF ThrottleIsMet, WTypeOK
  <2>4. lifts \in Nat /\ PaceTries \in Nat
    BY WorkAssumption DEF WTypeOK
  <2>5. turns = 1 /\ ~long /\ server = "throttled" => \A x \in Threads : tried'[x] + lifts <= PaceTries
    <3>1. ASSUME turns = 1, ~long, server = "throttled"
          PROVE  lifts <= PaceTries
      BY <2>4, <3>1 DEF ThrottleIsMet, WTypeOK
    <3> QED
      BY <2>1, <2>4, <3>1 DEF ThrottleIsMet
  <2> QED
    BY <1>1, <2>1, <2>2, <2>3, <2>5 DEF ThrottleIsMet
<1> QED
  BY <1>6, <1>7, <1>8, <1>9, <1>10

(* A call that begins, a reply that comes in, a wait: only what the rows and the threads have in hand. *)
LEMMA CallBegins ==
  ASSUME CallsInv, NEW t \in Threads, NEW r \in Rows, Calls(t, r)
  PROVE  CallsInv'
<1> USE DEF CallsInv
<1>1. UNCHANGED <<kind, what, input, server, turns, lifts, long, tried, reply, stopped, jobTally, rowTally, served>>
  BY DEF Calls, Same, SameServer
<1>2. at[t] = "none" /\ outcome[r] = "todo"
  BY DEF Calls
<1>3. /\ at' \in [Threads -> Rows \cup {"none"}]
      /\ outcome' \in [Rows -> {"todo", "open", "answered", "failed", "fault"}] /\ why' \in [Rows -> Enders]
  BY DEF Calls, WTypeOK, Enders
<1>4. \A x \in Rows : /\ why'[x] = why[x] \/ why'[x] = "input"
                      /\ outcome'[x] = "failed" => (outcome[x] = "failed" /\ why'[x] = why[x]) \/ why'[x] = "input"
  BY DEF Calls, WTypeOK
<1>5. WTypeOK'
  BY <1>1, <1>3 DEF WTypeOK
<1>6. JobHasAll'
  BY <1>1 DEF Told, JobHasAll
<1>7. ThrottleIsMet' /\ FailedIsOfTheRow'
  BY <1>1, <1>4 DEF ThrottleIsMet, FailedIsOfTheRow, Fault
<1>8. InHand'
  <2>1. \A u \in Threads : Owed(u)' = Owed(u)
    BY <1>1 DEF Owed, Counted
  <2>2. \A x \in Rows : outcome'[x] = outcome[x] \/ x = r
    BY DEF Calls, WTypeOK
  <2>3. \A u \in Threads : at[u] # "none" => at[u] # r /\ at[u] \in Rows
    BY <1>2 DEF InHand, WTypeOK
  <2>4. \/ at' = at
        \/ outcome'[r] = "open" /\ \A u \in Threads : at'[u] = IF u = t THEN r ELSE at[u]
    BY DEF Calls, WTypeOK
  <2>5. reply[t] = "none" /\ Owed(t) = 0 /\ served[r] = rowTally[r] /\ rowTally[r] \in Nat
    BY <1>2 DEF InHand, Owed, WTypeOK
  <2>6. ASSUME NEW u \in Threads
        PROVE  IF at'[u] = "none" THEN reply'[u] = "none"
               ELSE outcome'[at'[u]] = "open" /\ served'[at'[u]] = rowTally'[at'[u]] + Owed(u)'
    <3>1. CASE at'[u] = at[u]
      BY <1>1, <2>1, <2>2, <2>3, <3>1 DEF InHand
    <3>2. CASE at'[u] # at[u]
      BY <1>1, <2>1, <2>4, <2>5, <3>2
    <3> QED
      BY <3>1, <3>2
  <2>7. \A u, v \in Threads : at'[u] = at'[v] /\ at'[u] # "none" => u = v
    BY <2>3, <2>4 DEF InHand
  <2>8. \A x \in Rows : outcome'[x] # "open" => rowTally'[x] = served'[x]
    BY <1>1, <2>2, <2>5 DEF InHand
  <2> QED
    BY <2>6, <2>7, <2>8 DEF InHand
<1> QED
  BY <1>5, <1>6, <1>7, <1>8

LEMMA ReplyComes ==
  ASSUME CallsInv, NEW t \in Threads, Replied(t)
  PROVE  CallsInv'
<1> USE DEF CallsInv
<1>1. /\ UNCHANGED <<kind, what, input, server, turns, lifts, long, at, tried, outcome, stopped, jobTally, rowTally, why>>
      /\ at[t] # "none" /\ reply[t] = "none"
  BY DEF Replied, Same, SameServer, Asks
<1>2. PICK sort \in Sorts : /\ reply' = [reply EXCEPT ![t] = sort]
                            /\ served' = [served EXCEPT ![at[t]] = @ + (IF Counted(sort) THEN 1 ELSE 0)]
  BY DEF Replied
<1>3. at[t] \in Rows
  BY <1>1 DEF WTypeOK
<1>4. WTypeOK'
  <2>1. reply' \in [Threads -> {"none"} \cup Sorts] /\ served' \in [Rows -> Nat]
    BY <1>2, <1>3 DEF WTypeOK
  <2> QED
    BY <1>1, <2>1 DEF WTypeOK
<1>5. JobHasAll' /\ ThrottleIsMet' /\ FailedIsOfTheRow'
  BY <1>1 DEF Told, JobHasAll, ThrottleIsMet, FailedIsOfTheRow, Fault
<1>6. InHand'
  <2>1. \A u \in Threads : reply'[u] = IF u = t THEN sort ELSE reply[u]
    BY <1>2 DEF WTypeOK
  <2>2. \A x \in Rows : served'[x] = IF x = at[t] THEN served[x] + (IF Counted(sort) THEN 1 ELSE 0) ELSE served[x]
    BY <1>2 DEF WTypeOK
  <2>3. sort # "none" /\ Owed(t) = 0 /\ outcome[at[t]] = "open"
    BY <1>1 DEF Sorts, Owed, InHand
  <2>4. Owed(t)' = IF Counted(sort) THEN 1 ELSE 0
    BY <1>1, <2>1, <2>3 DEF Owed, Counted
  <2>5. \A u \in Threads : u # t => Owed(u)' = Owed(u)
    BY <1>1, <2>1 DEF Owed, Counted
  <2>6. ASSUME NEW u \in Threads
        PROVE  IF at'[u] = "none" THEN reply'[u] = "none"
               ELSE outcome'[at'[u]] = "open" /\ served'[at'[u]] = rowTally'[at'[u]] + Owed(u)'
    <3>1. CASE u = t
      <4>1. served[at[t]] = rowTally[at[t]] /\ rowTally[at[t]] \in Nat
        BY <1>1, <1>3, <2>3 DEF InHand, WTypeOK
      <4>2. served'[at[t]] = rowTally[at[t]] + (IF Counted(sort) THEN 1 ELSE 0)
        BY <1>3, <2>2, <4>1
      <4> QED
        BY <1>1, <2>3, <2>4, <3>1, <4>2
    <3>2. CASE u # t /\ at[u] = "none"
      BY <1>1, <2>1, <3>2 DEF InHand
    <3>3. CASE u # t /\ at[u] # "none"
      <4>1. at[u] # at[t] /\ at[u] \in Rows
        BY <3>3 DEF InHand, WTypeOK
      <4>2. served'[at[u]] = served[at[u]]
        BY <2>2, <4>1
      <4>3. outcome[at[u]] = "open" /\ served[at[u]] = rowTally[at[u]] + Owed(u)
        BY <3>3 DEF InHand
      <4> QED
        BY <1>1, <2>5, <3>3, <4>2, <4>3
    <3> QED
      BY <3>1, <3>2, <3>3
  <2>7. \A x \in Rows : outcome'[x] # "open" => rowTally'[x] = served'[x]
    BY <1>1, <2>2, <2>3 DEF InHand
  <2>8. \A u, v \in Threads : at'[u] = at'[v] /\ at'[u] # "none" => u = v
    BY <1>1 DEF InHand
  <2> QED
    BY <2>6, <2>7, <2>8 DEF InHand
<1> QED
  BY <1>4, <1>5, <1>6

LEMMA CallsNext == CallsInv /\ [WNext]_wvars => CallsInv'
<1> SUFFICES ASSUME CallsInv, [WNext]_wvars
             PROVE  CallsInv'
  OBVIOUS
<1>1. ASSUME NEW t \in Threads, Waits(t)
      PROVE  CallsInv'
  <2> USE <1>1 DEF CallsInv
  <2>1. /\ UNCHANGED <<kind, what, input, turns, long, at, reply, outcome, stopped, jobTally, rowTally, served, why>>
        /\ server = "throttled" /\ tried[t] < PaceTries /\ tried' = [tried EXCEPT ![t] = @ + 1]
        /\ lifts' = lifts - 1 /\ server' = IF lifts = 1 THEN "well" ELSE server
    BY DEF Waits, Paced, Same
  <2>2. lifts \in 1..PaceTries + 1 /\ lifts' \in 0..PaceTries + 1 /\ turns # 0
    BY <2>1, WorkAssumption DEF WTypeOK, ThrottleIsMet
  <2>3. tried' \in [Threads -> 0..PaceTries] /\ server' \in Conditions
    BY <2>1, WorkAssumption DEF WTypeOK, Conditions
  <2>4. WTypeOK'
    BY <2>1, <2>2, <2>3 DEF WTypeOK
  <2>5. JobHasAll' /\ InHand' /\ FailedIsOfTheRow'
    BY <2>1 DEF Told, JobHasAll, InHand, Owed, Counted, FailedIsOfTheRow, Fault
  <2>6. ThrottleIsMet'
    <3>1. server' = "throttled" => lifts' >= 1
      BY <2>1, <2>2, WorkAssumption
    <3>2. ASSUME turns = 1, ~long, NEW x \in Threads
          PROVE  tried'[x] + lifts' <= PaceTries
      <4>1. tried[x] + lifts <= PaceTries /\ tried[x] \in Nat /\ lifts \in Nat /\ lifts' \in Nat
        BY <2>1, <2>2, <3>2, WorkAssumption DEF ThrottleIsMet, WTypeOK
      <4>2. tried'[x] \in {tried[x], tried[x] + 1}
        BY <2>1 DEF WTypeOK
      <4> QED
        BY <2>1, <4>1, <4>2, WorkAssumption
    <3> QED
      BY <2>1, <2>2, <3>1, <3>2 DEF ThrottleIsMet
  <2> QED
    BY <2>4, <2>5, <2>6
<1>2. CASE ServerTurns
  <2> USE <1>2 DEF CallsInv
  <2>1. /\ UNCHANGED <<kind, what, input, at, tried, reply, outcome, stopped, jobTally, rowTally, served, why>>
        /\ turns < MaxTurns /\ turns' = turns + 1 /\ server = "well" /\ server' \in Refusing
        /\ lifts' \in IF server' = "throttled" THEN 1..PaceTries + 1 ELSE {0}
        /\ long' = (long \/ lifts' > PaceTries)
    BY DEF ServerTurns, Same
  <2>2. lifts' \in 0..PaceTries + 1 /\ turns' \in 0..MaxTurns /\ turns' # 0 /\ (turns' = 1 => turns = 0)
    BY <2>1, WorkAssumption DEF WTypeOK
  <2>3. WTypeOK'
    BY <2>1, <2>2 DEF WTypeOK, Conditions
  <2>4. JobHasAll' /\ InHand' /\ FailedIsOfTheRow'
    BY <2>1 DEF Told, JobHasAll, InHand, Owed, Counted, FailedIsOfTheRow, Fault
  <2>5. ThrottleIsMet'
    <3>1. server' = "throttled" => lifts' >= 1
      BY <2>1, WorkAssumption
    <3>2. turns' = 1 /\ ~long' => /\ \A x \in Threads : tried[x] + lifts' <= PaceTries
                                  /\ \A r \in Rows : why[r] # "throttled"
      <4>1. turns' = 1 => turns = 0 /\ \A x \in Threads : tried[x] = 0
        BY <2>2 DEF ThrottleIsMet
      <4>2. ~long' => lifts' <= PaceTries /\ lifts' \in Nat
        <5>1. lifts' > PaceTries => long'
          BY <2>1, Zenon
        <5>2. lifts' \in Nat /\ PaceTries \in Nat
          BY <2>2, WorkAssumption
        <5> QED
          BY <5>1, <5>2
      <4>3. ~long' => ~long
        BY <2>1, Zenon
      <4> QED
        BY <4>1, <4>2, <4>3 DEF ThrottleIsMet
    <3> QED
      BY <2>1, <2>2, <3>1, <3>2 DEF ThrottleIsMet
  <2> QED
    BY <2>3, <2>4, <2>5
<1>3. CASE Stops
  <2>1. UNCHANGED <<kind, what, input, server, turns, lifts, long, at, tried, reply, outcome, jobTally, rowTally, served, why>>
        /\ stopped' = TRUE
    BY <1>3 DEF Stops, Same, SameServer
  <2> QED
    BY <2>1 DEF CallsInv, WTypeOK, Told, JobHasAll, InHand, Owed, Counted, ThrottleIsMet, FailedIsOfTheRow, Fault
<1>4. CASE UNCHANGED wvars
  <2>1. UNCHANGED <<kind, what, input, server, turns, lifts, long, at, tried, reply, outcome, stopped, jobTally, rowTally, served, why>>
    BY <1>4 DEF wvars
  <2> QED
    BY <2>1 DEF CallsInv, WTypeOK, Told, JobHasAll, InHand, Owed, Counted, ThrottleIsMet, FailedIsOfTheRow, Fault
<1> QED
  BY <1>1, <1>2, <1>3, <1>4, CallBegins, CallEnds, ReplyComes DEF WNext

LEMMA CallsInductive == WorkSpec => []CallsInv
<1>1. WorkInit => CallsInv
  BY CallsInit DEF WorkInit
<1>2. [WorkNext]_workVars => [WNext]_wvars
  BY DEF WorkNext, workVars
<1> QED
  BY <1>1, <1>2, CallsNext, PTL DEF WorkSpec

(* llm.py: a row that has ended left no reply uncounted, and what llm.py:96 calls the run's fails no one row. *)
THEOREM EveryReplyIsCounted == WorkSpec => []CallsHold
<1>1. CallsInv => CallsHold
  BY DEF CallsInv, CallsHold, AnswersAreCounted, JobHasAll, InHand, RefusalIsTheRuns, FailedIsOfTheRow, ThrottleIsMet
<1> QED
  BY <1>1, CallsInductive, PTL

-----------------------------------------------------------------------------
(* Weights *)

Pulling == [at : {"idle", "hashed", "downloads", "downloaded", "asks"}, broken : SUBSET H!Blobs,
            asked : SUBSET H!Files, verdict : {"none", "ready", "failed"},
            seen : SUBSET H!Blobs, found : SUBSET H!Blobs, resumed : BOOLEAN]
Tagging == [base : {"none", "bare", "held"}, derived : {"none", "bare", "held"}, step : {"idle", "pulled", "held"}]
(* a tag is made from a base that holds the penalty by then; an old blob has no writer, so a sibling *)
(* writes the one taken for a leftover only where it took it up since *)
WeightsInv ==
  /\ H!HTypeOK /\ pull \in Pulling /\ tag \in Tagging
  /\ (tag.step = "held" => tag.base = "held") /\ H!TagHolds
  /\ \A f \in H!Blobs : blob[f] = "old" => writer[f] = "none"
  /\ pull.resumed \/ \A f \in pull.found : writer[f] # "sibling"

LEMMA WeightsInit == H!HInit => WeightsInv
  BY WorkAssumption DEF H!HInit, WeightsInv, H!HTypeOK, Pulling, Tagging, H!TagHolds, H!Idle

LEMMA WeightsNext == WeightsInv /\ [H!HNext]_(H!hvars) => WeightsInv'
<1> SUFFICES ASSUME WeightsInv, [H!HNext]_(H!hvars)
             PROVE  WeightsInv'
  OBVIOUS
<1>1. /\ H!HTypeOK /\ pull \in Pulling /\ tag \in Tagging
      /\ (tag.step = "held" => tag.base = "held") /\ tag.derived # "bare"
      /\ (\A f \in H!Blobs : blob[f] = "old" => writer[f] = "none")
      /\ (pull.resumed \/ \A f \in pull.found : writer[f] # "sibling")
  BY DEF WeightsInv, H!TagHolds
<1>2. ASSUME UNCHANGED tag, pulls' \in 0..MaxPulls, faults' \in 0..MaxFaults, serves' \in {"no", "yes", "silent"},
             blob' \in [H!Blobs -> {"none", "young", "old", "whole", "wrong"}], links' \subseteq H!Files,
             writer' \in [H!Blobs -> {"pull", "sibling", "none"}], pull' \in Pulling,
             \A f \in H!Blobs : blob'[f] = "old" => writer'[f] = "none",
             pull'.resumed \/ \A f \in pull'.found : writer'[f] # "sibling"
      PROVE  WeightsInv'
  BY <1>1, <1>2 DEF WeightsInv, H!HTypeOK, H!TagHolds, Pulling
<1>3. ASSUME UNCHANGED <<blob, links, writer, pull, serves>>, pulls' \in 0..MaxPulls, faults' \in 0..MaxFaults,
             tag' \in Tagging, tag'.step = "held" => tag'.base = "held", tag'.derived # "bare"
      PROVE  WeightsInv'
  BY <1>1, <1>3 DEF WeightsInv, H!HTypeOK, H!TagHolds, Tagging
<1>4. pulls < MaxPulls => pulls + 1 \in 0..MaxPulls
  BY <1>1, WorkAssumption DEF H!HTypeOK
<1>5. faults < MaxFaults => faults + 1 \in 0..MaxFaults
  BY <1>1, WorkAssumption DEF H!HTypeOK
<1> DEFINE BlobsOf == [H!Blobs -> {"none", "young", "old", "whole", "wrong"}]
           WritersOf == [H!Blobs -> {"pull", "sibling", "none"}]
<1>6. /\ blob \in BlobsOf /\ links \subseteq H!Files /\ writer \in WritersOf
      /\ pulls \in 0..MaxPulls /\ faults \in 0..MaxFaults /\ serves \in {"no", "yes", "silent"}
  BY <1>1 DEF H!HTypeOK
<1>7. H!WrongBytes \subseteq H!Blobs /\ H!Files \subseteq H!Blobs
      /\ \A v \in {"none", "ready", "failed"} :
           [H!Idle EXCEPT !.verdict = v] \in Pulling /\ [H!Idle EXCEPT !.verdict = v].found = {}
  BY DEF H!WrongBytes, H!Blobs, H!Idle, Pulling
<1>8. CASE H!Hashes \/ H!Drops \/ H!Downloaded \/ H!Cut
  <2>1. CASE H!Hashes
    <3>1. pull' \in Pulling /\ pull'.found = {}
      BY <1>1, <1>7, <2>1 DEF H!Hashes, Pulling, H!Idle
    <3> QED
      BY <1>1, <1>2, <1>4, <1>6, <2>1, <3>1 DEF H!Hashes, H!Others
  <2>2. CASE H!Drops
    <3>1. /\ pull' \in Pulling /\ blob' \in BlobsOf /\ pull'.found = pull.found /\ pull'.resumed = pull.resumed
          /\ \A f \in H!Blobs : blob'[f] = "old" => blob[f] = "old"
      BY <1>1, <1>6, <2>2 DEF H!Drops, Pulling
    <3> QED
      BY <1>1, <1>2, <1>6, <2>2, <3>1 DEF H!Drops, H!Others
  <2>3. CASE H!Downloaded
    <3>1. pull' \in Pulling /\ pull'.found = pull.found /\ pull'.resumed = pull.resumed
      BY <1>1, <2>3 DEF H!Downloaded, Pulling
    <3> QED
      BY <1>1, <1>2, <1>6, <2>3, <3>1 DEF H!Downloaded, H!Others
  <2>4. CASE H!Cut
    <3>1. /\ pull' \in Pulling /\ writer' \in WritersOf /\ pull'.found = {}
          /\ \A f \in H!Blobs : writer[f] = "none" => writer'[f] = "none"
      BY <1>6, <1>7, <2>4 DEF H!Cut
    <3> QED
      BY <1>1, <1>2, <1>5, <1>6, <2>4, <3>1 DEF H!Cut, H!Others
  <2> QED
    BY <1>8, <2>1, <2>2, <2>3, <2>4
<1>9. CASE H!Downloads \/ H!SiblingLoads
  <2>1. ASSUME NEW f \in H!Blobs, NEW who \in {"pull", "sibling"}, H!Begins(f, who) \/ H!Arrives(f, who)
        PROVE  /\ blob' \in BlobsOf /\ writer' \in WritersOf /\ links' \subseteq H!Files
               /\ \A g \in H!Blobs : blob'[g] = "old" => writer'[g] = "none"
               /\ \A g \in H!Blobs : writer'[g] = "sibling" => writer[g] = "sibling" \/ who = "sibling"
    BY <1>1, <1>6, <2>1 DEF H!Begins, H!Arrives
  <2>2. CASE H!Downloads
    <3>1. PICK f \in pull.asked : H!Begins(f, "pull") \/ H!Arrives(f, "pull")
      BY <2>2 DEF H!Downloads
    <3>2. f \in H!Blobs /\ pull.found \subseteq H!Blobs
      BY <1>1, <1>7 DEF Pulling
    <3>3. /\ blob' \in BlobsOf /\ writer' \in WritersOf /\ links' \subseteq H!Files
          /\ \A g \in H!Blobs : blob'[g] = "old" => writer'[g] = "none"
          /\ \A g \in H!Blobs : writer'[g] = "sibling" => writer[g] = "sibling"
      BY <2>1, <3>1, <3>2
    <3>4. pull' = pull /\ (pull'.resumed \/ \A g \in pull'.found : writer'[g] # "sibling")
      BY <1>1, <2>2, <3>2, <3>3 DEF H!Downloads
    <3> QED
      BY <1>1, <1>2, <1>6, <2>2, <3>3, <3>4 DEF H!Downloads, H!Others
  <2>3. CASE H!SiblingLoads
    <3>1. PICK f \in H!Blobs : H!Begins(f, "sibling") \/ H!Arrives(f, "sibling")
      BY <2>3 DEF H!SiblingLoads
    <3>2. /\ blob' \in BlobsOf /\ writer' \in WritersOf /\ links' \subseteq H!Files
          /\ \A g \in H!Blobs : blob'[g] = "old" => writer'[g] = "none"
      BY <2>1, <3>1
    <3> DEFINE taken == pull.resumed \/ \E g \in pull.found : writer'[g] = "sibling"
    <3>3. pull' = [pull EXCEPT !.resumed = taken]
      BY <2>3 DEF H!SiblingLoads
    <3>4. taken \in BOOLEAN
      BY <1>1 DEF Pulling
    <3>5. pull' \in Pulling /\ pull'.found = pull.found /\ pull'.resumed = taken
      <4> HIDE DEF taken
      <4> QED
        BY <1>1, <3>3, <3>4 DEF Pulling
    <3>6. pull'.resumed \/ \A g \in pull'.found : writer'[g] # "sibling"
      BY <3>5
    <3> QED
      BY <1>1, <1>2, <1>6, <2>3, <3>2, <3>5, <3>6 DEF H!SiblingLoads, H!Others
  <2> QED
    BY <1>9, <2>2, <2>3
<1>10. CASE (\E f \in H!Blobs : H!Looks(f)) \/ H!Unlinks \/ H!Checks \/ H!DeleteAsks \/ H!Deletes
  <2>1. ASSUME NEW f \in H!Blobs, H!Looks(f)
        PROVE  WeightsInv'
    <3>1. pull' \in Pulling
      BY <1>1, <2>1 DEF H!Looks, Pulling
    <3>2. \A g \in pull'.found : g = f /\ blob[f] = "old"
      BY <1>1, <2>1 DEF H!Looks, H!Orphaned, Pulling
    <3> QED
      BY <1>1, <1>2, <1>6, <2>1, <3>1, <3>2 DEF H!Looks, H!Others
  <2>2. CASE H!Unlinks
    <3>1. pull' \in Pulling /\ pull'.found = {}
      BY <1>1, <2>2 DEF H!Unlinks, Pulling
    <3>2. /\ blob' \in BlobsOf /\ writer' \in WritersOf
          /\ \A f \in H!Blobs : /\ blob'[f] = "old" => blob[f] = "old"
                                /\ writer[f] = "none" => writer'[f] = "none"
      BY <1>6, <2>2 DEF H!Unlinks
    <3> QED
      BY <1>1, <1>2, <1>6, <2>2, <3>1, <3>2 DEF H!Unlinks, H!Others
  <2>3. CASE H!Checks
    <3>1. pull' \in Pulling /\ pull'.found = {}
      BY <1>7, <2>3 DEF H!Checks
    <3> QED
      BY <1>1, <1>2, <1>6, <2>3, <3>1 DEF H!Checks, H!Others
  <2>4. CASE H!DeleteAsks
    <3>1. pull' \in Pulling /\ pull'.found = {}
      BY <2>4 DEF H!DeleteAsks, H!Idle, Pulling
    <3> QED
      BY <1>1, <1>2, <1>4, <1>6, <2>4, <3>1 DEF H!DeleteAsks, H!Others
  <2>5. CASE H!Deletes
    <3>1. pull' \in Pulling /\ pull'.found = {}
      BY <2>5 DEF H!Deletes, H!Idle, Pulling
    <3> QED
      BY <1>2, <1>6, <2>5, <3>1 DEF H!Deletes, H!Others
  <2> QED
    BY <1>10, <2>1, <2>2, <2>3, <2>4, <2>5
<1>11. CASE H!SiblingStops \/ H!Ages \/ H!Rots
  <2>0. pull.found \subseteq H!Blobs
    BY <1>1 DEF Pulling
  <2>1. CASE H!SiblingStops
    <3>1. /\ writer' \in WritersOf /\ \A f \in H!Blobs : writer'[f] # "sibling"
          /\ \A f \in H!Blobs : writer[f] = "none" => writer'[f] = "none"
      BY <1>6, <2>1 DEF H!SiblingStops
    <3> QED
      BY <1>1, <1>2, <1>5, <1>6, <2>0, <2>1, <3>1 DEF H!SiblingStops
  <2>2. CASE H!Ages
    <3>1. blob' \in BlobsOf /\ \A f \in H!Blobs : blob'[f] = "old" => writer'[f] = "none"
      BY <1>1, <1>6, <2>2 DEF H!Ages
    <3> QED
      BY <1>1, <1>2, <1>6, <2>2, <3>1 DEF H!Ages, H!Others
  <2>3. CASE H!Rots
    <3>1. blob' \in BlobsOf /\ \A f \in H!Blobs : blob'[f] = "old" => blob[f] = "old"
      <4>1. PICK f \in H!Files : blob' = [blob EXCEPT ![f] = "wrong"]
        BY <2>3 DEF H!Rots
      <4> QED
        BY <1>6, <4>1
    <3>2. pull' \in Pulling /\ pull'.found = pull.found /\ pull'.resumed = pull.resumed
      BY <1>1, <2>3 DEF H!Rots, Pulling
    <3> QED
      BY <1>1, <1>2, <1>5, <1>6, <2>3, <3>1, <3>2 DEF H!Rots, H!Others
  <2> QED
    BY <1>11, <2>1, <2>2, <2>3
<1>12. CASE H!PullsBase \/ H!HoldsPenalty \/ H!Derives \/ H!PullOfTagFails
  <2>1. tag' \in Tagging /\ (tag'.step = "held" => tag'.base = "held") /\ tag'.derived # "bare"
    BY <1>1, <1>12 DEF H!PullsBase, H!HoldsPenalty, H!Derives, H!MayDerive, H!PullOfTagFails, Tagging
  <2> QED
    BY <1>3, <1>4, <1>5, <1>6, <1>12, <2>1 DEF H!PullsBase, H!HoldsPenalty, H!Derives, H!PullOfTagFails, H!Cache
<1>13. CASE UNCHANGED H!hvars
  BY <1>1, <1>2, <1>6, <1>13 DEF H!hvars
<1> QED
  BY <1>8, <1>9, <1>10, <1>11, <1>12, <1>13 DEF H!HNext

(* engines/ollama.py: a windowed tag is made from a base that holds the penalty. *)
THEOREM TagHoldsThePenalty == WorkSpec => []TagHolds
<1>1. WorkInit => WeightsInv
  BY WeightsInit DEF WorkInit
<1>2. [WorkNext]_workVars => [H!HNext]_(H!hvars)
  BY DEF WorkNext, workVars, weights, H!hvars
<1>3. WeightsInv => TagHolds
  BY DEF WeightsInv, TagHolds
<1> QED
  BY <1>1, <1>2, <1>3, WeightsNext, PTL DEF WorkSpec

(* A set of numbers has a least one: the sets of the numbers below its members are ordered by inclusion. *)
LEMMA LeastIs ==
  ASSUME NEW D \in SUBSET Nat, D # {}
  PROVE  \E p \in D : \A q \in D : p <= q
<1> DEFINE Below(p) == {q \in D : q < p}
           Ups == {Below(p) : p \in D}
<1>1. \A p \in D : IsFiniteSet(Below(p))
  <2> SUFFICES ASSUME NEW p \in D
               PROVE  IsFiniteSet(Below(p))
    OBVIOUS
  <2> QED
    BY FS_BoundedSetOfNaturals, Below(p) \in SUBSET Nat, \A s \in Below(p) : s <= p
<1>2. Ups \subseteq FiniteSubsetsOf(D) /\ Ups # {}
  BY <1>1 DEF FiniteSubsetsOf
<1>3. PICK x \in Ups : \A y \in Ups : ~(<<y, x>> \in StrictSubsetOrdering(D))
  <2> HIDE DEF Ups
  <2> QED
    BY <1>2, WFMin, FS_StrictSubsetOrderingWellFounded
<1>4. PICK p \in D : x = Below(p)
  OBVIOUS
<1>5. ASSUME NEW q \in D, q < p
      PROVE  FALSE
  <2>3. (\A r \in D : r < q => r < p) /\ ~(q < q)
    BY <1>5
  <2>1. Below(q) \subseteq Below(p) /\ q \in Below(p) /\ q \notin Below(q)
    BY <1>5, <2>3, Zenon
  <2>2. <<Below(q), Below(p)>> \in StrictSubsetOrdering(D)
    BY <2>1 DEF StrictSubsetOrdering
  <2> QED
    BY <1>3, <1>4, <2>2
<1>6. \A q \in D : ~(q < p)
  BY <1>5
<1> HIDE DEF Ups, Below
<1> QED
  BY <1>6

-----------------------------------------------------------------------------
(* The conversion.  The record on disk is the attempt's own once an attempt *)
(* has written it, so what the record counts as read was read by attempts   *)
(* of one configuration; a piece in hand is one the record does not count.  *)

CRecords == [build : Nat, rules : Nat, sha : 0..2, chunks : [Parts -> C!Ways \cup {"none"}]]
(* what is on disk *)
OnDisk ==
  /\ record \in CRecords /\ (record.sha = 0 => \A p \in Parts : record.chunks[p] = "none")
  /\ \A p \in Parts : record.chunks[p] \in C!Whole => part[p] # C!None
(* a kept reading is of the rules of its key, and of a build between its key's and today's *)
Readings ==
  \A k \in cache : /\ k.got \in C!Reading /\ k.got.rules = k.key.rules
                   /\ k.key.build \in Nat /\ k.key.build <= k.got.build /\ k.got.build \in 1..build
(* the attempt under way: its record is the disk's, but for the configuration of a run never begun *)
UnderWay ==
  /\ status \in {"running", "cancelled"} /\ now.build \in 1..build /\ now.rules \in 1..rules
  /\ mine \in CRecords /\ mine.build = now.build /\ mine.rules = now.rules /\ mine.sha # 0
  /\ mine.chunks = record.chunks /\ (C!Begun(record) => record = mine)
PieceInHand ==
  /\ piece \in Parts /\ mine.chunks[piece] \notin C!Whole
  /\ key.rules = now.rules /\ key.build \in 1..build
ReadingInHand ==
  /\ got \in C!Reading /\ got.build \in 1..build /\ got.rules = now.rules
  /\ (piece \notin shifted => got.build = now.build)
ConversionInv ==
  /\ C!CTypeOK /\ build <= moved + 1 /\ rules <= moved + 1
  /\ OnDisk /\ Readings /\ C!KeptIsOfRecord /\ C!DoneIsWhole
  /\ (place = "idle" => mine = C!NoRecord)
  /\ (place # "idle" => UnderWay)
  /\ (place \in {"card", "read", "written"} => PieceInHand)
  /\ (place \in {"read", "written"} => ReadingInHand)
  /\ (place = "written" /\ got.status \in C!Whole => part[piece] = got)

LEMMA ConversionInit == C!CInit => ConversionInv
<1> SUFFICES ASSUME C!CInit
             PROVE  ConversionInv
  OBVIOUS
<1>1. /\ MaxMoved \in Nat /\ MaxRuns \in Nat /\ MaxRuns >= 1 /\ MaxStops \in Nat
  BY WorkAssumption
<1>2. C!None \in C!Reading
  BY <1>1 DEF C!None, C!Reading
<1>3. C!NoRecord \in CRecords /\ C!NoRecord.sha = 0 /\ \A p \in Parts : C!NoRecord.chunks[p] = "none"
  BY DEF C!NoRecord, CRecords
<1>4. C!CTypeOK /\ build <= moved + 1 /\ rules <= moved + 1
  BY <1>1, <1>2, <1>3 DEF C!CInit, C!CTypeOK, CRecords
<1>5. OnDisk /\ Readings
  BY <1>3 DEF C!CInit, OnDisk, Readings, C!Whole
<1>6. C!KeptIsOfRecord /\ C!DoneIsWhole
  BY <1>3 DEF C!CInit, C!KeptIsOfRecord, C!DoneIsWhole, C!Kept, C!Whole
<1> QED
  BY <1>4, <1>5, <1>6 DEF C!CInit, ConversionInv

(* the least piece left is a piece left *)
LEMMA FirstIsToDo == C!ToDo # {} => C!First \in C!ToDo
<1> SUFFICES ASSUME C!ToDo # {}
             PROVE  C!First \in C!ToDo
  OBVIOUS
<1>1. C!ToDo \in SUBSET Nat
  BY WorkAssumption DEF C!ToDo
<1>2. \E p \in C!ToDo : \A q \in C!ToDo : p <= q
  BY <1>1, LeastIs
<1> QED
  BY <1>2 DEF C!First

(* a piece counted as read stays as it is through a step *)
Stays == \A p \in Parts : C!Kept(record, p) => part'[p] = part[p] /\ part'[p] # C!None /\ record'.chunks[p] \in C!Whole

LEMMA ConversionNext == ConversionInv /\ [C!CNext]_(C!cvars) => ConversionInv' /\ Stays
<1> SUFFICES ASSUME ConversionInv, [C!CNext]_(C!cvars)
             PROVE  ConversionInv' /\ Stays
  OBVIOUS
<1>1. MaxMoved \in Nat /\ MaxRuns \in Nat /\ MaxStops \in Nat
  BY WorkAssumption
<1>2. /\ C!CTypeOK /\ build <= moved + 1 /\ rules <= moved + 1
      /\ OnDisk /\ Readings /\ C!KeptIsOfRecord /\ C!DoneIsWhole
  BY DEF ConversionInv
<1>3. /\ (place = "idle" => mine = C!NoRecord) /\ (place # "idle" => UnderWay)
      /\ (place \in {"card", "read", "written"} => PieceInHand)
      /\ (place \in {"read", "written"} => ReadingInHand)
      /\ (place = "written" /\ got.status \in C!Whole => part[piece] = got)
  BY DEF ConversionInv
<1>4. C!NoRecord \in CRecords
  BY DEF C!NoRecord, CRecords
<1>5. /\ build \in Nat \ {0} /\ rules \in Nat \ {0} /\ moved \in 0..MaxMoved
      /\ source \in 1..2 /\ record \in CRecords /\ part \in [Parts -> C!Reading]
      /\ target \in [Parts -> C!Reading] /\ shifted \subseteq Parts /\ bad \subseteq Parts
  BY <1>1, <1>2 DEF C!CTypeOK, OnDisk
<1>6. ASSUME record' = record, part' = part
      PROVE  OnDisk' /\ Stays
  BY <1>2, <1>6 DEF OnDisk, Stays, C!Kept
<1>7. ASSUME record' = record, part' = part, shifted' = shifted
      PROVE  C!KeptIsOfRecord'
  BY <1>2, <1>7 DEF C!KeptIsOfRecord, C!Kept
<1>8. ASSUME record' = record, part' = part, target' = target, status' = "done" => status = "done"
      PROVE  C!DoneIsWhole'
  BY <1>2, <1>8 DEF C!DoneIsWhole, C!Kept
<1>9. ASSUME cache' = cache, build' = build
      PROVE  Readings'
  BY <1>2, <1>9 DEF Readings
<1>10. ASSUME C!Idles
       PROVE  mine' = C!NoRecord /\ place' = "idle" /\ bad' = {}
  BY <1>10 DEF C!Idles
<1>11. CASE C!Begins
  <2>1. CASE C!AnotherConfiguration(record)
    <3>1. C!CTypeOK'
      BY <1>2, <1>11, <2>1 DEF C!Begins, C!CTypeOK, C!world, C!disk, C!attempt
    <3> QED
      BY <1>2, <1>3, <1>6, <1>7, <1>8, <1>9, <1>11, <2>1, <3>1
      DEF C!Begins, C!world, C!disk, C!attempt, ConversionInv, UnderWay
  <2>2. CASE ~C!AnotherConfiguration(record)
    <3>1. mine' \in CRecords /\ mine'.build = build /\ mine'.rules = rules /\ mine'.sha # 0
          /\ mine'.chunks = record.chunks /\ (C!Begun(record) => record = mine')
      <4>1. mine' = [record EXCEPT !.build = build, !.rules = rules, !.sha = IF @ = 0 THEN source ELSE @]
        BY <1>11, <2>2 DEF C!Begins
      <4>2. C!Begun(record) => record.build = build /\ record.rules = rules /\ record.sha # 0
        BY <2>2 DEF C!AnotherConfiguration, C!Begun
      <4>3. /\ mine' \in CRecords /\ mine'.build = build /\ mine'.rules = rules
            /\ mine'.chunks = record.chunks /\ mine'.sha = IF record.sha = 0 THEN source ELSE record.sha
        <5>1. /\ mine'.build = build /\ mine'.rules = rules /\ mine'.chunks = record.chunks
              /\ mine'.sha = IF record.sha = 0 THEN source ELSE record.sha
          BY <1>5, <4>1 DEF CRecords
        <5>2. mine' = [build |-> build, rules |-> rules, sha |-> mine'.sha, chunks |-> record.chunks]
          BY <1>5, <4>1 DEF CRecords
        <5>3. mine'.sha \in 0..2 /\ record.chunks \in [Parts -> C!Ways \cup {"none"}]
          BY <1>5, <5>1 DEF CRecords
        <5> QED
          BY <1>5, <5>1, <5>2, <5>3 DEF CRecords
      <4>4. C!Begun(record) => record = mine'
        BY <1>5, <4>2, <4>3 DEF CRecords, C!Begun
      <4> QED
        BY <1>5, <4>3, <4>4
    <3>2. now'.build = build /\ now'.rules = rules
      BY <1>11, <2>2 DEF C!Begins, C!None
    <3>3. UnderWay'
      BY <1>5, <1>11, <2>2, <3>1, <3>2 DEF C!Begins, UnderWay, C!world, C!disk, C!Begun
    <3>4. C!CTypeOK'
      BY <1>2, <1>11, <2>2, <3>1 DEF C!Begins, C!CTypeOK, C!world, C!disk, CRecords
    <3> QED
      BY <1>2, <1>6, <1>7, <1>8, <1>9, <1>11, <2>2, <3>3, <3>4 DEF C!Begins, C!world, C!disk, ConversionInv
  <2> QED
    BY <2>1, <2>2
<1>12. CASE C!Stops
  <2>1. UnderWay /\ record' = mine /\ part' = part /\ shifted' = shifted /\ status' = "cancelled"
    BY <1>3, <1>12 DEF C!Stops, C!asks
  <2>2. OnDisk' /\ Stays
    BY <1>2, <2>1 DEF OnDisk, Stays, UnderWay, C!Kept, C!Begun, CRecords
  <2>3. C!KeptIsOfRecord'
    BY <1>2, <2>1 DEF OnDisk, C!KeptIsOfRecord, UnderWay, C!Kept, C!Begun, C!Whole
  <2>4. C!CTypeOK'
    BY <1>2, <1>4, <1>10, <1>12, <2>1 DEF C!Stops, C!CTypeOK, C!world, UnderWay, C!asks, CRecords
  <2> QED
    BY <1>2, <1>9, <1>10, <1>12, <2>1, <2>2, <2>3, <2>4 DEF C!Stops, C!world, C!DoneIsWhole, ConversionInv
<1>13. CASE C!Looks
  <2>1. UnderWay /\ place = "pieces" /\ C!First \in C!ToDo /\ piece' = C!First
    BY <1>3, <1>13, FirstIsToDo DEF C!Looks
  <2>2. piece' \in Parts /\ mine.chunks[piece'] \notin C!Whole
    BY <1>2, <2>1 DEF C!ToDo, C!Kept, UnderWay, OnDisk
  <2>3. /\ cache' = cache /\ build' = build /\ rules' = rules /\ moved' = moved /\ source' = source
        /\ record' = record /\ part' = part /\ target' = target /\ status' = status
        /\ mine' = mine /\ now' = now
    BY <1>13 DEF C!Looks, C!world, C!asks, C!disk
  <2>4. /\ key' = [build |-> build, rules |-> now.rules, source |-> source, piece |-> C!First]
        /\ place' \in {"card", "read"}
    BY <1>13 DEF C!Looks
  <2>5. UnderWay' /\ PieceInHand'
    BY <1>5, <2>1, <2>2, <2>3, <2>4 DEF UnderWay, PieceInHand, C!Begun
  <2>6. shifted' \subseteq Parts /\ \A p \in Parts : p # piece' => (p \in shifted <=> p \in shifted')
    BY <1>5, <1>13, <2>1, <2>2 DEF C!Looks, C!Shifts
  <2>7. place' = "read" => ReadingInHand'
    <3> SUFFICES ASSUME place' = "read"
                 PROVE  ReadingInHand'
      OBVIOUS
    <3>1. /\ \E k \in cache : k.key = key'
          /\ got' = (CHOOSE k \in cache : k.key = key').got /\ C!Shifts(C!First)
      BY <1>13 DEF C!Looks
    <3>2. PICK k \in cache : k.key = key' /\ got' = k.got
      BY <3>1
    <3>3. /\ got' \in C!Reading /\ got'.rules = now.rules /\ got'.build = build
      BY <1>2, <1>5, <2>4, <3>2 DEF Readings
    <3>4. piece' \notin shifted' => build = now.build
      BY <2>1, <3>1 DEF C!Shifts
    <3> QED
      BY <1>5, <2>3, <3>3, <3>4 DEF ReadingInHand
  <2>8. C!CTypeOK'
    BY <1>2, <1>13, <2>3, <2>4, <2>6 DEF C!Looks, C!CTypeOK, C!world, C!asks, C!disk
  <2>9. C!KeptIsOfRecord'
    <3>1. ~C!Kept(record, piece')
      BY <2>1, <2>2 DEF UnderWay, C!Kept
    <3> QED
      BY <1>2, <2>3, <2>6, <3>1 DEF C!KeptIsOfRecord, C!Kept
  <2> QED
    BY <1>2, <1>6, <1>8, <1>9, <2>3, <2>4, <2>5, <2>7, <2>8, <2>9 DEF ConversionInv
<1>14. CASE C!Reads
  <2>1. UnderWay /\ PieceInHand /\ place = "card" /\ place' = "read"
    BY <1>3, <1>14 DEF C!Reads
  <2>2. /\ build' = build /\ rules' = rules /\ moved' = moved /\ source' = source
        /\ record' = record /\ part' = part /\ target' = target /\ status' = status
        /\ mine' = mine /\ now' = now /\ piece' = piece /\ key' = key /\ bad' = bad
    BY <1>14 DEF C!Reads, C!world, C!asks, C!disk
  <2>3. PICK w \in C!Ways :
          /\ got' = [build |-> build, rules |-> now.rules, source |-> source, status |-> w]
          /\ cache' = IF w = "success" THEN cache \cup {[key |-> key, got |-> got']} ELSE cache
    BY <1>14 DEF C!Reads
  <2>4. got' \in C!Reading
    <3>1. {build, now.rules} \subseteq 0..MaxMoved + 1 /\ source \in 0..2
      BY <1>1, <1>2, <1>5, <2>1 DEF C!CTypeOK, UnderWay
    <3> QED
      BY <2>3, <3>1 DEF C!Reading
  <2>5. /\ shifted' \subseteq Parts /\ (piece \notin shifted' => build = now.build)
        /\ \A p \in Parts : p # piece => (p \in shifted <=> p \in shifted')
    BY <1>5, <1>14, <2>1 DEF C!Reads, C!Shifts, PieceInHand
  <2>6. UnderWay' /\ PieceInHand' /\ ReadingInHand'
    BY <1>5, <2>1, <2>2, <2>3, <2>4, <2>5 DEF UnderWay, PieceInHand, ReadingInHand, C!Begun
  <2>7. Readings'
    <3>1. ASSUME NEW k \in cache', k \notin cache
          PROVE  k.got = got' /\ k.key = key
      BY <2>3, <3>1
    <3>2. key.build \in 1..build /\ key.rules = now.rules
      BY <2>1 DEF PieceInHand
    <3> QED
      BY <1>2, <1>5, <2>2, <2>3, <2>4, <3>1, <3>2 DEF Readings
  <2>8. C!CTypeOK'
    <3>1. \A k \in cache' : k.got \in C!Reading
      BY <2>7 DEF Readings
    <3> QED
      BY <1>2, <1>14, <2>1, <2>2, <2>5, <3>1 DEF C!Reads, C!CTypeOK, C!world, C!asks, C!disk
  <2>9. C!KeptIsOfRecord'
    <3>1. ~C!Kept(record, piece)
      BY <2>1 DEF UnderWay, PieceInHand, C!Kept
    <3> QED
      BY <1>2, <2>2, <2>5, <3>1 DEF C!KeptIsOfRecord, C!Kept
  <2> QED
    BY <1>2, <1>6, <1>8, <2>1, <2>2, <2>6, <2>7, <2>8, <2>9 DEF ConversionInv
<1>15. CASE C!WritesPart
  <2>1. UnderWay /\ PieceInHand /\ ReadingInHand /\ place = "read" /\ place' = "written"
    BY <1>3, <1>15 DEF C!WritesPart
  <2>2. /\ build' = build /\ rules' = rules /\ moved' = moved /\ cache' = cache /\ shifted' = shifted
        /\ record' = record /\ target' = target /\ status' = status /\ mine' = mine
        /\ now' = now /\ piece' = piece /\ key' = key /\ got' = got
        /\ part' = IF got.status \in C!Whole \/ arm = "intake" THEN [part EXCEPT ![piece] = got] ELSE part
    BY <1>15 DEF C!WritesPart, C!world, C!asks
  <2>3. /\ part' \in [Parts -> C!Reading] /\ (got.status \in C!Whole => part'[piece] = got)
        /\ (part'[piece] = part[piece] \/ part'[piece] = got)
        /\ \A p \in Parts : p # piece => part'[p] = part[p]
    BY <1>5, <2>1, <2>2 DEF PieceInHand, ReadingInHand
  <2>4. record.chunks[piece] \notin C!Whole /\ piece \in Parts
    BY <2>1 DEF UnderWay, PieceInHand
  <2>5. got # C!None
    BY <2>1 DEF ReadingInHand, C!None
  <2>6. OnDisk' /\ Stays
    BY <1>2, <2>2, <2>3, <2>4 DEF OnDisk, Stays, C!Kept
  <2>7. C!KeptIsOfRecord'
    BY <1>2, <2>2, <2>3, <2>4 DEF C!KeptIsOfRecord, C!Kept
  <2>8. C!DoneIsWhole'
    BY <2>1, <2>2 DEF C!DoneIsWhole, UnderWay
  <2>9. C!CTypeOK'
    BY <1>2, <1>15, <2>1, <2>2, <2>3 DEF C!WritesPart, C!CTypeOK, C!world, C!asks
  <2>10. UnderWay' /\ PieceInHand' /\ ReadingInHand'
    BY <2>1, <2>2 DEF UnderWay, PieceInHand, ReadingInHand, C!Begun
  <2> QED
    BY <1>2, <1>9, <2>1, <2>2, <2>3, <2>6, <2>7, <2>8, <2>9, <2>10 DEF ConversionInv
<1>16. CASE C!Records
  <2>1. UnderWay /\ PieceInHand /\ ReadingInHand /\ place = "written" /\ place' = "pieces"
        /\ (got.status \in C!Whole => part[piece] = got)
    BY <1>3, <1>16 DEF C!Records
  <2>2. /\ build' = build /\ rules' = rules /\ moved' = moved /\ cache' = cache /\ shifted' = shifted
        /\ part' = part /\ target' = target /\ status' = status /\ now' = now
        /\ mine' = [mine EXCEPT !.chunks[piece] = got.status] /\ record' = mine'
    BY <1>16 DEF C!Records, C!world, C!asks
  <2>3. got.status \in C!Ways \cup {"none"} /\ got # C!None /\ mine \in CRecords /\ piece \in Parts
    BY <2>1 DEF ReadingInHand, C!Reading, C!None, UnderWay, PieceInHand
  <2>4. /\ mine' \in CRecords /\ mine'.build = mine.build /\ mine'.rules = mine.rules /\ mine'.sha = mine.sha
        /\ mine'.chunks[piece] = got.status /\ \A p \in Parts : p # piece => mine'.chunks[p] = mine.chunks[p]
    BY <2>2, <2>3 DEF CRecords
  <2>5. record.chunks[piece] \notin C!Whole /\ mine.sha # 0
        /\ \A p \in Parts : p # piece => record'.chunks[p] = record.chunks[p]
    BY <2>1, <2>2, <2>4 DEF UnderWay, PieceInHand
  <2>6. OnDisk'
    BY <1>2, <2>1, <2>2, <2>3, <2>4, <2>5 DEF OnDisk
  <2>7. Stays
    BY <1>2, <2>2, <2>5 DEF Stays, C!Kept, OnDisk
  <2>8. C!KeptIsOfRecord'
    <3> SUFFICES ASSUME NEW p \in Parts, C!Kept(record, p)', p \notin shifted'
                 PROVE  part'[p].build = record'.build /\ part'[p].rules = record'.rules
      BY DEF C!KeptIsOfRecord
    <3>1. CASE p = piece
      <4>1. got.build = now.build /\ got.rules = now.rules /\ part'[p] = got
        BY <2>1, <2>2, <2>4, <3>1 DEF ReadingInHand, C!Kept
      <4> QED
        BY <2>1, <2>2, <2>4, <4>1 DEF UnderWay
    <3>2. CASE p # piece
      <4>1. C!Kept(record, p) /\ p \notin shifted
        BY <2>2, <2>5, <3>2 DEF C!Kept
      <4>2. record.sha # 0
        BY <1>2, <4>1 DEF OnDisk, C!Kept, C!Whole
      <4>3. record = mine
        BY <2>1, <4>2 DEF UnderWay, C!Begun
      <4> QED
        BY <1>2, <2>2, <2>4, <4>1, <4>3 DEF C!KeptIsOfRecord
    <3> QED
      BY <3>1, <3>2
  <2>9. C!DoneIsWhole'
    BY <2>1, <2>2 DEF C!DoneIsWhole, UnderWay
  <2>10. C!CTypeOK'
    <3>1. bad' \subseteq Parts
      BY <1>5, <1>16, <2>3 DEF C!Records
    <3>2. {record'.chunks, mine'.chunks} \subseteq [Parts -> C!Ways \cup {"none"}]
      BY <2>2, <2>4 DEF CRecords
    <3>3. UNCHANGED <<arm, build, rules, source, moved, status, runs, stopsLeft, part, target, cache, shifted>>
      BY <1>16 DEF C!Records, C!world, C!asks
    <3> QED
      BY <1>2, <2>1, <3>1, <3>2, <3>3 DEF C!CTypeOK
  <2>11. UnderWay'
    BY <2>1, <2>2, <2>4 DEF UnderWay
  <2> QED
    BY <1>2, <1>9, <2>1, <2>2, <2>6, <2>7, <2>8, <2>9, <2>10, <2>11 DEF ConversionInv
<1>17. CASE C!Ends
  <2>1. UnderWay /\ place = "pieces" /\ C!ToDo = {}
    BY <1>3, <1>17 DEF C!Ends
  <2>2. /\ build' = build /\ rules' = rules /\ moved' = moved /\ cache' = cache /\ shifted' = shifted
        /\ part' = part /\ record' = mine /\ C!Idles
        /\ target' = IF C!Joinable THEN part ELSE target
        /\ status' = IF status = "cancelled" THEN status ELSE IF bad # {} THEN "error" ELSE "done"
    BY <1>17 DEF C!Ends, C!world
  <2>3. OnDisk' /\ Stays
    BY <1>2, <2>1, <2>2 DEF OnDisk, Stays, UnderWay, C!Kept, C!Begun, CRecords
  <2>4. C!KeptIsOfRecord'
    BY <1>2, <2>1, <2>2 DEF OnDisk, C!KeptIsOfRecord, UnderWay, C!Kept, C!Begun, C!Whole
  <2>5. C!DoneIsWhole'
    <3> SUFFICES ASSUME status' = "done"
                 PROVE  \A p \in Parts : C!Kept(record, p)' /\ target'[p] = part'[p]
      BY DEF C!DoneIsWhole
    <3>1. bad = {}
      BY <2>1, <2>2 DEF UnderWay
    <3>2. \A p \in Parts : C!Kept(mine, p)
      BY <2>1, <3>1 DEF C!ToDo
    <3>3. C!Joinable
      BY <3>2 DEF C!Kept, C!Joinable
    <3> QED
      BY <2>2, <3>2, <3>3 DEF C!Kept
  <2>6. C!CTypeOK'
    <3>1. target' \in [Parts -> C!Reading] /\ mine.chunks \in [Parts -> C!Ways \cup {"none"}]
      BY <1>5, <2>1, <2>2 DEF UnderWay, CRecords
    <3> QED
      BY <1>2, <1>4, <1>10, <1>17, <2>1, <2>2, <3>1 DEF C!Ends, C!CTypeOK, C!world, CRecords, UnderWay
  <2> QED
    BY <1>2, <1>9, <1>10, <2>2, <2>3, <2>4, <2>5, <2>6 DEF ConversionInv
<1>18. CASE C!Raises \/ C!Dies
  <2>1. UnderWay
    BY <1>3, <1>18 DEF C!Raises, C!Dies
  <2>2. /\ C!Idles /\ cache' = cache /\ shifted' = shifted /\ build' = build /\ rules' = rules /\ moved' = moved
        /\ record' = record /\ part' = part /\ target' = target
        /\ status' \in {"new", "cancelled"}
    BY <1>18 DEF C!Raises, C!Dies, C!world, C!disk
  <2>3. C!CTypeOK'
    BY <1>1, <1>2, <1>4, <1>10, <1>18, <2>2 DEF C!Raises, C!Dies, C!CTypeOK, C!world, C!disk, CRecords
  <2> QED
    BY <1>2, <1>6, <1>7, <1>8, <1>9, <1>10, <2>2, <2>3 DEF ConversionInv
<1>19. CASE C!AsksAgain \/ C!Cancels
  <2>1. C!CTypeOK'
    BY <1>1, <1>2, <1>19 DEF C!AsksAgain, C!Cancels, C!CTypeOK, C!world, C!disk, C!attempt
  <2>2. /\ cache' = cache /\ shifted' = shifted /\ build' = build /\ rules' = rules /\ moved' = moved
        /\ record' = record /\ part' = part /\ target' = target /\ status' # "done"
        /\ place' = place /\ mine' = mine /\ now' = now /\ piece' = piece /\ key' = key /\ got' = got
    BY <1>19 DEF C!AsksAgain, C!Cancels, C!world, C!disk, C!attempt
  <2>3. place # "idle" => UnderWay'
    BY <1>3, <1>19, <2>2 DEF C!AsksAgain, C!Cancels, UnderWay, C!Begun
  <2> QED
    BY <1>2, <1>3, <1>6, <1>7, <1>8, <1>9, <2>1, <2>2, <2>3
    DEF ConversionInv, PieceInHand, ReadingInHand
<1>20. CASE C!Moves
  <2>1. /\ cache' = cache /\ shifted' = shifted /\ moved' = moved + 1 /\ moved < MaxMoved
        /\ record' = record /\ part' = part /\ target' = target /\ status' = status
        /\ place' = place /\ mine' = mine /\ now' = now /\ piece' = piece /\ key' = key /\ got' = got
    BY <1>20 DEF C!Moves, C!asks, C!disk, C!attempt
  <2>2. build' \in build..build + 1 /\ rules' \in rules..rules + 1 /\ source' \in 1..2
    BY <1>5, <1>20 DEF C!Moves
  <2>3. C!CTypeOK' /\ build' <= moved' + 1 /\ rules' <= moved' + 1
    BY <1>1, <1>2, <1>5, <1>20, <2>1, <2>2 DEF C!Moves, C!CTypeOK, C!asks, C!disk, C!attempt
  <2>4. Readings'
    BY <1>2, <1>5, <2>1, <2>2 DEF Readings
  <2>5. /\ (place # "idle" => UnderWay') /\ (place \in {"card", "read", "written"} => PieceInHand')
        /\ (place \in {"read", "written"} => ReadingInHand')
    BY <1>3, <1>5, <2>1, <2>2 DEF UnderWay, C!Begun, PieceInHand, ReadingInHand
  <2> QED
    BY <1>2, <1>3, <1>6, <1>7, <1>8, <2>1, <2>3, <2>4, <2>5 DEF ConversionInv
<1>21. CASE UNCHANGED C!cvars
  <2>1. /\ UNCHANGED <<cache, shifted, build, rules, moved, source, arm, record, part, target>>
        /\ UNCHANGED <<status, runs, stopsLeft, place, mine, now, piece, key, got, bad>>
    BY <1>21 DEF C!cvars, C!world, C!asks, C!disk, C!attempt
  <2>2. C!CTypeOK'
    BY <1>2, <2>1 DEF C!CTypeOK
  <2>3. (place # "idle" => UnderWay')
    BY <1>3, <2>1 DEF UnderWay, C!Begun
  <2> QED
    BY <1>2, <1>3, <1>6, <1>7, <1>8, <1>9, <2>1, <2>2, <2>3 DEF ConversionInv, PieceInHand, ReadingInHand
<1> QED
  BY <1>11, <1>12, <1>13, <1>14, <1>15, <1>16, <1>17, <1>18, <1>19, <1>20, <1>21 DEF C!CNext


(* convert.py: a piece counted as read is of the configuration the record states, and a job that *)
(* ends done joined pieces that are all read.                                                     *)
THEOREM KeptPiecesAreOfTheRecord == WorkSpec => []ConversionHolds
<1>1. WorkInit => ConversionInv
  BY ConversionInit DEF WorkInit
<1>2. [WorkNext]_workVars => [C!CNext]_(C!cvars)
  BY DEF WorkNext, workVars, conversion, C!cvars, C!world, C!asks, C!disk, C!attempt
<1>3. ConversionInv => ConversionHolds
  BY DEF ConversionInv, ConversionHolds
<1> QED
  BY <1>1, <1>2, <1>3, ConversionNext, PTL DEF WorkSpec

-----------------------------------------------------------------------------
(* The copies.  A set of holders has a keeper: the most trusted of them, of *)
(* those the freshest, and of those the last by name.                       *)

CopiesInv ==
  /\ chunks \in [Sources -> SUBSET Bodies] /\ texts \in [Sources -> SUBSET Bodies]
  /\ run \in [Sources -> 1..MaxEdits + 1] /\ cutOf \in [Sources -> 0..MaxEdits + 1] /\ DOMAIN keptBy = Sources
  /\ edits \in 0..MaxEdits /\ (\A s \in Sources : cutOf[s] <= run[s] /\ run[s] <= edits + 1)
  /\ index.names \subseteq Sources /\ index.left \subseteq index.names
  /\ index = [asked |-> index.asked, names |-> index.names, left |-> index.left, step |-> index.step]
  /\ O!GapIsTold

LEMMA SameCardinality == \A S : O!Cardinality(S) = Cardinality(S)
  BY Zenon DEF O!Cardinality, Cardinality, O!IsFiniteSet, IsFiniteSet

LEMMA NamesAreOrdered ==
  /\ O!Order \in [Sources -> Nat] /\ (\A s \in Sources : O!Order[s] <= Cardinality(Sources))
  /\ \A a, b \in Sources : a # b => O!Order[a] # O!Order[b]
<1>1. IsFiniteSet(Sources)
  BY WorkAssumption
<1>2. PICK g : g \in Bijection(Sources, 1..Cardinality(Sources))
  BY <1>1, FS_CardinalityType, Fun_ExistsBijSymmetric, Fun_ExistsBij
<1>3. g \in [Sources -> 1..Cardinality(Sources)] /\ \A a, b \in Sources : a # b => g[a] # g[b]
  BY <1>2 DEF Bijection, Injection, IsInjective
<1>4. Cardinality(Sources) \in Nat
  BY <1>1, FS_CardinalityType
<1>5. O!Order \in [Sources -> 1..Cardinality(Sources)] /\ \A a, b \in Sources : a # b => O!Order[a] # O!Order[b]
  BY <1>3, SameCardinality, Zenon DEF O!Order
<1> QED
  BY <1>4, <1>5

(* of a set measured by numbers, a member of the greatest measure *)
LEMMA GreatestIs ==
  ASSUME NEW D, D # {}, NEW m, \A s \in D : m[s] \in Nat, NEW n \in Nat, \A s \in D : m[s] <= n
  PROVE  \E s \in D : \A o \in D : m[o] <= m[s]
<1>1. {n - m[s] : s \in D} \in SUBSET Nat /\ {n - m[s] : s \in D} # {}
  OBVIOUS
<1>2. PICK p \in {n - m[s] : s \in D} : \A q \in {n - m[s] : s \in D} : p <= q
  BY <1>1, LeastIs
<1>3. PICK s \in D : p = n - m[s]
  BY <1>2
<1>4. \A o \in D : p <= n - m[o]
  BY <1>2
<1>5. \A o \in D : m[o] <= m[s]
  BY <1>3, <1>4
<1> QED
  BY <1>5

LEMMA KeeperIs ==
  ASSUME NEW D \in SUBSET Sources, D # {}, run \in [Sources -> 1..MaxEdits + 1]
  PROVE  O!Keeper(D) \in D
<1>1. MaxEdits \in Nat /\ Cardinality(Sources) \in Nat
  BY WorkAssumption, FS_CardinalityType
<1> DEFINE distrust == [s \in Sources |-> 1 - TrustOf[s]]
<1>2. \A s \in D : distrust[s] \in Nat /\ distrust[s] <= 1 /\ distrust[s] = 1 - TrustOf[s] /\ TrustOf[s] \in {0, 1}
  BY DEF TrustOf
<1> HIDE DEF distrust
<1>3. PICK a \in D : \A o \in D : distrust[o] <= distrust[a]
  BY <1>2, GreatestIs
<1> DEFINE A == {s \in D : TrustOf[s] = TrustOf[a]}
<1>4. A # {} /\ \A s \in A : run[s] \in Nat /\ run[s] <= MaxEdits + 1
  BY <1>1
<1>5. PICK b \in A : \A o \in A : run[o] <= run[b]
  <2> HIDE DEF A
  <2>1. MaxEdits + 1 \in Nat
    BY <1>1
  <2> QED
    BY <1>4, <2>1, GreatestIs
<1> DEFINE B == {s \in A : run[s] = run[b]}
<1>6. B # {} /\ \A s \in B : O!Order[s] \in Nat /\ O!Order[s] <= Cardinality(Sources)
  BY NamesAreOrdered
<1>7. PICK c \in B : \A o \in B : O!Order[o] <= O!Order[c]
  BY <1>1, <1>6, GreatestIs
<1>8. c \in D /\ c \in Sources /\ TrustOf[c] = TrustOf[a] /\ run[c] = run[b]
  BY <1>5, <1>7
<1>9. ASSUME NEW o \in D \ {c}
      PROVE  \/ TrustOf[c] < TrustOf[o]
             \/ TrustOf[c] = TrustOf[o] /\ run[c] > run[o]
             \/ TrustOf[c] = TrustOf[o] /\ run[c] = run[o] /\ O!Order[c] > O!Order[o]
  <2>1. CASE TrustOf[o] # TrustOf[a]
    BY <1>2, <1>3, <1>8, <2>1
  <2>2. CASE TrustOf[o] = TrustOf[a] /\ run[o] # run[b]
    <3>1. run[o] <= run[b] /\ run[o] \in Int /\ run[b] \in Int
      BY <1>4, <1>5, <2>2
    <3> QED
      BY <1>8, <2>2, <3>1
  <2>3. CASE o \in B
    <3>1. O!Order[o] <= O!Order[c] /\ O!Order[o] # O!Order[c]
      BY <1>7, <1>8, <2>3, NamesAreOrdered
    <3> QED
      BY <1>6, <1>7, <1>8, <2>3, <3>1
  <2> QED
    BY <2>1, <2>2, <2>3
<1> QED
  BY <1>8, <1>9 DEF O!Keeper

LEMMA CopiesInit == O!DInit => CopiesInv
<1> SUFFICES ASSUME O!DInit
             PROVE  CopiesInv
  OBVIOUS
<1>1. MaxEdits \in Nat
  BY WorkAssumption
<1>2. /\ texts \in [Sources -> SUBSET Bodies] /\ run = [s \in Sources |-> 1]
      /\ cutOf = [s \in Sources |-> 0] /\ chunks = [s \in Sources |-> {}]
      /\ keptBy = [s \in Sources |-> <<>>] /\ index = O!Idle /\ edits = 0
  BY DEF O!DInit
<1>3. \A s \in Sources : cutOf[s] # run[s]
  BY <1>2
<1> QED
  BY <1>1, <1>2, <1>3 DEF CopiesInv, O!GapIsTold, O!Idle

(* a source that loses a text names a keeper *)
LEMMA LosersTell ==
  ASSUME NEW s \in Sources, NEW t \in O!Lost(s, index.names)
  PROVE  O!CountsOf(s, index.names) # <<>>
<1>1. O!Keeper(O!Holders(t)) \in DOMAIN O!CountsOf(s, index.names)
  BY DEF O!CountsOf
<1> QED
  BY <1>1

LEMMA CopiesNext == CopiesInv /\ [O!DNext]_(O!dvars) => CopiesInv'
<1> SUFFICES ASSUME CopiesInv, [O!DNext]_(O!dvars)
             PROVE  CopiesInv'
  OBVIOUS
<1>1. /\ chunks \in [Sources -> SUBSET Bodies] /\ texts \in [Sources -> SUBSET Bodies]
      /\ run \in [Sources -> 1..MaxEdits + 1] /\ cutOf \in [Sources -> 0..MaxEdits + 1] /\ DOMAIN keptBy = Sources
      /\ edits \in 0..MaxEdits /\ (\A s \in Sources : cutOf[s] <= run[s] /\ run[s] <= edits + 1)
      /\ index.names \subseteq Sources /\ index.left \subseteq index.names
      /\ index = [asked |-> index.asked, names |-> index.names, left |-> index.left, step |-> index.step]
      /\ O!GapIsTold /\ MaxEdits \in Nat
  BY WorkAssumption DEF CopiesInv
<1>2. ASSUME NEW s \in Sources, O!Edits(s)
      PROVE  CopiesInv'
  <2>1. PICK held \in SUBSET Bodies : texts' = [texts EXCEPT ![s] = held]
    BY <1>2 DEF O!Edits
  <2>2. /\ edits' = edits + 1 /\ edits < MaxEdits
        /\ run' = [run EXCEPT ![s] = edits + 2] /\ keptBy' = [keptBy EXCEPT ![s] = <<>>]
        /\ UNCHANGED <<cutOf, chunks, index>>
    BY <1>2 DEF O!Edits
  <2>3. /\ texts' \in [Sources -> SUBSET Bodies] /\ run' \in [Sources -> 1..MaxEdits + 1] /\ DOMAIN keptBy' = Sources
        /\ edits' \in 0..MaxEdits /\ (\A o \in Sources : cutOf'[o] <= run'[o] /\ run'[o] <= edits' + 1)
    BY <1>1, <2>1, <2>2
  <2>4. cutOf'[s] # run'[s]
    BY <1>1, <2>2
  <2>5. \A o \in Sources : o # s => texts'[o] = texts[o] /\ run'[o] = run[o] /\ keptBy'[o] = keptBy[o]
    BY <1>1, <2>1, <2>2
  <2>6. O!GapIsTold'
    BY <1>1, <2>2, <2>4, <2>5 DEF O!GapIsTold
  <2> QED
    BY <1>1, <2>2, <2>3, <2>6 DEF CopiesInv
<1>3. ASSUME NEW s \in Sources, O!CutsOne(s)
      PROVE  CopiesInv'
  <2>1. UNCHANGED <<texts, run, keptBy, edits>>
    BY <1>3 DEF O!CutsOne
  <2>2. /\ index'.names \subseteq Sources /\ index'.left \subseteq index'.names
        /\ index' = [asked |-> index'.asked, names |-> index'.names, left |-> index'.left, step |-> index'.step]
    <3>1. \/ index' = [index EXCEPT !.left = @ \ {s}, !.names = @ \ {s}]
          \/ index' = [index EXCEPT !.left = @ \ {s}]
      BY <1>3 DEF O!CutsOne
    <3>2. index' = [asked |-> index.asked, names |-> index'.names, left |-> index.left \ {s}, step |-> index.step]
          /\ (index'.names = index.names \ {s} \/ index'.names = index.names)
      BY <1>1, <3>1
    <3> QED
      BY <1>1, <3>2
  <2>3. \/ cutOf' = cutOf /\ chunks' = chunks
        \/ cutOf' = [cutOf EXCEPT ![s] = run[s]] /\ chunks' = [chunks EXCEPT ![s] = texts[s]]
    BY <1>3 DEF O!CutsOne
  <2>4. /\ cutOf' \in [Sources -> 0..MaxEdits + 1] /\ chunks' \in [Sources -> SUBSET Bodies]
        /\ \A o \in Sources : cutOf'[o] <= run'[o]
    BY <1>1, <2>1, <2>3
  <2>5. O!GapIsTold'
    BY <1>1, <2>1, <2>3 DEF O!GapIsTold
  <2> QED
    BY <1>1, <2>1, <2>2, <2>4, <2>5 DEF CopiesInv
<1>4. ASSUME NEW names \in SUBSET Sources, O!Asks(names)
      PROVE  CopiesInv'
  BY <1>1, <1>4 DEF O!Asks, CopiesInv, O!GapIsTold
<1>5. CASE O!Stops
  BY <1>1, <1>5 DEF O!Stops, CopiesInv, O!GapIsTold
<1>6. CASE O!Drops
  <2>1. /\ index' = O!Idle /\ UNCHANGED <<texts, run, cutOf, edits>>
        /\ chunks' = [s \in Sources |-> chunks[s] \ O!Lost(s, index.names)]
        /\ keptBy' = [s \in Sources |-> IF O!Lost(s, index.names) = {} THEN keptBy[s] ELSE O!CountsOf(s, index.names)]
    BY <1>6 DEF O!Drops
  <2>2. chunks' \in [Sources -> SUBSET Bodies] /\ DOMAIN keptBy' = Sources
    BY <1>1, <2>1
  <2>3. ASSUME NEW s \in Sources, NEW t \in texts'[s], cutOf'[s] = run'[s], t \notin chunks'[s]
        PROVE  keptBy'[s] # <<>>
    <3>1. CASE O!Lost(s, index.names) = {}
      BY <1>1, <2>1, <2>3, <3>1 DEF O!GapIsTold
    <3>2. CASE O!Lost(s, index.names) # {}
      BY <2>1, <3>2, LosersTell
    <3> QED
      BY <3>1, <3>2
  <2>4. O!GapIsTold'
    BY <2>3 DEF O!GapIsTold
  <2> QED
    BY <1>1, <2>1, <2>2, <2>4 DEF CopiesInv, O!Idle
<1>7. CASE O!DropFails
  BY <1>1, <1>7 DEF O!DropFails, CopiesInv, O!GapIsTold, O!Idle
<1>8. CASE UNCHANGED O!dvars
  BY <1>1, <1>8 DEF O!dvars, CopiesInv, O!GapIsTold
<1> QED
  BY <1>2, <1>3, <1>4, <1>5, <1>6, <1>7, <1>8 DEF O!DNext

LEMMA StepOfWork ==
  ASSUME [WorkNext]_workVars
  PROVE  [C!CNext]_(C!cvars) /\ [H!HNext]_(H!hvars) /\ [O!DNext]_(O!dvars)
  BY DEF WorkNext, workVars, conversion, weights, copies, C!cvars, C!world, C!asks, C!disk, C!attempt, H!hvars, O!dvars

(* use_cases/dedup.py: a source cut by its present run and short of one of its texts names who keeps it. *)
THEOREM GapsAreTold == WorkSpec => [](O!DTypeOK /\ O!GapIsTold)
<1>1. WorkInit => CopiesInv
  BY CopiesInit DEF WorkInit
<1>2. [WorkNext]_workVars => [O!DNext]_(O!dvars)
  BY StepOfWork
<1>3. CopiesInv => O!DTypeOK /\ O!GapIsTold
  BY DEF CopiesInv, O!DTypeOK
<1> QED
  BY <1>1, <1>2, <1>3, CopiesNext, PTL DEF WorkSpec

LEMMA DropKeepsTheText ==
  ASSUME CopiesInv, O!Drops
  PROVE  /\ UNION {chunks'[s] : s \in Sources} = UNION {chunks[s] : s \in Sources}
         /\ \A s \in Sources : chunks'[s] # chunks[s] => keptBy'[s] # <<>>
<1>1. /\ chunks' = [s \in Sources |-> chunks[s] \ O!Lost(s, index.names)]
      /\ keptBy' = [s \in Sources |-> IF O!Lost(s, index.names) = {} THEN keptBy[s] ELSE O!CountsOf(s, index.names)]
  BY DEF O!Drops
<1>2. ASSUME NEW s \in Sources, NEW t \in chunks[s]
      PROVE  \E o \in Sources : t \in chunks'[o]
  <2> DEFINE keeper == O!Keeper(O!Holders(t))
  <2>1. O!Holders(t) \in SUBSET Sources /\ s \in O!Holders(t)
    BY <1>2 DEF O!Holders
  <2>2. keeper \in O!Holders(t)
    BY <2>1, KeeperIs DEF CopiesInv
  <2>3. keeper \in Sources /\ t \in chunks[keeper]
    BY <2>2 DEF O!Holders
  <2>4. t \notin O!Lost(keeper, index.names)
    BY DEF O!Lost
  <2> QED
    BY <1>1, <2>3, <2>4
<1>3. ASSUME NEW s \in Sources, chunks'[s] # chunks[s]
      PROVE  keptBy'[s] # <<>>
  <2>1. O!Lost(s, index.names) # {}
    BY <1>1, <1>3
  <2> QED
    BY <1>1, <2>1, LosersTell
<1>4. \A s \in Sources : chunks'[s] \subseteq chunks[s]
  BY <1>1
<1>5. UNION {chunks'[s] : s \in Sources} = UNION {chunks[s] : s \in Sources}
  BY <1>2, <1>4
<1> QED
  BY <1>3, <1>5

LEMMA DropLeavesOne ==
  ASSUME CopiesInv, O!Drops, NEW t \in Bodies, NEW s \in index.names, t \in chunks'[s], NEW o \in Sources \ {s}
  PROVE  t \notin chunks'[o]
<1> SUFFICES ASSUME t \in chunks'[o]
             PROVE  FALSE
  OBVIOUS
<1>1. chunks' = [x \in Sources |-> chunks[x] \ O!Lost(x, index.names)] /\ s \in Sources
  BY DEF O!Drops, CopiesInv
<1>2. /\ t \in chunks[s] /\ t \notin O!Lost(s, index.names)
      /\ t \in chunks[o] /\ t \notin O!Lost(o, index.names)
  BY <1>1
<1>3. s \in O!Holders(t) /\ o \in O!Holders(t) /\ O!Holders(t) \in SUBSET Sources
  BY <1>1, <1>2 DEF O!Holders
<1>4. Cardinality(O!Holders(t)) > 1
  <2>1. IsFiniteSet(O!Holders(t)) /\ Cardinality(O!Holders(t)) \in Nat
    BY <1>3, FS_Subset, FS_CardinalityType, WorkAssumption
  <2>2. Cardinality(O!Holders(t)) # 0 /\ Cardinality(O!Holders(t)) # 1
    BY <1>3, <2>1, FS_EmptySet, FS_Singleton
  <2> QED
    BY <2>1, <2>2
<1>5. t \in O!SharedBy(index.names)
  BY <1>3, <1>4, SameCardinality DEF O!SharedBy
<1>6. s = O!Keeper(O!Holders(t)) /\ o = O!Keeper(O!Holders(t))
  BY <1>2, <1>3, <1>5 DEF O!Lost
<1> QED
  BY <1>6

(* a check that says ready, of weights with an index, has looked at every file *)
LEMMA ReadyHasLooked ==
  ASSUME H!Hashes \/ H!Checks, pull'.verdict = "ready", H!Exists("index")
  PROVE  H!Whole'
<1>1. /\ H!Snapshot' /\ H!BrokenWeights' = {} /\ H!UnfinishedWeights(TRUE)' = {}
      /\ links' = links /\ (\A f \in H!Blobs : blob[f] \in {"whole", "wrong"} => blob'[f] = blob[f])
  <2>1. CASE H!Hashes
    <3>1. H!WeightsCheck(FALSE) /\ blob' = blob /\ links' = links
      BY <2>1 DEF H!Hashes, H!Idle
    <3>2. H!Snapshot /\ H!BrokenWeights = {} /\ H!UnfinishedWeights(FALSE) = {}
      BY <3>1 DEF H!WeightsCheck
    <3>3. H!Snapshot' /\ H!BrokenWeights' = {}
      BY <3>1, <3>2 DEF H!Snapshot, H!BrokenWeights, H!WrongBytes
    <3>4. H!UnfinishedWeights(TRUE)' = {}
      BY <3>1, <3>2 DEF H!UnfinishedWeights, H!Snapshot, H!ExpectedFiles, H!Exists
    <3> QED
      BY <3>1, <3>3, <3>4
  <2>2. CASE H!Checks
    <3>1. H!WeightsCheck(TRUE) /\ links' = links
      BY <2>2 DEF H!Checks, H!Idle
    <3>2. blob' = blob
      BY <2>2 DEF H!Checks
    <3> QED
      BY <3>1, <3>2 DEF H!WeightsCheck, H!Snapshot, H!BrokenWeights, H!WrongBytes, H!UnfinishedWeights, H!ExpectedFiles, H!Exists
  <2> QED
    BY <2>1, <2>2
<1>2. H!Files \subseteq H!Blobs /\ "index" \in H!Files /\ H!Files = {"config", "index"} \cup Shards
  BY DEF H!Blobs, H!Files
<1>3. H!Exists("index")'
  BY <1>1, <1>2 DEF H!Exists
<1>4. \A f \in H!Files : H!Exists(f)'
  <2>1. \A f \in {"config"} \cup Shards : H!Exists(f)'
    BY <1>1, <1>3 DEF H!UnfinishedWeights, H!ExpectedFiles, H!Exists
  <2> QED
    BY <1>2, <1>3, <2>1
<1>5. \A f \in H!Files : blob'[f] # "wrong"
  BY <1>1, <1>2 DEF H!BrokenWeights, H!WrongBytes
<1> QED
  BY <1>4, <1>5 DEF H!Whole, H!Exists

(* Weights, Convert and Copies: a pull is ready of whole weights and spares a sibling's, but for a blob *)
(* taken up between its look and its unlink; a piece read stays read, and a drop of copies leaves one.  *)
THEOREM FilesOfAJobAreKept == WorkSpec => FilesAreKept
<1>1. WorkInit => WeightsInv /\ ConversionInv /\ CopiesInv
  BY WeightsInit, ConversionInit, CopiesInit DEF WorkInit
<1>2. WeightsInv /\ ConversionInv /\ CopiesInv /\ [WorkNext]_workVars => (WeightsInv /\ ConversionInv /\ CopiesInv)'
  BY WeightsNext, ConversionNext, CopiesNext, StepOfWork
<1>3. ASSUME [WorkNext]_workVars
      PROVE  [(H!Hashes \/ H!Checks) /\ pull'.verdict = "ready" /\ H!Exists("index") => H!Whole']_(H!hvars)
  BY ReadyHasLooked
<1>4. ASSUME WeightsInv
      PROVE  [\A f \in H!Blobs : H!Unlinks /\ writer[f] = "sibling" /\ blob[f] \in H!Partial /\ blob'[f] = "none"
                => pull.resumed]_(H!hvars)
  BY <1>4 DEF WeightsInv, H!Unlinks, H!Partial
<1>5. ASSUME ConversionInv, [WorkNext]_workVars
      PROVE  [\A p \in Parts : C!Kept(record, p) => part'[p] = part[p] /\ C!Kept(record, p)']_(C!cvars)
  BY <1>5, ConversionNext, StepOfWork DEF Stays, C!Kept
<1>6. ASSUME CopiesInv
      PROVE  [O!Drops => /\ UNION {chunks'[s] : s \in Sources} = UNION {chunks[s] : s \in Sources}
                         /\ \A s \in Sources : chunks'[s] # chunks[s] => keptBy'[s] # <<>>]_(O!dvars)
  BY <1>6, DropKeepsTheText
<1>7. ASSUME CopiesInv
      PROVE  [O!Drops => \A t \in Bodies : \A s \in index.names : t \in chunks'[s] =>
                 \A o \in Sources \ {s} : t \notin chunks'[o]]_(O!dvars)
  BY <1>7, DropLeavesOne
<1> QED
  BY <1>1, <1>2, <1>3, <1>4, <1>5, <1>6, <1>7, PTL
  DEF WorkSpec, FilesAreKept, H!ReadyByIndex, H!SiblingKept, C!KeptStays, O!DropLosesNoText, O!OneCopy

=============================================================================
