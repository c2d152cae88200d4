---------------------------- MODULE PassesProofs -----------------------------
(***************************************************************************)
(* Theorems about a run's answers and the passes over them, for any rows,  *)
(* questions, requests and bounds: the guest's pass, the judge's passes    *)
(* and the named run each keep an invariant of their own.                  *)
(***************************************************************************)
EXTENDS MCJudging, FiniteSetTheorems, TLAPS

LEMMA StepOfPasses ==
  ASSUME [PassesNext]_<<which, vars, guests, answers>>
  PROVE  [Next]_vars /\ [G!Next]_guests /\ [R!Next]_answers /\ UNCHANGED which
  BY DEF PassesNext, guests, answers

LEMMA BoundsOfPasses ==
  /\ MaxTries \in Nat /\ MaxTries > 0 /\ MaxAttempts \in Nat /\ MaxAttempts > 0 /\ MaxHalts \in Nat
  /\ GuestSweeps \in Nat /\ GuestSweeps > 0 /\ MaxReclaims \in Nat /\ RunHalts \in Nat
  BY JudgingAssumption, PassesAssumption

-----------------------------------------------------------------------------
(* The guest.  A call is paid for by an attempt written on the row, by the *)
(* row's one number, or by a stop that lost the answer.                    *)

JobAtWork == (place = "idle" => job \notin {"running"}) /\ (place # "idle" => job \in {"running", "cancelled"})
CallsArePaid ==
  \A r \in GuestRows : \/ calls[r] <= failures[r] + stops
                       \/ r \in scored /\ failures[r] < MaxTries /\ calls[r] <= failures[r] + stops + 1
GuestInv == G!TypeOK /\ JobAtWork /\ G!WalksItsBudget /\ CallsArePaid

LEMMA GuestInit == G!Init => GuestInv
<1> SUFFICES ASSUME G!Init
             PROVE  GuestInv
  OBVIOUS
<1> USE BoundsOfPasses DEF G!Init
<1>1. failures \in [GuestRows -> 0..MaxTries] /\ calls \in [GuestRows -> Nat]
  OBVIOUS
<1>3. got \in BOOLEAN
  OBVIOUS
<1>4. G!TypeOK /\ JobAtWork
  BY <1>1, <1>3 DEF G!TypeOK, JobAtWork
<1>2. G!WalksItsBudget /\ CallsArePaid
  BY DEF G!WalksItsBudget, CallsArePaid
<1> QED
  BY <1>2, <1>4 DEF GuestInv

(* The worker lets the job go: nothing is due, and no call was made. *)
LEMMA GuestLets ==
  ASSUME GuestInv, G!Lets, UNCHANGED <<scored, failures, calls>>, stops' \in {stops, stops + 1} \cap (0..MaxHalts),
         job' \in {"new", "done", "error", "cancelled"}, attempts' \in 0..MaxAttempts
  PROVE  GuestInv'
<1> USE BoundsOfPasses DEF GuestInv, G!TypeOK, G!Lets
<1>0. got' \in BOOLEAN
  OBVIOUS
<1>1. G!TypeOK' /\ JobAtWork'
  BY <1>0 DEF JobAtWork
<1>2. G!WalksItsBudget'
  BY DEF G!WalksItsBudget
<1>3. CallsArePaid'
  BY DEF CallsArePaid
<1> QED
  BY <1>1, <1>2, <1>3

LEMMA GuestEnds ==
  ASSUME GuestInv, place # "idle", UNCHANGED <<scored, failures, calls>>, stops' \in {stops, stops + 1} \cap (0..MaxHalts),
         NEW kind \in {"done", "error"}, G!Ends(kind) \/ G!EndsInRetry
  PROVE  GuestInv'
<1>1. G!Lets /\ job' \in {"new", "done", "error", "cancelled"} /\ attempts' \in 0..MaxAttempts
  BY BoundsOfPasses DEF GuestInv, G!TypeOK, G!Ends, G!EndsInRetry
<1> QED
  BY <1>1, GuestLets

LEMMA GuestScores ==
  ASSUME GuestInv, NEW r \in due, G!Scores(r)
  PROVE  GuestInv'
<1> USE BoundsOfPasses DEF GuestInv, G!TypeOK
<1>1. r \in GuestRows /\ failures[r] \in Nat /\ failures[r] < MaxTries /\ r \notin scored /\ calls[r] \in Nat /\ place = "walking"
  BY DEF G!Scores, G!WalksItsBudget
<1>2. calls[r] <= failures[r] + stops
  BY <1>1 DEF CallsArePaid
<1>3. /\ due' = due \ {r} /\ calls' = [calls EXCEPT ![r] = calls[r] + 1]
      /\ UNCHANGED <<job, attempts, place, budget, sweep>>
  BY DEF G!Scores
<1>4. CASE scored' = scored \cup {r} /\ got' = TRUE /\ UNCHANGED <<failures, stops>>
  <2>1. G!TypeOK' /\ JobAtWork'
    BY <1>1, <1>3, <1>4 DEF JobAtWork
  <2>2. G!WalksItsBudget'
    BY <1>1, <1>3, <1>4 DEF G!WalksItsBudget
  <2>3. CallsArePaid'
    BY <1>1, <1>2, <1>3, <1>4 DEF CallsArePaid
  <2> QED
    BY <2>1, <2>2, <2>3
<1>5. CASE /\ failures' \in {[failures EXCEPT ![r] = failures[r] + 1], [failures EXCEPT ![r] = MaxTries]}
           /\ UNCHANGED <<scored, got, stops>>
  <2>1. PICK n \in 0..MaxTries : failures' = [failures EXCEPT ![r] = n] /\ n > failures[r]
    BY <1>1, <1>5
  <2>2. G!TypeOK' /\ JobAtWork'
    BY <1>1, <1>3, <1>5, <2>1 DEF JobAtWork
  <2>3. G!WalksItsBudget'
    BY <1>1, <1>3, <1>5, <2>1 DEF G!WalksItsBudget
  <2>4. CallsArePaid'
    BY <1>1, <1>2, <1>3, <1>5, <2>1 DEF CallsArePaid
  <2> QED
    BY <2>2, <2>3, <2>4
<1>6. CASE G!Halts /\ UNCHANGED <<scored, failures, got>>
  <2>1. G!TypeOK' /\ JobAtWork'
    BY <1>1, <1>3, <1>6 DEF JobAtWork, G!Halts
  <2>2. G!WalksItsBudget'
    BY <1>1, <1>3, <1>6 DEF G!WalksItsBudget
  <2>3. CallsArePaid'
    BY <1>1, <1>2, <1>3, <1>6 DEF CallsArePaid, G!Halts
  <2> QED
    BY <2>1, <2>2, <2>3
<1> QED
  BY <1>4, <1>5, <1>6 DEF G!Scores

LEMMA GuestStep ==
  ASSUME GuestInv, [G!Next]_guests
  PROVE  GuestInv'
<1> USE BoundsOfPasses DEF GuestInv, G!TypeOK
<1>1. ASSUME G!Asks \/ G!Cancels
      PROVE  GuestInv'
  BY <1>1 DEF G!Asks, G!Cancels, G!pass, JobAtWork, G!WalksItsBudget, G!Owed, CallsArePaid
<1>2. CASE G!Claims
  <2>1. G!Drawn(G!Owed) \subseteq G!Owed /\ G!Owed \subseteq GuestRows
    BY DEF G!Drawn, G!Owed
  <2>2. \A r \in G!Owed : failures[r] < MaxTries /\ r \notin scored
    BY DEF G!Owed
  <2>3. UNCHANGED <<scored, failures, attempts, got, calls, stops>> /\ place' = "walking" /\ job' = "running" /\ sweep' = 1
        /\ budget' = G!Drawn(G!Owed) /\ due' = budget'
    BY <1>2 DEF G!Claims
  <2>4. G!TypeOK' /\ JobAtWork'
    BY <2>1, <2>3 DEF JobAtWork
  <2>5. G!WalksItsBudget' /\ CallsArePaid'
    BY <2>1, <2>2, <2>3 DEF G!WalksItsBudget, CallsArePaid
  <2> QED
    BY <2>4, <2>5
<1>3. ASSUME NEW r \in due, G!Scores(r)
      PROVE  GuestInv'
  BY <1>3, GuestScores
<1>4. CASE G!Faults
  BY <1>4, GuestEnds DEF G!Faults, G!Halts
<1>5. CASE G!Sweeps
  BY <1>5 DEF G!Sweeps, G!Again, G!Owed, JobAtWork, G!WalksItsBudget, CallsArePaid
<1>6. CASE G!Closes
  BY <1>6, GuestEnds DEF G!Closes
<1>7. CASE G!Dies
  BY <1>7, GuestLets DEF G!Dies, G!Halts, JobAtWork
<1>8. CASE UNCHANGED guests
  BY <1>8 DEF guests, JobAtWork, G!WalksItsBudget, G!Owed, CallsArePaid
<1> QED
  BY <1>1, <1>2, <1>3, <1>4, <1>5, <1>6, <1>7, <1>8 DEF G!Next, G!Worker

LEMMA GuestHolds == GuestInv => G!TypeOK /\ G!WalksItsBudget /\ G!CallsBounded
  BY BoundsOfPasses DEF GuestInv, G!TypeOK, CallsArePaid, G!CallsBounded

-----------------------------------------------------------------------------
(* The named run: its requests, and whose turn it is.                       *)

RequestSet ==
  [at : {"none", "asked", "new", "running", "done", "error", "cancelled"}, resume : BOOLEAN,
   opts : Requests \cup {0}, attempts : Nat, reclaims : Nat]
Outside == {"none", "asked"}

RequestsHold ==
  /\ request \in [Requests -> RequestSet] /\ runHalts \in 0..RunHalts
  /\ \A j \in Requests : /\ request[j].attempts <= MaxAttempts + runHalts /\ request[j].reclaims <= runHalts
                         /\ request[j].at # "none" => request[j].opts \in Requests
LineHolds ==
  /\ line \in Seq(Requests) /\ \A i, k \in DOMAIN line : line[i] = line[k] => i = k
  /\ \A j \in Requests : request[j].at \notin Outside <=> \E i \in DOMAIN line : line[i] = j
HandHolds ==
  /\ hand \in Requests \cup {None} /\ (hand = None <=> walk = "idle")
  /\ hand # None => request[hand].at \in {"running", "cancelled"}
RequestsInv == RequestsHold /\ LineHolds /\ HandHolds

(* A request moves on and keeps what it was asked for. *)
MovesOn(j, d) ==
  /\ d \in RequestSet /\ request' = [request EXCEPT ![j] = d]
  /\ d.at # "none" => d.opts \in Requests
  /\ d.attempts <= MaxAttempts + runHalts' /\ d.reclaims <= runHalts'

LEMMA RequestMoves ==
  ASSUME RequestsInv, runHalts' \in {runHalts, runHalts + 1} \cap (0..RunHalts), UNCHANGED line,
         NEW j \in Requests, NEW d, MovesOn(j, d), d.at \in Outside <=> request[j].at \in Outside,
         hand' \in Requests \cup {None}, hand' = None <=> walk' = "idle",
         hand' # None => request'[hand'].at \in {"running", "cancelled"}
  PROVE  RequestsInv'
<1> USE BoundsOfPasses DEF RequestsInv, MovesOn
<1>1. request'[j] = d /\ \A i \in Requests \ {j} : request'[i] = request[i]
  BY DEF RequestsHold
<1>2. RequestsHold'
  <2>1. request' \in [Requests -> RequestSet]
    BY DEF RequestsHold
  <2>2. runHalts \in Nat /\ runHalts' \in 0..RunHalts /\ runHalts <= runHalts'
    BY DEF RequestsHold
  <2>3. ASSUME NEW i \in Requests
        PROVE  /\ request'[i].attempts <= MaxAttempts + runHalts' /\ request'[i].reclaims <= runHalts'
               /\ request'[i].at # "none" => request'[i].opts \in Requests
    <3>1. request[i].attempts \in Nat /\ request[i].reclaims \in Nat
      BY DEF RequestsHold, RequestSet
    <3> QED
      BY <1>1, <2>2, <3>1 DEF RequestsHold
  <2> QED
    BY <2>1, <2>2, <2>3 DEF RequestsHold
<1>3. LineHolds'
  BY <1>1 DEF LineHolds
<1>4. HandHolds'
  BY DEF HandHolds
<1> QED
  BY <1>2, <1>3, <1>4

LEMMA RequestsStay ==
  ASSUME RequestsInv, UNCHANGED <<request, line, hand>>, runHalts' \in {runHalts, runHalts + 1} \cap (0..RunHalts),
         walk # "idle" <=> walk' # "idle"
  PROVE  RequestsInv'
<1> USE BoundsOfPasses DEF RequestsInv
<1>1. RequestsHold'
  <2>1. \A i \in Requests : request[i].attempts \in Nat /\ request[i].reclaims \in Nat
    BY DEF RequestsHold, RequestSet
  <2> QED
    BY <2>1 DEF RequestsHold
<1> QED
  BY <1>1 DEF LineHolds, HandHolds

(* What the worker leaves of the request in hand. *)
Released(d) ==
  /\ hand \in Requests /\ MovesOn(hand, d) /\ R!Lets
  /\ d.at \in {"new", "done", "error", "cancelled"} /\ d.opts = request[hand].opts /\ d.resume = request[hand].resume

Aged(old, k) == [old EXCEPT !.at = k, !.attempts = old.attempts + 1]
Reclaimed(old, k) == [Aged(old, k) EXCEPT !.reclaims = old.reclaims + 1]

LEMMA PutBack ==
  ASSUME NEW old \in RequestSet, NEW k \in {"new", "error"}
  PROVE  /\ Aged(old, k) \in RequestSet /\ Aged(old, k).at = k /\ Aged(old, k).attempts = old.attempts + 1
         /\ Aged(old, k).opts = old.opts /\ Aged(old, k).resume = old.resume /\ Aged(old, k).reclaims = old.reclaims
         /\ Reclaimed(old, k) \in RequestSet /\ Reclaimed(old, k).at = k /\ Reclaimed(old, k).attempts = old.attempts + 1
         /\ Reclaimed(old, k).opts = old.opts /\ Reclaimed(old, k).resume = old.resume
         /\ Reclaimed(old, k).reclaims = old.reclaims + 1
<1> DEFINE mid == [old EXCEPT !.at = k]
           e == Aged(old, k)
<1>1. mid \in RequestSet /\ mid.at = k /\ mid.opts = old.opts /\ mid.resume = old.resume /\ mid.reclaims = old.reclaims
  BY DEF RequestSet
<1>2. e = [mid EXCEPT !.attempts = old.attempts + 1] /\ old.attempts + 1 \in Nat /\ old.reclaims + 1 \in Nat
  BY DEF Aged, RequestSet
<1> HIDE DEF mid
<1>3. /\ e \in RequestSet /\ e.at = k /\ e.opts = old.opts /\ e.resume = old.resume
      /\ e.attempts = old.attempts + 1 /\ e.reclaims = old.reclaims
  BY ONLY <1>1, <1>2 DEF RequestSet
<1> HIDE DEF e
<1> DEFINE d == [e EXCEPT !.reclaims = old.reclaims + 1]
<1>4. /\ d \in RequestSet /\ d.at = k /\ d.attempts = old.attempts + 1 /\ d.reclaims = old.reclaims + 1
      /\ d.opts = old.opts /\ d.resume = old.resume
  BY ONLY <1>2, <1>3 DEF RequestSet
<1> QED
  BY <1>3, <1>4 DEF e, Reclaimed

LEMMA WorkerEnds ==
  ASSUME RequestsInv, walk # "idle", runHalts' \in {runHalts, runHalts + 1} \cap (0..RunHalts),
         NEW kind \in {"done", "error"}, R!Ends(kind) \/ R!EndsInRetry
  PROVE  \E d \in RequestSet : Released(d) /\ (d.at = "done" => kind = "done" /\ request[hand].at # "cancelled")
<1> USE BoundsOfPasses DEF RequestsInv
<1> DEFINE old == request[hand]
           ended(k) == [old EXCEPT !.at = k]
           again == Aged(old, "new")
<1>1. /\ hand \in Requests /\ old \in RequestSet /\ old.at \in {"running", "cancelled"} /\ old.opts \in Requests
      /\ old.attempts <= MaxAttempts + runHalts /\ old.reclaims <= runHalts
  BY DEF RequestsHold, HandHolds
<1>2. runHalts \in Nat /\ runHalts' \in Nat /\ runHalts <= runHalts' /\ old.attempts \in Nat /\ old.reclaims \in Nat
  BY <1>1 DEF RequestsHold, RequestSet
<1>3. request = [request EXCEPT ![hand] = old]
  BY DEF RequestsHold
<1>4. ASSUME NEW k \in {"done", "error"}, R!Ends(k)
      PROVE  \E d \in RequestSet : Released(d) /\ (d.at = "done" => k = "done" /\ old.at # "cancelled")
  <2>1. CASE old.at = "cancelled"
    <3>1. request' = [request EXCEPT ![hand] = old] /\ R!Lets
      BY <1>3, <1>4, <2>1 DEF R!Ends, R!Cancelled
    <3> HIDE DEF old
    <3>2. Released(old) /\ old.at # "done"
      BY <1>1, <1>2, <2>1, <3>1 DEF Released, MovesOn, old
    <3> QED
      BY <1>1, <3>2
  <2>2. CASE old.at # "cancelled"
    <3>1. request' = [request EXCEPT ![hand] = ended(k)] /\ R!Lets
      BY <1>4, <2>2 DEF R!Ends, R!Cancelled
    <3>2. /\ ended(k) \in RequestSet /\ ended(k).at = k /\ ended(k).opts = old.opts /\ ended(k).resume = old.resume
          /\ ended(k).attempts = old.attempts /\ ended(k).reclaims = old.reclaims
      BY <1>1 DEF RequestSet
    <3> HIDE DEF ended
    <3>3. Released(ended(k))
      BY <1>1, <1>2, <3>1, <3>2 DEF Released, MovesOn
    <3> QED
      BY <2>2, <3>2, <3>3
  <2> QED
    BY <2>1, <2>2
<1>5. CASE R!EndsInRetry
  <2>1. CASE old.attempts + 1 < MaxAttempts /\ old.at # "cancelled"
    <3>1. request' = [request EXCEPT ![hand] = again] /\ R!Lets
      BY <1>5, <2>1 DEF R!EndsInRetry, R!Cancelled, Aged
    <3>2. /\ again \in RequestSet /\ again.at = "new" /\ again.opts = old.opts /\ again.resume = old.resume
          /\ again.attempts = old.attempts + 1 /\ again.reclaims = old.reclaims
      BY <1>1, <1>2, PutBack
    <3> HIDE DEF again
    <3>3. Released(again) /\ again.at # "done"
      BY <1>1, <1>2, <2>1, <3>1, <3>2 DEF Released, MovesOn
    <3> QED
      BY <3>2, <3>3
  <2>2. CASE old.attempts + 1 < MaxAttempts /\ old.at = "cancelled"
    <3>1. request' = [request EXCEPT ![hand] = old] /\ R!Lets
      BY <1>3, <1>5, <2>2 DEF R!EndsInRetry, R!Cancelled
    <3>2. Released(old) /\ old.at # "done"
      BY <1>1, <1>2, <2>2, <3>1 DEF Released, MovesOn
    <3> QED
      BY <1>1, <3>2
  <2>3. CASE ~(old.attempts + 1 < MaxAttempts)
    <3>1. R!Ends("error")
      BY <1>5, <2>3 DEF R!EndsInRetry
    <3> QED
      BY <1>4, <3>1
  <2> QED
    BY <2>1, <2>2, <2>3
<1> QED
  BY <1>4, <1>5

LEMMA WorkerDies ==
  ASSUME RequestsInv, R!Dies
  PROVE  /\ runHalts' \in {runHalts, runHalts + 1} \cap (0..RunHalts)
         /\ \E d \in RequestSet : Released(d) /\ d.at # "done"
<1> USE BoundsOfPasses DEF RequestsInv
<1> DEFINE old == request[hand]
           fate == IF old.at = "running" /\ old.reclaims >= MaxReclaims THEN "error" ELSE "new"
           back == Reclaimed(old, fate)
<1>1. /\ hand \in Requests /\ old \in RequestSet /\ old.at \in {"running", "cancelled"} /\ old.opts \in Requests
      /\ old.attempts <= MaxAttempts + runHalts /\ old.reclaims <= runHalts
  BY DEF RequestsHold, HandHolds, R!Dies
<1>2. runHalts \in Nat /\ runHalts' = runHalts + 1 /\ runHalts' \in 0..RunHalts /\ old.attempts \in Nat /\ old.reclaims \in Nat
  BY <1>1 DEF RequestsHold, RequestSet, R!Dies, R!Halts
<1>3. CASE old.at = "cancelled"
  <2>1. request' = [request EXCEPT ![hand] = old] /\ R!Lets
    BY <1>3 DEF R!Dies, R!Cancelled, RequestsHold
  <2>2. Released(old) /\ old.at # "done"
    BY <1>1, <1>2, <1>3, <2>1 DEF Released, MovesOn
  <2> QED
    BY <1>1, <1>2, <2>2
<1>4. CASE old.at # "cancelled"
  <2>1. request' = [request EXCEPT ![hand] = back] /\ R!Lets
    BY <1>4 DEF R!Dies, R!Cancelled, Aged, Reclaimed
  <2> fate \in {"new", "error"}
    OBVIOUS
  <2> HIDE DEF fate
  <2>2. /\ back \in RequestSet /\ back.at \in {"new", "error"} /\ back.opts = old.opts /\ back.resume = old.resume
        /\ back.attempts = old.attempts + 1 /\ back.reclaims = old.reclaims + 1
    BY <1>1, <1>2, PutBack
  <2> HIDE DEF back
  <2>3. Released(back) /\ back.at # "done"
    BY <1>1, <1>2, <2>1, <2>2 DEF Released, MovesOn
  <2> QED
    BY <1>2, <2>2, <2>3
<1> QED
  BY <1>3, <1>4

-----------------------------------------------------------------------------
(* The rows: a settlement and a mark take error rows away and write marks  *)
(* on answers; what is left keeps its id, question, outcome and options.   *)

SameRow(r, s) == s.id = r.id /\ s.q = r.q /\ s.out = r.out /\ s.opts = r.opts
(* S holds rows of T, each once, with marks of its own *)
RowsOf(S, T) ==
  /\ S \subseteq R!Row
  /\ \E f \in [S -> T] : /\ \A s \in S : SameRow(f[s], s)
                         /\ \A s, t \in S : f[s] = f[t] => s = t
Told(r, S) == r.out = "error" /\ \E s \in S : s.q = r.q /\ s.resumed /\ r.id \in s.from

LeftOf(T) == R!ErrorsOf(T, R!AnsweredOf(T))
FromLeft(T, q) == R!Ids({r \in LeftOf(T) : r.q = q})
SettledRow(T, r) ==
  IF FromLeft(T, r.q) = {} THEN r ELSE [r EXCEPT !.resumed = TRUE, !.from = FromLeft(T, r.q)]

NewOf(T) == {r \in T : r.id >= since}
GoneOf(T) == {r \in held : \E s \in NewOf(T) : s.q = r.q}
FromHeld(q) == R!Ids({h \in held : h.q = q})
MarkedRow(T, r) ==
  IF r \in NewOf(T)
  THEN [r EXCEPT !.resumed = TRUE, !.from = IF FromHeld(r.q) = {} THEN r.from ELSE FromHeld(r.q)]
  ELSE r

MarkOf(r, F) == [r EXCEPT !.resumed = TRUE, !.from = F]

LEMMA MarksOfRow ==
  ASSUME NEW r \in R!Row, NEW F \in SUBSET Nat
  PROVE  MarkOf(r, F) \in R!Row /\ SameRow(r, MarkOf(r, F)) /\ MarkOf(r, F).resumed /\ MarkOf(r, F).from = F
<1> DEFINE mid == [r EXCEPT !.resumed = TRUE]
           s == [mid EXCEPT !.from = F]
<1>1. mid \in R!Row /\ SameRow(r, mid) /\ mid.resumed
  BY DEF R!Row, SameRow
<1> HIDE DEF mid
<1>2. s \in R!Row /\ SameRow(r, s) /\ s.resumed /\ s.from = F
  BY <1>1 DEF R!Row, SameRow
<1> QED
  BY <1>2 DEF mid, MarkOf

LEMMA IdsAreNumbers ==
  ASSUME NEW T \in SUBSET R!Row
  PROVE  R!Ids(T) \subseteq Nat /\ (T # {} => R!Ids(T) # {}) /\ \A r \in T : r.id \in R!Ids(T)
  BY DEF R!Ids, R!Row

LEMMA LeftIs ==
  ASSUME NEW T \in SUBSET R!Row
  PROVE  /\ LeftOf(T) \subseteq T
         /\ \A r \in T : r \in LeftOf(T) <=> r.out = "error" /\ \E s \in T : s.out = "answer" /\ s.q = r.q
  BY DEF LeftOf, R!ErrorsOf, R!AnsweredOf

LEMMA SettlesIs ==
  ASSUME NEW T
  PROVE  R!Settles(T) = {SettledRow(T, r) : r \in T \ LeftOf(T)}
  BY DEF R!Settles, SettledRow, LeftOf, FromLeft

LEMMA MarkedIs ==
  ASSUME NEW T
  PROVE  R!Marked(T) = {MarkedRow(T, r) : r \in T \ GoneOf(T)}
  BY DEF R!Marked, MarkedRow, NewOf, GoneOf, FromHeld

LEMMA SettledRowIs ==
  ASSUME NEW T \in SUBSET R!Row, NEW r \in T \ LeftOf(T)
  PROVE  /\ SettledRow(T, r) \in R!Row /\ SameRow(r, SettledRow(T, r))
         /\ \A t \in LeftOf(T) : t.q = r.q => SettledRow(T, r).resumed /\ t.id \in SettledRow(T, r).from
         /\ r.out = "error" => SettledRow(T, r) = r
<1> DEFINE mine == {t \in LeftOf(T) : t.q = r.q}
<1>1. LeftOf(T) \subseteq T /\ mine \in SUBSET R!Row
  BY LeftIs
<1>2. FromLeft(T, r.q) \subseteq Nat /\ \A t \in mine : t.id \in FromLeft(T, r.q)
  BY <1>1, IdsAreNumbers DEF FromLeft
<1>3. r.out = "error" => FromLeft(T, r.q) = {}
  <2>1. r.out = "error" => mine = {}
    BY LeftIs
  <2> QED
    BY <2>1 DEF FromLeft, R!Ids
<1>4. CASE FromLeft(T, r.q) = {}
  BY <1>2, <1>4 DEF SettledRow, SameRow
<1>5. CASE FromLeft(T, r.q) # {}
  <2> DEFINE F == FromLeft(T, r.q)
  <2>1. SettledRow(T, r) = MarkOf(r, F)
    BY <1>5 DEF SettledRow, MarkOf
  <2>2. F \in SUBSET Nat /\ r \in R!Row /\ r.out # "error" /\ \A t \in LeftOf(T) : t.q = r.q => t.id \in F
    BY <1>2, <1>3, <1>5
  <2> HIDE DEF F
  <2>3. MarkOf(r, F) \in R!Row /\ SameRow(r, MarkOf(r, F)) /\ MarkOf(r, F).resumed /\ MarkOf(r, F).from = F
    BY <2>2, MarksOfRow
  <2> QED
    BY <2>1, <2>2, <2>3
<1> QED
  BY <1>4, <1>5

LEMMA MarkedRowIs ==
  ASSUME NEW T \in SUBSET R!Row, held \in SUBSET R!Row, NEW r \in T
  PROVE  /\ MarkedRow(T, r) \in R!Row /\ SameRow(r, MarkedRow(T, r))
         /\ r \in NewOf(T) => \A h \in held : h.q = r.q => MarkedRow(T, r).resumed /\ h.id \in MarkedRow(T, r).from
<1> DEFINE mine == {h \in held : h.q = r.q}
           F == IF FromHeld(r.q) = {} THEN r.from ELSE FromHeld(r.q)
<1>1. FromHeld(r.q) \subseteq Nat /\ \A h \in mine : h.id \in FromHeld(r.q)
  BY IdsAreNumbers DEF FromHeld
<1>2. F \in SUBSET Nat
  BY <1>1 DEF R!Row
<1>3. CASE r \in NewOf(T)
  <2>1. MarkedRow(T, r) = MarkOf(r, F)
    BY <1>3 DEF MarkedRow, MarkOf
  <2>2. \A h \in mine : h.id \in F
    BY <1>1
  <2> HIDE DEF F
  <2> QED
    BY <1>2, <2>1, <2>2, MarksOfRow
<1>4. CASE r \notin NewOf(T)
  BY <1>4 DEF MarkedRow, SameRow
<1> QED
  BY <1>3, <1>4

(* The image of rows under a marking is the rows, each once. *)
LEMMA ImageIsRows ==
  ASSUME NEW T \in SUBSET R!Row, NEW D \in SUBSET T, NEW m \in [D -> R!Row], \A r \in D : SameRow(r, m[r]),
         NEW S, S = {m[r] : r \in D}
  PROVE  RowsOf(S, T)
<1> DEFINE f == [s \in S |-> CHOOSE r \in D : m[r] = s]
<1>1. \A s \in S : f[s] \in D /\ m[f[s]] = s
  OBVIOUS
<1>2. f \in [S -> T]
  BY <1>1
<1>3. (\A s \in S : SameRow(f[s], s)) /\ (\A s, t \in S : f[s] = f[t] => s = t)
  <2> HIDE DEF f
  <2> QED
    BY <1>1
<1>4. S \subseteq R!Row
  OBVIOUS
<1> HIDE DEF f
<1> QED
  BY <1>2, <1>3, <1>4 DEF RowsOf

LEMMA SettlesKeeps ==
  ASSUME NEW T \in SUBSET R!Row
  PROVE  /\ RowsOf(R!Settles(T), T)
         /\ \A s \in R!Settles(T) : \E r \in T \ LeftOf(T) : SameRow(r, s) /\ (r.out = "error" => s = r)
         /\ \A r \in T \ LeftOf(T) : \E s \in R!Settles(T) : SameRow(r, s) /\ (r.out = "error" => s = r)
         /\ \A r \in LeftOf(T) : Told(r, R!Settles(T))
<1> DEFINE D == T \ LeftOf(T)
           m == [r \in D |-> SettledRow(T, r)]
<1>1. D \in SUBSET T /\ m \in [D -> R!Row] /\ \A r \in D : SameRow(r, m[r])
  BY SettledRowIs
<1>2. R!Settles(T) = {m[r] : r \in D}
  BY SettlesIs
<1>3. RowsOf(R!Settles(T), T)
  <2> HIDE DEF m, D
  <2> QED
    BY <1>1, <1>2, ImageIsRows
<1>4. \A r \in D : m[r] = SettledRow(T, r) /\ (r.out = "error" => m[r] = r)
  BY SettledRowIs
<1>5. ASSUME NEW r \in LeftOf(T)
      PROVE  Told(r, R!Settles(T))
  <2>1. PICK s \in T : s.out = "answer" /\ s.q = r.q
    BY LeftIs
  <2>2. s \in D /\ r.out = "error"
    BY <2>1, LeftIs
  <2>3. m[s].resumed /\ r.id \in m[s].from /\ m[s].q = r.q
    BY <1>1, <2>1, <2>2, <1>4, SettledRowIs DEF SameRow
  <2> QED
    BY <1>2, <2>2, <2>3 DEF Told
<1> HIDE DEF m
<1> QED
  BY <1>1, <1>2, <1>3, <1>4, <1>5

LEMMA MarkedKeeps ==
  ASSUME NEW T \in SUBSET R!Row, held \in SUBSET R!Row, since \in Nat, \A h \in held : h.id < since /\ h.out = "error"
  PROVE  /\ RowsOf(R!Marked(T), T)
         /\ \A s \in R!Marked(T) : \E r \in T \ GoneOf(T) : SameRow(r, s)
         /\ \A r \in T \ GoneOf(T) : \E s \in R!Marked(T) : SameRow(r, s)
         /\ \A r \in GoneOf(T) : Told(r, R!Marked(T))
<1> DEFINE D == T \ GoneOf(T)
           m == [r \in D |-> MarkedRow(T, r)]
<1>1. D \in SUBSET T /\ m \in [D -> R!Row] /\ \A r \in D : SameRow(r, m[r])
  BY MarkedRowIs
<1>2. R!Marked(T) = {m[r] : r \in D}
  BY MarkedIs
<1>3. RowsOf(R!Marked(T), T)
  <2> HIDE DEF m, D
  <2> QED
    BY <1>1, <1>2, ImageIsRows
<1>4. ASSUME NEW r \in GoneOf(T)
      PROVE  Told(r, R!Marked(T))
  <2>1. PICK s \in NewOf(T) : s.q = r.q
    BY DEF GoneOf
  <2>2. s \in T /\ s.id >= since /\ s.id \in Nat /\ r \in held
    BY DEF NewOf, GoneOf, R!Row
  <2>3. s \in D
    BY <2>2 DEF GoneOf, R!Row
  <2>4. m[s].resumed /\ r.id \in m[s].from /\ m[s].q = r.q
    BY <1>1, <2>1, <2>2, <2>3, MarkedRowIs DEF SameRow
  <2> QED
    BY <1>2, <2>2, <2>3, <2>4 DEF Told
<1> HIDE DEF m
<1> QED
  BY <1>1, <1>2, <1>3, <1>4

-----------------------------------------------------------------------------
(* The walk: what an attempt has read, what it still owes and what it wrote. *)

CauseTyped == cause \in {"", "final", "retry"}
Places == {"idle", "checking", "reading", "retrieving", "answering", "stopping", "marking", "judging", "completing"}
RowsHold == rows \subseteq R!Row /\ next \in Nat /\ (\A r \in rows : r.id < next) /\ R!OneAnswerEach
PlaceHolds ==
  /\ walk \in Places /\ pipeline \in Pipelines /\ judges \in BOOLEAN /\ resume \in BOOLEAN
  /\ todo \subseteq Questions /\ held \subseteq R!Row /\ since \in 0..next
  /\ lacks \in BOOLEAN /\ answered \in BOOLEAN /\ stopped \in BOOLEAN /\ CauseTyped

(* a resumed attempt holds the error rows it may replace; a fresh one found no row *)
HeldAreOldErrors == held = {r \in rows : r.id < since /\ r.out = "error"}
FreshIsNew == ~resume => \A r \in rows : r.id >= since
OldAreSettled == \A r, s \in rows : r.id < since /\ s.id < since /\ r.q = s.q /\ r.out = "answer" => s.out = "answer"
NewAreAlone == \A r, s \in rows : r.id >= since /\ r.q = s.q => s = r \/ (s.id < since /\ s.out = "error")
TodoIsOpen == \A r \in rows : r.q \in todo => r.id < since /\ r.out = "error"
Walking == HeldAreOldErrors /\ FreshIsNew /\ OldAreSettled /\ NewAreAlone /\ TodoIsOpen
WalkPlaces == {"retrieving", "answering", "stopping", "marking"}
WalkHolds ==
  /\ walk \in WalkPlaces => Walking
  /\ walk = "reading" /\ ~resume => rows = {}
  /\ R!NothingLeftBehind

(* the attempt stops short only under a cancel, and ends done with its judge queued *)
EndHolds ==
  /\ R!DoneIsJudged
  /\ walk \in {"marking", "judging", "completing"} /\ stopped => request[hand].at = "cancelled"
  /\ walk = "completing" => stopped \/ judges

(* without resumes one request has the name, and its rows are its own *)
NoResume == \A j \in Requests : ~request[j].resume
AtWork == Places \ {"idle", "checking"}
RowsInLine == \A r \in rows : \E i \in DOMAIN line : line[i] = r.opts
FreshHolds ==
  NoResume => /\ \A j \in Requests : request[j].at # "none" => request[j].opts = j
              /\ RowsInLine /\ R!OneFreshRun
              /\ walk \in AtWork => \A r \in rows : r.opts = hand

AnswersInv == RequestsInv /\ RowsHold /\ PlaceHolds /\ WalkHolds /\ EndHolds /\ FreshHolds

LEMMA AnswersInit == R!Init => AnswersInv
<1> SUFFICES ASSUME R!Init
             PROVE  AnswersInv
  OBVIOUS
<1> DEFINE none == [at |-> "none", resume |-> FALSE, opts |-> 0, attempts |-> 0, reclaims |-> 0]
<1>a. /\ request = [j \in Requests |-> none] /\ line = <<>> /\ walk = "idle" /\ hand = None /\ runHalts = 0
      /\ rows = {} /\ next = 1 /\ since = 0 /\ todo = {} /\ held = {} /\ pipeline \in Pipelines
  BY DEF R!Init, R!NoJob
<1>b. judges = FALSE /\ resume = FALSE /\ lacks = FALSE /\ answered = FALSE /\ stopped = FALSE
  BY DEF R!Init
<1>c. none \in RequestSet /\ none.at = "none" /\ none.attempts = 0 /\ none.reclaims = 0
  BY DEF RequestSet
<1> HIDE DEF none
<1>1. RequestsHold
  BY <1>a, <1>c, BoundsOfPasses DEF RequestsHold
<1>2. LineHolds /\ HandHolds
  BY <1>a, <1>c, PassesAssumption DEF LineHolds, HandHolds, Outside
<1>3. RowsHold
  BY <1>a DEF RowsHold, R!OneAnswerEach
<1>4. PlaceHolds
  <2>1. judges \in BOOLEAN /\ resume \in BOOLEAN /\ lacks \in BOOLEAN /\ answered \in BOOLEAN /\ stopped \in BOOLEAN
    BY <1>b
  <2>2. CauseTyped
    BY DEF CauseTyped, R!Init
  <2> QED
    BY <1>a, <2>1, <2>2 DEF PlaceHolds, Places
<1>5. WalkHolds /\ EndHolds
  BY <1>a, <1>c DEF WalkHolds, WalkPlaces, EndHolds, R!NothingLeftBehind, R!DoneIsJudged
<1>6. FreshHolds
  BY <1>a, <1>c DEF FreshHolds, RowsInLine, R!OneFreshRun, AtWork
<1> QED
  BY <1>1, <1>2, <1>3, <1>4, <1>5, <1>6 DEF AnswersInv, RequestsInv

(* Rows that keep their questions and outcomes keep one answer each. *)
LEMMA RowsOfHold ==
  ASSUME RowsHold, RowsOf(rows', rows), UNCHANGED next
  PROVE  RowsHold' /\ \A s \in rows' : \E r \in rows : SameRow(r, s)
<1>1. PICK f \in [rows' -> rows] : (\A s \in rows' : SameRow(f[s], s)) /\ \A s, t \in rows' : f[s] = f[t] => s = t
  BY DEF RowsOf
<1>2. \A s \in rows' : f[s] \in rows
  BY <1>1
<1>3. rows' \subseteq R!Row
  BY DEF RowsOf
<1>4. \A s \in rows' : s.id < next'
  BY <1>1, <1>2 DEF RowsHold, SameRow
<1>5. R!OneAnswerEach'
  <2> SUFFICES ASSUME NEW s \in rows', NEW t \in rows', s.out = "answer", t.out = "answer", s.q = t.q
               PROVE  s = t
    BY DEF R!OneAnswerEach
  <2>1. f[s] = f[t]
    BY <1>1, <1>2 DEF RowsHold, SameRow, R!OneAnswerEach
  <2> QED
    BY <1>1, <2>1
<1> QED
  BY <1>1, <1>2, <1>3, <1>4, <1>5 DEF RowsHold

LEMMA RowsOfSelf ==
  ASSUME NEW T \in SUBSET R!Row
  PROVE  RowsOf(T, T)
<1> DEFINE f == [s \in T |-> s]
<1>1. f \in [T -> T] /\ (\A s \in T : SameRow(f[s], s)) /\ \A s, t \in T : f[s] = f[t] => s = t
  BY DEF SameRow
<1> HIDE DEF f
<1> QED
  BY <1>1 DEF RowsOf

(* What a moving request leaves of the one that runs alone. *)
LEMMA FreshMoves ==
  ASSUME RequestsInv, FreshHolds, NEW j \in Requests, NEW d, MovesOn(j, d),
         d.resume \/ (d.resume = request[j].resume /\ d.opts = IF request[j].at = "none" THEN j ELSE request[j].opts),
         \A s \in rows' : \E r \in rows : s.opts = r.opts,
         \A i \in DOMAIN line : i \in DOMAIN line' /\ line'[i] = line[i],
         walk' \in AtWork => hand' = hand /\ walk \in AtWork
  PROVE  FreshHolds'
<1> SUFFICES ASSUME NoResume'
             PROVE  FreshHolds'
  BY DEF FreshHolds
<1>1. request'[j] = d /\ \A i \in Requests \ {j} : request'[i] = request[i]
  BY DEF MovesOn, RequestsInv, RequestsHold
<1>2. ~d.resume /\ NoResume
  <2>1. ~d.resume
    BY <1>1 DEF NoResume
  <2>2. ~request[j].resume
    BY <2>1
  <2> QED
    BY <1>1, <2>1, <2>2 DEF NoResume
<1>3. \A i \in Requests : request'[i].at # "none" => request'[i].opts = i
  BY <1>1, <1>2 DEF FreshHolds
<1>4. RowsInLine' /\ (\A r, s \in rows' : r.opts = s.opts) /\ (walk' \in AtWork => \A r \in rows' : r.opts = hand')
  BY <1>2 DEF FreshHolds, RowsInLine, R!OneFreshRun, NoResume
<1> QED
  BY <1>3, <1>4 DEF FreshHolds, R!OneFreshRun, AtWork, Places

LEMMA FreshStays ==
  ASSUME FreshHolds, UNCHANGED <<request, line, hand>>, \A s \in rows' : \E r \in rows : s.opts = r.opts,
         walk' \in AtWork => walk \in AtWork
  PROVE  FreshHolds'
<1>1. NoResume' = NoResume
  BY DEF NoResume
<1> QED
  BY <1>1 DEF FreshHolds, RowsInLine, R!OneFreshRun, NoResume, AtWork, Places

(* The worker lets the request go. *)
LEMMA RunLets ==
  ASSUME AnswersInv, NEW d \in RequestSet, Released(d), d.at = "done" => judges,
         RowsOf(rows', rows), UNCHANGED <<pipeline, line, next, judges>>,
         runHalts' \in {runHalts, runHalts + 1} \cap (0..RunHalts)
  PROVE  AnswersInv'
<1> USE DEF AnswersInv
<1>1. /\ hand \in Requests /\ MovesOn(hand, d) /\ d.at \in {"new", "done", "error", "cancelled"}
      /\ d.opts = request[hand].opts /\ d.resume = request[hand].resume
      /\ walk' = "idle" /\ hand' = None /\ request[hand].at \in {"running", "cancelled"}
  BY PassesAssumption DEF Released, R!Lets, RequestsInv, HandHolds
<1>2. RequestsInv'
  BY <1>1, RequestMoves DEF Outside
<1>3. RowsHold' /\ \A s \in rows' : \E r \in rows : SameRow(r, s)
  BY RowsOfHold
<1>4. PlaceHolds'
  <2>1. resume' = FALSE /\ lacks' = FALSE /\ answered' = FALSE /\ stopped' = FALSE
    BY DEF Released, R!Lets
  <2>2. resume' \in BOOLEAN /\ lacks' \in BOOLEAN /\ answered' \in BOOLEAN /\ stopped' \in BOOLEAN
    BY <2>1
  <2>3. since' = 0 /\ todo' = {} /\ held' = {}
    BY DEF Released, R!Lets
  <2>5. CauseTyped'
    BY DEF Released, R!Lets, CauseTyped
  <2>4. next' \in Nat /\ since' \in 0..next'
    BY <2>3 DEF RowsHold
  <2> QED
    BY <1>1, <2>2, <2>3, <2>4, <2>5 DEF PlaceHolds, Places
<1>5. WalkHolds'
  BY <1>1 DEF WalkHolds, WalkPlaces, R!NothingLeftBehind
<1>6. EndHolds'
  <2>1. request'[hand] = d /\ \A i \in Requests \ {hand} : request'[i] = request[i]
    BY <1>1 DEF MovesOn, RequestsInv, RequestsHold
  <2> QED
    BY <1>1, <2>1 DEF EndHolds, R!DoneIsJudged
<1>7. FreshHolds'
  <2>1. \A s \in rows' : \E r \in rows : s.opts = r.opts
    BY <1>3 DEF SameRow
  <2> QED
    BY <1>1, <2>1, FreshMoves DEF AtWork
<1> QED
  BY <1>2, <1>3, <1>4, <1>5, <1>6, <1>7

-----------------------------------------------------------------------------
(* The doors and the claim touch no row and no local of the worker. *)

LEMMA RequestStepKeeps ==
  ASSUME AnswersInv, RequestsInv', FreshHolds', UNCHANGED <<pipeline, rows, next, judges, walk, hand>>,
         UNCHANGED <<resume, todo, held, since, lacks, answered, stopped, cause>>,
         \A j \in Requests : request'[j].at = "done" => request[j].at = "done",
         hand # None /\ request[hand].at = "cancelled" => request'[hand].at = "cancelled"
  PROVE  AnswersInv'
<1> USE DEF AnswersInv
<1>1. RowsHold' /\ PlaceHolds'
  BY DEF RowsHold, PlaceHolds, R!OneAnswerEach, CauseTyped
<1>2. WalkHolds'
  BY DEF WalkHolds, Walking, HeldAreOldErrors, FreshIsNew, OldAreSettled, NewAreAlone, TodoIsOpen, R!NothingLeftBehind,
         R!ErrorsOf, R!AnsweredOf
<1>3. EndHolds'
  BY DEF EndHolds, R!DoneIsJudged, RequestsInv, HandHolds
<1> QED
  BY <1>1, <1>2, <1>3

LEMMA AsksNewKeeps ==
  ASSUME AnswersInv, NEW j \in Requests, R!AsksNew(j)
  PROVE  AnswersInv'
<1> USE DEF AnswersInv, R!table, R!locals
<1> DEFINE mid == [request[j] EXCEPT !.at = "asked"]
           d == [mid EXCEPT !.opts = j]
<1>1. /\ request' = [request EXCEPT ![j] = d] /\ request[j].at = "none"
      /\ UNCHANGED <<pipeline, line, rows, next, judges, walk, hand, runHalts>>
      /\ UNCHANGED <<resume, todo, held, since, lacks, answered, stopped, cause>>
  BY DEF R!AsksNew, R!Asks
<1>2. request[j] \in RequestSet /\ request[j].attempts <= MaxAttempts + runHalts /\ request[j].reclaims <= runHalts
  BY DEF RequestsInv, RequestsHold
<1>3. /\ mid \in RequestSet /\ mid.at = "asked" /\ mid.resume = request[j].resume
      /\ mid.attempts = request[j].attempts /\ mid.reclaims = request[j].reclaims
  BY <1>2 DEF RequestSet
<1> HIDE DEF mid
<1>4. /\ d \in RequestSet /\ d.at = "asked" /\ d.opts = j /\ d.resume = request[j].resume
      /\ d.attempts = request[j].attempts /\ d.reclaims = request[j].reclaims
  BY <1>3 DEF RequestSet
<1> HIDE DEF d
<1>5. MovesOn(j, d)
  BY <1>1, <1>2, <1>4 DEF MovesOn
<1>6. request'[j] = d /\ \A i \in Requests \ {j} : request'[i] = request[i]
  BY <1>1 DEF RequestsInv, RequestsHold
<1>a. runHalts' \in {runHalts, runHalts + 1} \cap (0..RunHalts)
  BY <1>1 DEF RequestsInv, RequestsHold
<1>b. hand \in Requests \cup {None} /\ (hand = None <=> walk = "idle") /\ (hand # None => request[hand].at \in {"running", "cancelled"})
  BY DEF RequestsInv, HandHolds
<1>c. j # None
  BY PassesAssumption
<1>d. hand # j
  BY <1>1, <1>b, <1>c
<1>7. hand' \in Requests \cup {None}
      /\ (hand' = None <=> walk' = "idle") /\ (hand' # None => request'[hand'].at \in {"running", "cancelled"})
  BY <1>1, <1>6, <1>b, <1>d
<1>8. RequestsInv'
  BY <1>1, <1>4, <1>5, <1>7, <1>a, RequestMoves DEF Outside
<1>9. FreshHolds'
  BY <1>1, <1>4, <1>5, FreshMoves
<1> QED
  BY <1>1, <1>4, <1>6, <1>b, <1>d, <1>8, <1>9, RequestStepKeeps

LEMMA AsksAgainKeeps ==
  ASSUME AnswersInv, NEW j \in Requests, R!AsksAgain(j)
  PROVE  AnswersInv'
<1> USE DEF AnswersInv, R!table, R!locals
<1> DEFINE o == request[R!Last(line)].opts
           anew == [R!NoJob EXCEPT !.at = "asked"]
           again == [anew EXCEPT !.resume = TRUE]
           d == [again EXCEPT !.opts = o]
<1>1. /\ request' = [request EXCEPT ![j] = d] /\ request[j].at = "none" /\ line # <<>>
      /\ UNCHANGED <<pipeline, line, rows, next, judges, walk, hand, runHalts>>
      /\ UNCHANGED <<resume, todo, held, since, lacks, answered, stopped, cause>>
  BY DEF R!AsksAgain, R!Asks
<1>2. o \in Requests
  <2>1. R!Last(line) = line[Len(line)] /\ Len(line) \in DOMAIN line /\ line[Len(line)] \in Requests
    BY <1>1 DEF RequestsInv, LineHolds, R!Last
  <2>2. request[line[Len(line)]].at \notin Outside
    BY <2>1 DEF RequestsInv, LineHolds
  <2> QED
    BY <2>1, <2>2 DEF RequestsInv, RequestsHold, Outside
<1> HIDE DEF o
<1>3. /\ anew \in RequestSet /\ anew.at = "asked" /\ anew.attempts = 0 /\ anew.reclaims = 0
  BY DEF RequestSet, R!NoJob
<1> HIDE DEF anew
<1>e. /\ again \in RequestSet /\ again.at = "asked" /\ again.resume /\ again.attempts = 0 /\ again.reclaims = 0
  BY <1>3 DEF RequestSet
<1> HIDE DEF again
<1>4. /\ d \in RequestSet /\ d.at = "asked" /\ d.opts \in Requests /\ d.resume /\ d.attempts = 0 /\ d.reclaims = 0
  BY <1>2, <1>e DEF RequestSet
<1> HIDE DEF d
<1>5. MovesOn(j, d)
  BY <1>1, <1>4, BoundsOfPasses DEF MovesOn, RequestsInv, RequestsHold
<1>6. request'[j] = d /\ \A i \in Requests \ {j} : request'[i] = request[i]
  BY <1>1 DEF RequestsInv, RequestsHold
<1>a. runHalts' \in {runHalts, runHalts + 1} \cap (0..RunHalts)
  BY <1>1 DEF RequestsInv, RequestsHold
<1>b. hand \in Requests \cup {None} /\ (hand = None <=> walk = "idle") /\ (hand # None => request[hand].at \in {"running", "cancelled"})
  BY DEF RequestsInv, HandHolds
<1>c. j # None
  BY PassesAssumption
<1>d. hand # j
  BY <1>1, <1>b, <1>c
<1>7. hand' \in Requests \cup {None}
      /\ (hand' = None <=> walk' = "idle") /\ (hand' # None => request'[hand'].at \in {"running", "cancelled"})
  BY <1>1, <1>6, <1>b, <1>d
<1>8. RequestsInv'
  BY <1>1, <1>4, <1>5, <1>7, <1>a, RequestMoves DEF Outside
<1>9. FreshHolds'
  BY <1>1, <1>4, <1>5, FreshMoves
<1> QED
  BY <1>1, <1>4, <1>6, <1>b, <1>d, <1>8, <1>9, RequestStepKeeps

(* A request that is asked, waits, runs or is cancelled keeps all but its place. *)
PlacedAt(j, k) == [request[j] EXCEPT !.at = k]

LEMMA PlacedIs ==
  ASSUME RequestsInv, NEW j \in Requests, request[j].at # "none", NEW k \in {"new", "running", "cancelled"},
         request' = [request EXCEPT ![j].at = k], runHalts' \in {runHalts, runHalts + 1} \cap (0..RunHalts)
  PROVE  /\ MovesOn(j, PlacedAt(j, k)) /\ PlacedAt(j, k).at = k
         /\ PlacedAt(j, k).opts = request[j].opts /\ PlacedAt(j, k).resume = request[j].resume
         /\ request'[j] = PlacedAt(j, k) /\ \A i \in Requests \ {j} : request'[i] = request[i]
<1> DEFINE d == PlacedAt(j, k)
<1>1. /\ request[j] \in RequestSet /\ request[j].attempts <= MaxAttempts + runHalts /\ request[j].reclaims <= runHalts
      /\ request[j].opts \in Requests
  BY DEF RequestsInv, RequestsHold
<1>2. /\ d \in RequestSet /\ d.at = k /\ d.opts = request[j].opts /\ d.resume = request[j].resume
      /\ d.attempts = request[j].attempts /\ d.reclaims = request[j].reclaims
  BY <1>1 DEF RequestSet, PlacedAt
<1>3. request' = [request EXCEPT ![j] = d]
  BY DEF PlacedAt
<1> HIDE DEF d
<1>4. runHalts \in Nat /\ runHalts' \in Nat /\ runHalts <= runHalts' /\ request[j].attempts \in Nat /\ request[j].reclaims \in Nat
  BY <1>1, BoundsOfPasses DEF RequestsInv, RequestsHold, RequestSet
<1>a. d.attempts <= MaxAttempts + runHalts' /\ d.reclaims <= runHalts'
  <2> DEFINE a == request[j].attempts
             c == request[j].reclaims
  <2>1. a \in Nat /\ c \in Nat /\ a <= MaxAttempts + runHalts /\ c <= runHalts /\ d.attempts = a /\ d.reclaims = c
    BY <1>1, <1>2, <1>4
  <2> HIDE DEF a, c
  <2> QED
    BY <1>4, <2>1, BoundsOfPasses
<1>5. MovesOn(j, d)
  BY <1>1, <1>2, <1>3, <1>a DEF MovesOn
<1>6. request'[j] = d /\ \A i \in Requests \ {j} : request'[i] = request[i]
  BY <1>3 DEF RequestsInv, RequestsHold
<1> QED
  BY <1>2, <1>5, <1>6 DEF d

LEMMA QueuesKeeps ==
  ASSUME AnswersInv, NEW j \in Requests, R!Queues(j)
  PROVE  AnswersInv'
<1> USE DEF AnswersInv, R!table, R!locals
<1> DEFINE d == PlacedAt(j, "new")
<1>1. /\ request' = [request EXCEPT ![j].at = "new"] /\ request[j].at = "asked" /\ line' = Append(line, j)
      /\ UNCHANGED <<pipeline, rows, next, judges, walk, hand, runHalts>>
      /\ UNCHANGED <<resume, todo, held, since, lacks, answered, stopped, cause>>
  BY DEF R!Queues
<1>2. runHalts' \in {runHalts, runHalts + 1} \cap (0..RunHalts)
  BY <1>1 DEF RequestsInv, RequestsHold
<1>3. /\ MovesOn(j, d) /\ d.at = "new" /\ d.opts = request[j].opts /\ d.resume = request[j].resume
      /\ request'[j] = d /\ \A i \in Requests \ {j} : request'[i] = request[i]
  BY <1>1, <1>2, PlacedIs
<1> HIDE DEF d
<1>4. /\ line \in Seq(Requests) /\ line' \in Seq(Requests) /\ DOMAIN line' = DOMAIN line \cup {Len(line) + 1}
      /\ line'[Len(line) + 1] = j /\ Len(line) + 1 \notin DOMAIN line /\ \A i \in DOMAIN line : line'[i] = line[i]
  BY <1>1 DEF RequestsInv, LineHolds
<1>5. RequestsHold'
  <2>1. request' \in [Requests -> RequestSet]
    BY <1>3 DEF MovesOn, RequestsInv, RequestsHold
  <2> QED
    BY <1>1, <1>3, <2>1 DEF MovesOn, RequestsInv, RequestsHold
<1>6. LineHolds'
  <2>1. \A i \in DOMAIN line : line[i] # j
    BY <1>1 DEF RequestsInv, LineHolds, Outside
  <2>2. \A i, k \in DOMAIN line' : line'[i] = line'[k] => i = k
    BY <1>4, <2>1 DEF RequestsInv, LineHolds
  <2>3. ASSUME NEW i \in Requests
        PROVE  request'[i].at \notin Outside <=> \E k \in DOMAIN line' : line'[k] = i
    <3>1. CASE i = j
      BY <1>3, <1>4, <3>1 DEF Outside
    <3>2. CASE i # j
      BY <1>3, <1>4, <3>2 DEF RequestsInv, LineHolds
    <3> QED
      BY <3>1, <3>2
  <2> QED
    BY <1>4, <2>2, <2>3 DEF LineHolds
<1>a. hand \in Requests \cup {None} /\ (hand = None <=> walk = "idle") /\ (hand # None => request[hand].at \in {"running", "cancelled"})
  BY DEF RequestsInv, HandHolds
<1>b. hand # j
  BY <1>1, <1>a, PassesAssumption
<1>7. HandHolds'
  BY <1>1, <1>3, <1>a, <1>b DEF HandHolds
<1>8. FreshHolds'
  BY <1>1, <1>3, <1>4, FreshMoves
<1> QED
  BY <1>1, <1>3, <1>5, <1>6, <1>7, <1>8, <1>a, <1>b, RequestStepKeeps DEF RequestsInv

LEMMA CancelsKeeps ==
  ASSUME AnswersInv, NEW j \in Requests, R!Cancels(j)
  PROVE  AnswersInv'
<1> USE DEF AnswersInv, R!table, R!locals
<1> DEFINE d == PlacedAt(j, "cancelled")
<1>1. /\ request' = [request EXCEPT ![j].at = "cancelled"] /\ request[j].at \in {"new", "running"}
      /\ UNCHANGED <<pipeline, line, rows, next, judges, walk, hand>>
      /\ UNCHANGED <<resume, todo, held, since, lacks, answered, stopped, cause>>
  BY DEF R!Cancels, R!Active
<1>2. runHalts' \in {runHalts, runHalts + 1} \cap (0..RunHalts)
  BY BoundsOfPasses DEF RequestsInv, RequestsHold, R!Cancels, R!Halts
<1>3. /\ MovesOn(j, d) /\ d.at = "cancelled" /\ d.opts = request[j].opts /\ d.resume = request[j].resume
      /\ request'[j] = d /\ \A i \in Requests \ {j} : request'[i] = request[i]
  BY <1>1, <1>2, PlacedIs
<1> HIDE DEF d
<1>4. hand' \in Requests \cup {None} /\ (hand' = None <=> walk' = "idle") /\ (hand' # None => request'[hand'].at \in {"running", "cancelled"})
  BY <1>1, <1>3 DEF RequestsInv, HandHolds
<1>5. RequestsInv'
  BY <1>1, <1>2, <1>3, <1>4, RequestMoves DEF Outside
<1>6. FreshHolds'
  BY <1>1, <1>3, FreshMoves
<1> QED
  BY <1>1, <1>3, <1>4, <1>5, <1>6, RequestStepKeeps

LEMMA ClaimsKeeps ==
  ASSUME AnswersInv, NEW j \in Requests, R!Claims(j)
  PROVE  AnswersInv'
<1> USE DEF AnswersInv, R!table, R!locals
<1> DEFINE d == PlacedAt(j, "running")
<1>1. /\ request' = [request EXCEPT ![j].at = "running"] /\ request[j].at = "new" /\ walk = "idle"
      /\ walk' = "checking" /\ hand' = j
      /\ UNCHANGED <<pipeline, line, rows, next, judges, runHalts>>
      /\ UNCHANGED <<resume, todo, held, since, lacks, answered, stopped, cause>>
  BY DEF R!Claims
<1>2. runHalts' \in {runHalts, runHalts + 1} \cap (0..RunHalts)
  BY <1>1 DEF RequestsInv, RequestsHold
<1>3. /\ MovesOn(j, d) /\ d.at = "running" /\ d.opts = request[j].opts /\ d.resume = request[j].resume
      /\ request'[j] = d /\ \A i \in Requests \ {j} : request'[i] = request[i]
  BY <1>1, <1>2, PlacedIs
<1> HIDE DEF d
<1>4. RequestsInv'
  BY <1>1, <1>2, <1>3, RequestMoves, PassesAssumption DEF Outside
<1>5. FreshHolds'
  BY <1>1, <1>3, FreshMoves DEF AtWork
<1>6. RowsHold' /\ PlaceHolds'
  BY <1>1 DEF RowsHold, PlaceHolds, R!OneAnswerEach, Places, CauseTyped
<1>7. WalkHolds'
  BY <1>1 DEF WalkHolds, WalkPlaces, R!NothingLeftBehind
<1>8. EndHolds'
  BY <1>1, <1>3 DEF EndHolds, R!DoneIsJudged
<1> QED
  BY <1>4, <1>5, <1>6, <1>7, <1>8

-----------------------------------------------------------------------------
(* The worker's steps.                                                      *)

(* Whatever ends the attempt: done only from the last place of the handler. *)
LEMMA WorkerLets ==
  ASSUME AnswersInv, walk # "idle", runHalts' \in {runHalts, runHalts + 1} \cap (0..RunHalts),
         UNCHANGED <<pipeline, line, next, judges>>, RowsOf(rows', rows),
         NEW kind \in {"done", "error"}, R!Ends(kind) \/ R!EndsInRetry, kind = "done" => walk = "completing"
  PROVE  AnswersInv'
<1>1. RequestsInv /\ EndHolds
  BY DEF AnswersInv
<1>2. PICK d \in RequestSet : Released(d) /\ (d.at = "done" => kind = "done" /\ request[hand].at # "cancelled")
  BY <1>1, WorkerEnds
<1>3. d.at = "done" => judges
  BY <1>1, <1>2 DEF EndHolds
<1> QED
  BY <1>2, <1>3, RunLets

LEMMA RowsStand ==
  ASSUME AnswersInv, UNCHANGED rows
  PROVE  RowsOf(rows', rows)
  BY RowsOfSelf DEF AnswersInv, RowsHold

LEMMA HaltIs ==
  ASSUME AnswersInv, R!Halts \/ UNCHANGED runHalts
  PROVE  runHalts' \in {runHalts, runHalts + 1} \cap (0..RunHalts)
  BY BoundsOfPasses DEF AnswersInv, RequestsInv, RequestsHold, R!Halts

(* The worker keeps the job in hand and goes on. *)
LEMMA WorkerGoesOn ==
  ASSUME AnswersInv, UNCHANGED <<request, line, hand, pipeline>>, R!Halts \/ UNCHANGED runHalts,
         walk \in AtWork, walk' # "idle", RowsHold', PlaceHolds', WalkHolds', EndHolds',
         \A s \in rows' : \E r \in rows : s.opts = r.opts
  PROVE  AnswersInv'
<1>1. RequestsInv'
  BY HaltIs, RequestsStay DEF AnswersInv, AtWork
<1>2. FreshHolds'
  BY FreshStays DEF AnswersInv
<1> QED
  BY <1>1, <1>2 DEF AnswersInv

LEMMA ChecksKeeps ==
  ASSUME AnswersInv, R!Checks
  PROVE  AnswersInv'
<1> USE DEF R!table
<1>1. walk = "checking" /\ UNCHANGED <<pipeline, line, rows, next, judges>> /\ RowsOf(rows', rows)
  BY RowsStand DEF R!Checks
<1>2. CASE R!Ends("error") /\ UNCHANGED runHalts
  BY <1>1, <1>2, HaltIs, WorkerLets
<1>3. CASE R!Halts /\ R!EndsInRetry
  BY <1>1, <1>3, HaltIs, WorkerLets
<1>4. CASE /\ request[hand].resume \/ ~R!Taken(hand)
           /\ resume' = (request[hand].resume \/ rows # {})
           /\ walk' = "reading"
           /\ UNCHANGED <<request, hand, todo, held, since, lacks, answered, stopped, cause, runHalts>>
  <2> USE <1>4 DEF AnswersInv
  <2>1. RequestsInv'
    BY <1>1, HaltIs, RequestsStay
  <2>2. RowsHold'
    BY <1>1 DEF RowsHold, R!OneAnswerEach
  <2>3. PlaceHolds'
    <3>1. resume' \in BOOLEAN
      OBVIOUS
    <3>2. CauseTyped' /\ walk' \in Places
      BY DEF PlaceHolds, CauseTyped, Places
    <3> QED
      BY <1>1, <3>1, <3>2 DEF PlaceHolds
  <2>4. WalkHolds'
    BY <1>1 DEF WalkHolds, WalkPlaces, R!NothingLeftBehind
  <2>5. EndHolds'
    BY <1>1 DEF EndHolds, R!DoneIsJudged
  <2>6. FreshHolds'
    <3>1. NoResume' = NoResume
      BY DEF NoResume
    <3>2. ASSUME NoResume, NEW r \in rows
          PROVE  r.opts = hand
      <4>1. hand \in Requests
        BY <1>1 DEF RequestsInv, HandHolds
      <4>2. ~request[hand].resume
        BY <3>2, <4>1 DEF NoResume
      <4>3. R!Range(line) \ {hand} = {}
        BY <4>2 DEF R!Taken
      <4>4. PICK i \in DOMAIN line : line[i] = r.opts
        BY <3>2 DEF FreshHolds, RowsInLine
      <4> QED
        BY <4>3, <4>4 DEF R!Range
    <3> QED
      BY <1>1, <3>1, <3>2 DEF FreshHolds, RowsInLine, R!OneFreshRun
  <2> QED
    BY <2>1, <2>2, <2>3, <2>4, <2>5, <2>6
<1> QED
  BY <1>2, <1>3, <1>4 DEF R!Checks

(* Reading the rows settles what an earlier attempt left, and starts a walk. *)
LEMMA ReadsKeeps ==
  ASSUME AnswersInv, R!Reads
  PROVE  AnswersInv'
<1> USE DEF AnswersInv
<1>1. walk = "reading" /\ UNCHANGED <<pipeline, line, next, judges>>
  BY DEF R!Reads
<1>2. CASE R!Halts /\ R!EndsInRetry /\ UNCHANGED rows
  BY <1>1, <1>2, HaltIs, RowsStand, WorkerLets
<1>3. CASE /\ rows' = (IF resume THEN R!Settles(rows) ELSE rows)
           /\ todo' = (IF resume THEN R!UnansweredOf(rows) ELSE Questions)
           /\ lacks' = (todo' # {})
           /\ held' = (IF resume THEN R!ErrorsOf(rows, todo') ELSE {})
           /\ since' = next
           /\ walk' = (IF pipeline = "agent" THEN "answering" ELSE "retrieving")
           /\ UNCHANGED <<request, hand, resume, answered, stopped, cause, runHalts>>
  <2>1. rows \subseteq R!Row /\ next \in Nat /\ (\A r \in rows : r.id < next) /\ (~resume => rows = {})
    BY <1>1 DEF RowsHold, WalkHolds
  <2>2. RowsOf(rows', rows)
    BY <1>3, <2>1, SettlesKeeps, RowsStand
  <2>3. RowsHold' /\ \A s \in rows' : \E r \in rows : SameRow(r, s)
    BY <1>1, <2>2, RowsOfHold
  <2>4. held' \subseteq rows /\ todo' \subseteq Questions
    BY <1>3 DEF R!ErrorsOf, R!UnansweredOf
  <2>5. PlaceHolds'
    <3>1. lacks' \in BOOLEAN
      BY <1>3
    <3>2. CauseTyped' /\ walk' \in Places
      BY <1>3 DEF PlaceHolds, CauseTyped, Places
    <3> QED
      BY <1>1, <1>3, <2>1, <2>4, <3>1, <3>2 DEF PlaceHolds
  <2>6. Walking'
    <3>1. CASE ~resume
      BY <1>3, <2>1, <3>1 DEF Walking, HeldAreOldErrors, FreshIsNew, OldAreSettled, NewAreAlone, TodoIsOpen
    <3>2. CASE resume
      <4>1. /\ \A s \in rows' : \E r \in rows \ LeftOf(rows) : SameRow(r, s) /\ (r.out = "error" => s = r)
            /\ \A r \in rows \ LeftOf(rows) : \E s \in rows' : SameRow(r, s) /\ (r.out = "error" => s = r)
        BY <1>3, <2>1, <3>2, SettlesKeeps
      <4>2. \A r \in rows : r \in LeftOf(rows) <=> r.out = "error" /\ \E s \in rows : s.out = "answer" /\ s.q = r.q
        BY <2>1, LeftIs
      <4>3. /\ \A r \in rows : r.q \in todo' <=> \A s \in rows : s.q = r.q => s.out # "answer"
            /\ \A s \in rows : s.out \in {"answer", "error"}
        BY <1>3, <2>1, <3>2 DEF R!UnansweredOf, R!AnsweredOf, R!Row
      <4>4. \A h : h \in held' <=> h \in rows /\ h.out = "error" /\ h.q \in todo'
        BY <1>3, <3>2 DEF R!ErrorsOf
      <4>5. \A s \in rows' : s.id \in Nat /\ s.id < since' /\ ~(s.id >= since')
        BY <1>3, <2>1, <4>1 DEF SameRow, R!Row
      <4>6. HeldAreOldErrors'
        <5>1. ASSUME NEW h \in held'
              PROVE  h \in rows' /\ h.id < since' /\ h.out = "error"
          <6>1. h \in rows \ LeftOf(rows) /\ h.out = "error"
            BY <4>2, <4>3, <4>4
          <6> QED
            BY <4>1, <4>5, <6>1
        <5>2. ASSUME NEW h \in rows', h.out = "error"
              PROVE  h \in held'
          <6>1. h \in rows \ LeftOf(rows)
            BY <4>1, <5>2 DEF SameRow
          <6> QED
            BY <4>2, <4>3, <4>4, <5>2, <6>1
        <5> QED
          BY <5>1, <5>2 DEF HeldAreOldErrors
      <4>7. OldAreSettled'
        <5> SUFFICES ASSUME NEW r \in rows', NEW s \in rows', r.q = s.q, r.out = "answer"
                     PROVE  s.out = "answer"
          BY DEF OldAreSettled
        <5>1. PICK a \in rows \ LeftOf(rows) : SameRow(a, r)
          BY <4>1
        <5>2. PICK e \in rows \ LeftOf(rows) : SameRow(e, s)
          BY <4>1
        <5>3. a.out = "answer" /\ a.q = e.q /\ e.out = s.out
          BY <5>1, <5>2 DEF SameRow
        <5>4. e.out # "error"
          BY <4>2, <5>1, <5>2, <5>3
        <5> QED
          BY <4>3, <5>2, <5>3, <5>4
      <4>8. TodoIsOpen'
        <5> SUFFICES ASSUME NEW r \in rows', r.q \in todo'
                     PROVE  r.id < since' /\ r.out = "error"
          BY DEF TodoIsOpen
        <5>1. PICK e \in rows \ LeftOf(rows) : SameRow(e, r)
          BY <4>1
        <5> QED
          BY <4>3, <4>5, <5>1 DEF SameRow
      <4>9. FreshIsNew' /\ NewAreAlone'
        BY <1>3, <3>2, <4>5 DEF FreshIsNew, NewAreAlone
      <4> QED
        BY <4>6, <4>7, <4>8, <4>9 DEF Walking
    <3> QED
      BY <3>1, <3>2
  <2>7. WalkHolds' /\ EndHolds' /\ walk' # "idle"
    BY <1>1, <1>3, <2>6 DEF WalkHolds, R!NothingLeftBehind, EndHolds, R!DoneIsJudged
  <2> QED
    BY <1>1, <1>3, <2>3, <2>5, <2>7, WorkerGoesOn DEF SameRow, AtWork, Places
<1> QED
  BY <1>2, <1>3 DEF R!Reads

LEMMA StopsKeeps ==
  ASSUME AnswersInv, walk \in {"retrieving", "answering"}, NEW kind \in {"final", "retry"}, R!Stops(kind), R!Halts \/ UNCHANGED runHalts,
         UNCHANGED <<pipeline, line, rows, next, judges>>
  PROVE  AnswersInv'
<1> USE DEF AnswersInv
<1>1. /\ walk' = "stopping" /\ CauseTyped'
      /\ UNCHANGED <<request, hand, resume, todo, held, since, lacks, answered, stopped>>
  BY DEF R!Stops, CauseTyped
<1>2. RowsHold' /\ PlaceHolds'
  BY <1>1 DEF RowsHold, PlaceHolds, R!OneAnswerEach, Places
<1>3. Walking'
  BY <1>1 DEF WalkHolds, WalkPlaces, Walking, HeldAreOldErrors, FreshIsNew, OldAreSettled, NewAreAlone, TodoIsOpen
<1>4. WalkHolds' /\ EndHolds'
  BY <1>1, <1>3 DEF WalkHolds, R!NothingLeftBehind, EndHolds, R!DoneIsJudged
<1> QED
  BY <1>1, <1>2, <1>4, WorkerGoesOn DEF AtWork, Places

LEMMA RetrievesKeeps ==
  ASSUME AnswersInv, R!Retrieves
  PROVE  AnswersInv'
<1> USE DEF AnswersInv, R!table
<1>1. walk = "retrieving" /\ UNCHANGED <<pipeline, line, rows, next, judges>>
  BY DEF R!Retrieves
<1>2. CASE /\ R!Cancelled
           /\ walk' = "marking" /\ stopped' = TRUE
           /\ UNCHANGED <<request, hand, resume, todo, held, since, lacks, answered, cause, runHalts>>
  <2>1. RowsHold' /\ PlaceHolds'
    <3>1. stopped' \in BOOLEAN
      BY <1>2
    <3> QED
      BY <1>1, <1>2, <3>1 DEF RowsHold, PlaceHolds, R!OneAnswerEach, Places, CauseTyped
  <2>2. Walking'
    BY <1>1, <1>2 DEF WalkHolds, WalkPlaces, Walking, HeldAreOldErrors, FreshIsNew, OldAreSettled, NewAreAlone, TodoIsOpen
  <2>3. WalkHolds' /\ EndHolds'
    BY <1>1, <1>2, <2>2 DEF WalkHolds, R!NothingLeftBehind, EndHolds, R!DoneIsJudged, R!Cancelled
  <2> QED
    BY <1>1, <1>2, <2>1, <2>3, WorkerGoesOn DEF AtWork, Places
<1>3. CASE /\ todo' \in SUBSET todo
           /\ walk' = "answering"
           /\ UNCHANGED <<request, hand, resume, held, since, lacks, answered, stopped, cause, runHalts>>
  <2>1. RowsHold' /\ PlaceHolds'
    BY <1>1, <1>3 DEF RowsHold, PlaceHolds, R!OneAnswerEach, Places, CauseTyped
  <2>2. Walking'
    BY <1>1, <1>3 DEF WalkHolds, WalkPlaces, Walking, HeldAreOldErrors, FreshIsNew, OldAreSettled, NewAreAlone, TodoIsOpen
  <2>3. WalkHolds' /\ EndHolds'
    BY <1>1, <1>3, <2>2 DEF WalkHolds, R!NothingLeftBehind, EndHolds, R!DoneIsJudged
  <2> QED
    BY <1>1, <1>3, <2>1, <2>3, WorkerGoesOn DEF AtWork, Places
<1>4. CASE R!Halts /\ \E kind \in {"final", "retry"} : R!Stops(kind)
  BY <1>1, <1>4, StopsKeeps
<1> QED
  BY <1>2, <1>3, <1>4 DEF R!Retrieves

LEMMA ClosesKeeps ==
  ASSUME AnswersInv, R!Closes
  PROVE  AnswersInv'
<1> USE DEF AnswersInv, R!table
<1>1. walk = "answering" /\ UNCHANGED <<pipeline, line, rows, next, judges, runHalts>> /\ (todo = {} \/ R!Cancelled)
  BY DEF R!Closes
<1>2. CASE R!Stops("final")
  BY <1>1, <1>2, StopsKeeps
<1>3. CASE /\ walk' = "marking" /\ stopped' = (todo # {})
           /\ UNCHANGED <<request, hand, resume, todo, held, since, lacks, answered, cause>>
  <2>1. RowsHold' /\ PlaceHolds'
    <3>1. stopped' \in BOOLEAN
      BY <1>3
    <3> QED
      BY <1>1, <1>3, <3>1 DEF RowsHold, PlaceHolds, R!OneAnswerEach, Places, CauseTyped
  <2>2. Walking'
    BY <1>1, <1>3 DEF WalkHolds, WalkPlaces, Walking, HeldAreOldErrors, FreshIsNew, OldAreSettled, NewAreAlone, TodoIsOpen
  <2>3. WalkHolds'
    BY <1>1, <1>3, <2>2 DEF WalkHolds, R!NothingLeftBehind
  <2>4. EndHolds'
    <3>1. stopped' => todo # {}
      BY <1>3
    <3> QED
      BY <1>1, <1>3, <3>1 DEF EndHolds, R!DoneIsJudged, R!Cancelled
  <2> QED
    BY <1>1, <1>3, <2>1, <2>3, <2>4, WorkerGoesOn DEF AtWork, Places
<1> QED
  BY <1>2, <1>3 DEF R!Closes

(* A question answered, failed or lost: its row is the newest of all. *)
LEMMA AnswersKeeps ==
  ASSUME AnswersInv, NEW q \in Questions, R!Answers(q)
  PROVE  AnswersInv'
<1> USE DEF AnswersInv
<1>1. /\ walk = "answering" /\ q \in todo /\ todo' = todo \ {q}
      /\ UNCHANGED <<pipeline, request, line, judges, walk, hand, resume, held, since, lacks, stopped, cause, runHalts>>
  BY DEF R!Answers
<1>2. RequestsInv'
  BY <1>1, HaltIs, RequestsStay
<1>3. /\ rows \subseteq R!Row /\ next \in Nat /\ (\A r \in rows : r.id < next) /\ since \in 0..next /\ hand \in Requests
      /\ request[hand].opts \in Requests /\ resume \in BOOLEAN /\ answered \in BOOLEAN
  BY <1>1 DEF RowsHold, PlaceHolds, RequestsInv, RequestsHold, HandHolds
<1>4. Walking
  BY <1>1 DEF WalkHolds, WalkPlaces
<1>5. answered' \in BOOLEAN
  BY <1>3 DEF R!Answers
<1>6. EndHolds'
  BY <1>1 DEF EndHolds, R!DoneIsJudged
<1>7. CASE UNCHANGED <<rows, next>>
  <2>1. RowsHold' /\ PlaceHolds'
    BY <1>1, <1>5, <1>7 DEF RowsHold, PlaceHolds, R!OneAnswerEach, CauseTyped
  <2>2. Walking'
    BY <1>1, <1>4, <1>7 DEF Walking, HeldAreOldErrors, FreshIsNew, OldAreSettled, NewAreAlone, TodoIsOpen
  <2>3. WalkHolds' /\ FreshHolds'
    BY <1>1, <1>7, <2>2, FreshStays DEF WalkHolds, R!NothingLeftBehind
  <2> QED
    BY <1>2, <1>6, <2>1, <2>3
<1>8. ASSUME NEW out \in {"answer", "error"}, rows' = rows \cup {R!NewRow(q, out)}, next' = next + 1
      PROVE  AnswersInv'
  <2> DEFINE n == R!NewRow(q, out)
  <2>1. n \in R!Row /\ n.id = next /\ n.q = q /\ n.out = out /\ n.opts = request[hand].opts
    BY <1>3 DEF R!NewRow, R!Row
  <2> HIDE DEF n
  <2>2. rows' = rows \cup {n}
    BY <1>8 DEF n
  <2>3. \A r \in rows : r.id \in Nat /\ r.id < next /\ r.id # n.id /\ (r.q = q => r.id < since /\ r.out = "error")
    BY <1>1, <1>3, <1>4, <2>1 DEF R!Row, Walking, TodoIsOpen
  <2>4. RowsHold'
    <3>1. R!OneAnswerEach'
      BY <2>1, <2>2, <2>3 DEF RowsHold, R!OneAnswerEach
    <3> QED
      BY <1>3, <1>8, <2>1, <2>2, <2>3, <3>1 DEF RowsHold
  <2>5. PlaceHolds'
    <3>1. CauseTyped'
      BY <1>1 DEF PlaceHolds, CauseTyped
    <3> QED
      BY <1>1, <1>3, <1>5, <1>8, <3>1 DEF PlaceHolds
  <2>6. n.id >= since /\ ~(n.id < since)
    BY <1>3, <2>1
  <2>7. Walking'
    <3> USE <1>1, <1>3, <1>4, <2>1, <2>2, <2>3, <2>6 DEF Walking
    <3>1. HeldAreOldErrors'
      BY DEF HeldAreOldErrors
    <3>2. FreshIsNew' /\ OldAreSettled' /\ TodoIsOpen'
      BY DEF FreshIsNew, OldAreSettled, TodoIsOpen
    <3>3. NewAreAlone'
      <4> SUFFICES ASSUME NEW r \in rows', NEW s \in rows', r.id >= since, r.q = s.q, s # r
                   PROVE  s.id < since /\ s.out = "error"
        BY DEF NewAreAlone
      <4>1. CASE r = n
        BY <4>1
      <4>2. CASE r # n /\ s = n
        BY <4>2
      <4>3. CASE r # n /\ s # n
        BY <4>3 DEF NewAreAlone
      <4> QED
        BY <4>1, <4>2, <4>3
    <3> QED
      BY <3>1, <3>2, <3>3
  <2>8. WalkHolds'
    BY <1>1, <2>7 DEF WalkHolds, R!NothingLeftBehind
  <2>9. FreshHolds'
    <3>1. NoResume' = NoResume
      BY <1>1 DEF NoResume
    <3>2. ASSUME NoResume
          PROVE  /\ \A r \in rows' : r.opts = hand
                 /\ \A j \in Requests : request[j].at # "none" => request[j].opts = j
                 /\ \E i \in DOMAIN line : line[i] = hand
      <4>1. request[hand].at \in {"running", "cancelled"}
        BY <1>1 DEF RequestsInv, HandHolds
      <4>2. \A r \in rows : r.opts = hand
        BY <1>1, <3>2 DEF FreshHolds, AtWork, Places
      <4> QED
        BY <1>3, <2>1, <2>2, <3>2, <4>1, <4>2 DEF FreshHolds, RequestsInv, LineHolds, Outside
    <3> QED
      BY <1>1, <3>1, <3>2 DEF FreshHolds, RowsInLine, R!OneFreshRun
  <2> QED
    BY <1>2, <1>6, <2>4, <2>5, <2>8, <2>9
<1> QED
  BY <1>7, <1>8 DEF R!Answers

(* The marks are written, or their write failed and was logged: the attempt ends. *)
LEMMA MarkingIsRows ==
  ASSUME AnswersInv, walk \in {"stopping", "marking"}, rows' = (IF resume THEN R!Marked(rows) ELSE rows) \/ UNCHANGED rows
  PROVE  RowsOf(rows', rows)
<1> USE DEF AnswersInv
<1>1. /\ rows \subseteq R!Row /\ held \subseteq R!Row /\ since \in Nat
      /\ \A h \in held : h.id < since /\ h.out = "error"
  BY DEF RowsHold, PlaceHolds, WalkHolds, WalkPlaces, Walking, HeldAreOldErrors
<1>2. RowsOf(R!Marked(rows), rows)
  BY <1>1, MarkedKeeps
<1> QED
  BY <1>2, RowsStand, RowsOfSelf, <1>1

LEMMA StoppingKeeps ==
  ASSUME AnswersInv, R!Stopping
  PROVE  AnswersInv'
<1>1. walk = "stopping" /\ RowsOf(rows', rows) /\ UNCHANGED <<pipeline, line, next, judges, runHalts>>
  BY MarkingIsRows DEF R!Stopping
<1>2. R!Ends("error") \/ R!EndsInRetry
  BY DEF R!Stopping
<1> QED
  BY <1>1, <1>2, HaltIs, WorkerLets

(* An attempt that marked its rows left no error beside an answer. *)
LEMMA MarksKeeps ==
  ASSUME AnswersInv, R!Marks
  PROVE  AnswersInv'
<1> USE DEF AnswersInv, R!locals
<1>1. walk = "marking" /\ UNCHANGED <<pipeline, line, next, judges>>
  BY DEF R!Marks
<1>2. CASE R!Halts /\ R!EndsInRetry /\ UNCHANGED rows
  BY <1>1, <1>2, HaltIs, RowsStand, WorkerLets
<1>3. CASE /\ rows' = (IF resume THEN R!Marked(rows) ELSE rows)
           /\ walk' = (IF stopped THEN "completing" ELSE "judging")
           /\ UNCHANGED <<request, hand, resume, todo, held, since, lacks, answered, stopped, cause, runHalts>>
  <2>1. RowsHold' /\ \A s \in rows' : \E r \in rows : SameRow(r, s)
    BY <1>1, <1>3, MarkingIsRows, RowsOfHold
  <2>2. PlaceHolds'
    BY <1>1, <1>3 DEF PlaceHolds, Places, CauseTyped
  <2>3. Walking /\ since \in Nat /\ rows \subseteq R!Row /\ held \subseteq R!Row
    BY <1>1 DEF WalkHolds, WalkPlaces, PlaceHolds, RowsHold
  <2>4. ASSUME NEW e \in rows, NEW a \in rows, e.out = "error", a.out = "answer", e.q = a.q
        PROVE  resume /\ e \in GoneOf(rows)
    <3>1. e.id \in Nat /\ a.id \in Nat
      BY <2>3 DEF R!Row
    <3>2. a.id >= since
      BY <2>3, <2>4, <3>1 DEF Walking, OldAreSettled, NewAreAlone
    <3>3. e.id < since /\ e \in held
      BY <2>3, <2>4, <3>1, <3>2 DEF Walking, NewAreAlone, HeldAreOldErrors
    <3> QED
      BY <2>3, <2>4, <3>1, <3>2, <3>3 DEF Walking, FreshIsNew, GoneOf, NewOf
  <2>5. ASSUME NEW e \in rows', NEW a \in rows', e.out = "error", a.out = "answer", e.q = a.q
        PROVE  FALSE
    <3>1. CASE ~resume
      BY <1>3, <2>4, <2>5, <3>1
    <3>2. CASE resume
      <4>1. \A s \in rows' : \E r \in rows \ GoneOf(rows) : SameRow(r, s)
        BY <1>3, <2>3, <3>2, MarkedKeeps DEF Walking, HeldAreOldErrors
      <4>2. PICK d \in rows \ GoneOf(rows) : SameRow(d, e)
        BY <4>1
      <4>3. PICK b \in rows \ GoneOf(rows) : SameRow(b, a)
        BY <4>1
      <4> QED
        BY <2>4, <2>5, <4>2, <4>3 DEF SameRow
    <3> QED
      BY <3>1, <3>2
  <2>6. R!ErrorsOf(rows', R!AnsweredOf(rows')) = {}
    BY <2>5 DEF R!ErrorsOf, R!AnsweredOf
  <2>7. WalkHolds'
    BY <1>3, <2>6 DEF WalkHolds, WalkPlaces, R!NothingLeftBehind
  <2>8. EndHolds'
    BY <1>1, <1>3 DEF EndHolds, R!DoneIsJudged
  <2> QED
    BY <1>1, <1>3, <2>1, <2>2, <2>7, <2>8, WorkerGoesOn DEF SameRow, AtWork, Places
<1> QED
  BY <1>2, <1>3 DEF R!Marks

LEMMA JudgesKeeps ==
  ASSUME AnswersInv, R!Judges
  PROVE  AnswersInv'
<1> USE DEF AnswersInv, R!locals
<1>1. walk = "judging" /\ UNCHANGED <<pipeline, line, rows, next>>
  BY DEF R!Judges
<1>2. CASE R!Halts /\ R!EndsInRetry /\ UNCHANGED judges
  BY <1>1, <1>2, HaltIs, RowsStand, WorkerLets
<1>3. CASE /\ judges' = TRUE /\ walk' = "completing"
           /\ UNCHANGED <<request, hand, resume, todo, held, since, lacks, answered, stopped, cause, runHalts>>
  <2>1. judges' \in BOOLEAN
    BY <1>3
  <2>2. RowsHold' /\ PlaceHolds'
    BY <1>1, <1>3, <2>1 DEF RowsHold, PlaceHolds, R!OneAnswerEach, Places, CauseTyped
  <2>3. WalkHolds'
    BY <1>1, <1>3 DEF WalkHolds, WalkPlaces, R!NothingLeftBehind
  <2>4. EndHolds'
    BY <1>1, <1>3 DEF EndHolds, R!DoneIsJudged
  <2> QED
    BY <1>1, <1>3, <2>2, <2>3, <2>4, WorkerGoesOn DEF AtWork, Places
<1> QED
  BY <1>2, <1>3 DEF R!Judges

LEMMA CompletesKeeps ==
  ASSUME AnswersInv, R!Completes
  PROVE  AnswersInv'
<1>1. walk = "completing" /\ R!Ends("done") /\ UNCHANGED <<pipeline, line, rows, next, judges, runHalts>>
  BY DEF R!Completes, R!table
<1> QED
  BY <1>1, HaltIs, RowsStand, WorkerLets

LEMMA DiesKeeps ==
  ASSUME AnswersInv, R!Dies
  PROVE  AnswersInv'
<1>1. PICK d \in RequestSet : Released(d) /\ d.at # "done"
  BY WorkerDies DEF AnswersInv
<1>2. runHalts' \in {runHalts, runHalts + 1} \cap (0..RunHalts) /\ UNCHANGED <<pipeline, line, rows, next, judges>>
  BY WorkerDies DEF AnswersInv, R!Dies, R!table
<1> QED
  BY <1>1, <1>2, RowsStand, RunLets

LEMMA AnswersStep ==
  ASSUME AnswersInv, [R!Next]_answers
  PROVE  AnswersInv'
<1> USE DEF R!table
<1>1. CASE R!Doors
  BY <1>1, AsksNewKeeps, AsksAgainKeeps, QueuesKeeps, CancelsKeeps DEF R!Doors
<1>2. CASE R!Dies
  BY <1>2, DiesKeeps
<1>3. CASE R!Faults
  BY <1>3, StopsKeeps DEF R!Faults
<1>4. CASE R!Worker
  BY <1>3, <1>4, ClaimsKeeps, ChecksKeeps, ReadsKeeps, RetrievesKeeps, ClosesKeeps, AnswersKeeps, StoppingKeeps, MarksKeeps,
     JudgesKeeps, CompletesKeeps DEF R!Worker
<1>5. CASE UNCHANGED answers
  <2>1. RequestsInv' /\ RowsHold' /\ PlaceHolds'
    BY <1>5 DEF answers, AnswersInv, RequestsInv, RequestsHold, LineHolds, HandHolds, RowsHold, PlaceHolds, R!OneAnswerEach, CauseTyped
  <2>2. WalkHolds'
    BY <1>5 DEF answers, AnswersInv, WalkHolds, Walking, HeldAreOldErrors, FreshIsNew, OldAreSettled, NewAreAlone, TodoIsOpen,
                R!NothingLeftBehind
  <2>3. EndHolds' /\ FreshHolds'
    BY <1>5 DEF answers, AnswersInv, EndHolds, R!DoneIsJudged, FreshHolds, NoResume, RowsInLine, R!OneFreshRun
  <2> QED
    BY <2>1, <2>2, <2>3 DEF AnswersInv
<1> QED
  BY <1>1, <1>2, <1>4, <1>5 DEF R!Next

LEMMA AnswersHold == AnswersInv => R!RunHolds
<1> SUFFICES ASSUME AnswersInv
             PROVE  R!RunHolds
  OBVIOUS
<1> USE DEF AnswersInv
<1>1. R!OneAnswerEach /\ R!NothingLeftBehind /\ R!DoneIsJudged /\ R!OneFreshRun
  <2>1. CASE NoResume
    BY <2>1 DEF RowsHold, WalkHolds, EndHolds, FreshHolds
  <2>2. CASE ~NoResume
    BY <2>2 DEF RowsHold, WalkHolds, EndHolds, NoResume, R!OneFreshRun
  <2> QED
    BY <2>1, <2>2
<1>2. request \in [Requests -> [at : {"none", "asked", "new", "running", "done", "error", "cancelled"}, resume : BOOLEAN,
                                opts : Requests \cup {0}, attempts : 0..MaxAttempts + RunHalts, reclaims : 0..RunHalts]]
  <2>1. ASSUME NEW j \in Requests
        PROVE  request[j].attempts \in 0..MaxAttempts + RunHalts /\ request[j].reclaims \in 0..RunHalts
    <3>1. request[j].attempts \in Nat /\ request[j].reclaims \in Nat
      BY DEF RequestsInv, RequestsHold, RequestSet
    <3> QED
      BY <3>1, BoundsOfPasses DEF RequestsInv, RequestsHold
  <2> QED
    BY <2>1 DEF RequestsInv, RequestsHold, RequestSet
<1>3. line \in Seq(Requests) /\ R!IsInjective(line)
  BY DEF RequestsInv, LineHolds, R!IsInjective
<1>4. cause \in {"", "final", "retry"}
  BY DEF PlaceHolds, CauseTyped
<1>5. R!TypeOK
  BY <1>2, <1>3, <1>4 DEF RequestsInv, RequestsHold, HandHolds, RowsHold, PlaceHolds, Places, R!TypeOK
<1> QED
  BY <1>1, <1>5 DEF R!RunHolds

(* An error row goes only with a row that says so. *)
LEMMA AnswersTell ==
  ASSUME AnswersInv, [R!Next]_answers, NEW r \in rows, r.id \notin R!Ids(rows')
  PROVE  Told(r, rows')
<1> USE DEF AnswersInv, R!table
<1>1. rows \subseteq R!Row /\ r \notin rows'
  BY DEF RowsHold, R!Ids
<1>2. CASE rows' = R!Settles(rows)
  <2>1. r \in LeftOf(rows)
    <3>1. CASE r \notin LeftOf(rows)
      <4>1. PICK s \in rows' : SameRow(r, s)
        BY <1>1, <1>2, <3>1, SettlesKeeps
      <4> QED
        BY <4>1 DEF SameRow, R!Ids
    <3> QED
      BY <3>1
  <2> QED
    BY <1>1, <1>2, <2>1, SettlesKeeps
<1>3. CASE walk \in {"stopping", "marking"} /\ rows' = R!Marked(rows)
  <2>1. held \subseteq R!Row /\ since \in Nat /\ \A h \in held : h.id < since /\ h.out = "error"
    BY <1>3 DEF RowsHold, PlaceHolds, WalkHolds, WalkPlaces, Walking, HeldAreOldErrors
  <2>2. r \in GoneOf(rows)
    <3>1. CASE r \notin GoneOf(rows)
      <4>1. PICK s \in rows' : SameRow(r, s)
        BY <1>1, <1>3, <2>1, <3>1, MarkedKeeps
      <4> QED
        BY <4>1 DEF SameRow, R!Ids
    <3> QED
      BY <3>1
  <2> QED
    BY <1>1, <1>3, <2>1, <2>2, MarkedKeeps
<1>4. rows' # rows
  BY <1>1
<1>5. CASE R!Doors \/ R!Dies
  BY <1>4, <1>5 DEF R!Doors, R!Dies, R!AsksNew, R!AsksAgain, R!Queues, R!Cancels
<1>6. CASE R!Worker
  <2>1. \A q \in Questions : ~R!Answers(q)
    BY <1>1 DEF R!Answers
  <2>2. R!Reads \/ R!Stopping \/ R!Marks
    BY <1>4, <1>6, <2>1 DEF R!Worker, R!Claims, R!Checks, R!Retrieves, R!Faults, R!Closes, R!Judges, R!Completes
  <2> QED
    BY <1>2, <1>3, <1>4, <2>2 DEF R!Reads, R!Stopping, R!Marks
<1> QED
  BY <1>4, <1>5, <1>6 DEF R!Next, answers

-----------------------------------------------------------------------------
(* The judge's passes: the rows, the jobs and the pass of the job in hand.  *)

RowsTyped ==
  /\ score \in [Rows -> [Axes -> {"none", "low", "high"}]]
  /\ tries \in [Rows -> [Axes -> Nat]] /\ stamp \in [Rows -> [Axes -> BOOLEAN]]
  /\ skipped \in [Rows -> BOOLEAN] /\ settled \in [Rows -> BOOLEAN]
WhyTyped == why \in {"", "final", "retry"}
InFlight == [item : Items, axes : SUBSET Axes]
OfJob(d) == d.kind # "live" /\ ~d.control

(* what a job keeps: its kind's list, and a control that a door chose *)
JobKept(d) == /\ d \in Job
              /\ d.kind = "forced" => d.list = Doubled
              /\ d.kind = "live" => d.list \subseteq LiveRows
              /\ d.kind = "live" /\ d.at = "done" => d.walked = d.list
JobsHold ==
  /\ asked \subseteq LiveRows /\ failed \in BOOLEAN /\ halts \in 0..MaxHalts /\ jobs \in Seq(Job)
  /\ \A j \in DOMAIN jobs : JobKept(jobs[j])
  /\ \A j \in DOMAIN jobs : OfJob(jobs[j]) => \E d \in Doored : OfJob(jobs[d])
  /\ \A r \in asked : \E j \in DOMAIN jobs : jobs[j].kind = "live" /\ r \in jobs[j].list

(* the pass: what is in flight is of the job in hand, and only while it walks or stops *)
PassTyped ==
  /\ at \in {"idle", "walking", "closing", "sweeping", "stopping"}
  /\ run \in 0..Len(jobs) /\ (run = 0 <=> at = "idle") /\ wrote \in BOOLEAN /\ WhyTyped
  /\ owed \subseteq Rows /\ left \subseteq Items /\ flying \subseteq InFlight
  /\ IsFiniteSet(flying) /\ Cardinality(flying) <= Width
  /\ at \in {"idle", "closing", "sweeping"} => flying = {}
  /\ at # "walking" => left = {}
OfKind(k) == IF k = "run" THEN RunRows ELSE IF k = "forced" THEN Doubled ELSE LiveRows
JobInHand(d) ==
  /\ d.at \in {"running", "cancelled"} /\ owed \subseteq OfKind(d.kind)
  /\ at = "sweeping" => d.kind = "run"
  /\ d.kind = "live" /\ d.at = "running" /\ at = "walking" => d.list = d.walked \cup {i[1] : i \in left}
  /\ d.kind = "live" /\ d.at = "running" /\ at = "closing" => d.walked = d.list
PassRows ==
  /\ \A i \in left : i[1] \in owed
  /\ \A f \in flying : f.item[1] \in owed
  /\ \A f \in flying : jobs[run].control /\ f.item[1] \notin Sample => "control" \notin f.axes
(* a pass that is not forced calls for an axis of a row once, and only while it has no score *)
PassOnce ==
  run # 0 /\ jobs[run].kind # "forced" =>
    /\ \A i \in left : i[2] = 1
    /\ \A f \in flying : f.item[2] = 1 /\ f.item \notin left /\ \A a \in f.axes : score[f.item[1]][a] = "none"
    /\ \A f, g \in flying : f.item = g.item => f = g
PassHolds == PassTyped /\ (run # 0 => JobInHand(jobs[run])) /\ PassRows /\ PassOnce

(* what is still owed once a pass closes has another job, or the experiment was told *)
OthersFollow ==
  at = "closing" /\ jobs[run].kind = "run" =>
    \/ jobs[run].at = "cancelled" \/ Debts = {} \/ failed
    \/ \E j \in DOMAIN jobs \ {run} : jobs[j].kind = "run" /\ jobs[j].at \in {"new", "running", "cancelled"}
VerdictsInv == RowsTyped /\ ColumnsAgree /\ JobsHold /\ PassHolds /\ DebtIsFollowed /\ OthersFollow /\ ControlInSample

LEMMA VerdictsInit == Init => VerdictsInv
<1> SUFFICES ASSUME Init
             PROVE  VerdictsInv
  OBVIOUS
<1>a. /\ asked = {} /\ jobs = <<>> /\ at = "idle" /\ run = 0 /\ owed = {} /\ left = {} /\ flying = {} /\ halts = 0
  BY DEF Init
<1>b. failed \in BOOLEAN /\ wrote \in BOOLEAN
  BY DEF Init
<1>1. RowsTyped
  BY DEF Init, RowsTyped
<1>2. ColumnsAgree
  BY DEF Init, ColumnsAgree, Axes
<1>3. JobsHold
  BY <1>a, <1>b, BoundsOfPasses DEF JobsHold
<1>4. WhyTyped
  BY DEF Init, WhyTyped
<1>5. IsFiniteSet(flying) /\ Cardinality(flying) <= Width
  BY <1>a, FS_EmptySet, JudgingAssumption
<1>6. PassHolds
  BY <1>a, <1>b, <1>4, <1>5 DEF PassHolds, PassTyped, PassRows, PassOnce
<1>7. DebtIsFollowed /\ OthersFollow
  BY <1>a DEF DebtIsFollowed, OthersFollow
<1>8. ControlInSample
  BY DEF Init, ControlInSample, Rows, Axes
<1> QED
  BY <1>1, <1>2, <1>3, <1>6, <1>7, <1>8 DEF VerdictsInv

LEMMA VerdictsInvHolds == VerdictsInv => VerdictsHold
  BY DEF VerdictsInv, VerdictsHold, TypeOK, RowsTyped, JobsHold, JobKept, PassHolds, PassTyped, WhyTyped, LiveIsWalked

(* A job moves on and keeps its kind, its control and its sweep. *)
Carries(d, e) == JobKept(d) /\ d.kind = e.kind /\ d.control = e.control /\ d.sweep = e.sweep
JobMoves(j, d) == j \in DOMAIN jobs /\ jobs' = [jobs EXCEPT ![j] = d] /\ Carries(d, jobs[j])

LEMMA JobMovesIs ==
  ASSUME JobsHold, NEW j, NEW d, JobMoves(j, d)
  PROVE  /\ jobs' \in Seq(Job) /\ DOMAIN jobs' = DOMAIN jobs /\ Len(jobs') = Len(jobs) /\ DOMAIN jobs = 1..Len(jobs)
         /\ jobs'[j] = d /\ \A i \in DOMAIN jobs \ {j} : jobs'[i] = jobs[i]
         /\ \A i \in DOMAIN jobs : /\ jobs'[i].kind = jobs[i].kind /\ jobs'[i].control = jobs[i].control
                                   /\ jobs'[i].sweep = jobs[i].sweep
<1>1. jobs \in Seq(Job) /\ d \in Job
  BY DEF JobsHold, JobMoves, Carries, JobKept
<1>2. /\ jobs' \in Seq(Job) /\ DOMAIN jobs' = DOMAIN jobs /\ Len(jobs') = Len(jobs) /\ DOMAIN jobs = 1..Len(jobs)
      /\ jobs'[j] = d /\ \A i \in DOMAIN jobs \ {j} : jobs'[i] = jobs[i]
  BY <1>1 DEF JobMoves
<1> QED
  BY <1>2 DEF JobMoves, Carries

LEMMA JobsKept ==
  ASSUME JobsHold, NEW j, NEW d, JobMoves(j, d), d.list = jobs[j].list, UNCHANGED asked,
         failed' \in BOOLEAN, halts' \in 0..MaxHalts
  PROVE  JobsHold'
<1>1. /\ jobs' \in Seq(Job) /\ DOMAIN jobs' = DOMAIN jobs
      /\ jobs'[j] = d /\ \A i \in DOMAIN jobs \ {j} : jobs'[i] = jobs[i]
      /\ \A i \in DOMAIN jobs : /\ jobs'[i].kind = jobs[i].kind /\ jobs'[i].control = jobs[i].control
                                /\ jobs'[i].sweep = jobs[i].sweep /\ jobs'[i].list = jobs[i].list
  BY JobMovesIs
<1>2. \A i \in DOMAIN jobs' : JobKept(jobs'[i])
  BY <1>1 DEF JobsHold, JobMoves, Carries
<1>3. (\A i \in DOMAIN jobs : OfJob(jobs'[i]) = OfJob(jobs[i])) /\ Doored' = Doored /\ Doored \subseteq DOMAIN jobs
  BY <1>1 DEF OfJob, Doored
<1>4. \A i \in DOMAIN jobs' : OfJob(jobs'[i]) => \E e \in Doored' : OfJob(jobs'[e])
  BY <1>1, <1>3 DEF JobsHold
<1> QED
  BY <1>1, <1>2, <1>4 DEF JobsHold

(* A job is added behind the others. *)
LEMMA JobAddsIs ==
  ASSUME JobsHold, NEW d \in Job, jobs' = Append(jobs, d)
  PROVE  /\ jobs' \in Seq(Job) /\ DOMAIN jobs = 1..Len(jobs) /\ Len(jobs') = Len(jobs) + 1 /\ Len(jobs) \in Nat
         /\ DOMAIN jobs' = DOMAIN jobs \cup {Len(jobs) + 1} /\ Len(jobs) + 1 \notin DOMAIN jobs
         /\ jobs'[Len(jobs) + 1] = d /\ \A i \in DOMAIN jobs : jobs'[i] = jobs[i]
  BY DEF JobsHold

LEMMA JobsGrow ==
  ASSUME JobsHold, NEW d, JobKept(d), jobs' = Append(jobs, d), failed' \in BOOLEAN, halts' \in 0..MaxHalts,
         asked' \subseteq asked \cup (IF d.kind = "live" THEN d.list ELSE {}),
         d.kind # "live" /\ ~d.control => d.sweep = 0 \/ \E j \in DOMAIN jobs : OfJob(jobs[j])
  PROVE  JobsHold'
<1>1. /\ jobs' \in Seq(Job) /\ d \in Job
      /\ DOMAIN jobs' = DOMAIN jobs \cup {Len(jobs) + 1} /\ Len(jobs) + 1 \notin DOMAIN jobs
      /\ jobs'[Len(jobs) + 1] = d /\ \A i \in DOMAIN jobs : jobs'[i] = jobs[i]
  BY JobAddsIs DEF JobKept
<1>2. \A i \in DOMAIN jobs' : JobKept(jobs'[i])
  BY <1>1 DEF JobsHold
<1>3. Doored' = Doored \cup (IF d.kind # "live" /\ d.sweep = 0 THEN {Len(jobs) + 1} ELSE {}) /\ Doored \subseteq DOMAIN jobs
  BY <1>1 DEF Doored
<1>4. \A i \in DOMAIN jobs' : OfJob(jobs'[i]) => \E e \in Doored' : OfJob(jobs'[e])
  <2>1. ASSUME NEW i \in DOMAIN jobs, OfJob(jobs[i])
        PROVE  \E e \in Doored' : OfJob(jobs'[e])
    <3>1. PICK e \in Doored : OfJob(jobs[e])
      BY <2>1 DEF JobsHold
    <3> QED
      BY <1>1, <1>3, <3>1
  <2>2. ASSUME OfJob(d)
        PROVE  \E e \in Doored' : OfJob(jobs'[e])
    <3>1. CASE d.sweep = 0
      BY <1>1, <1>3, <2>2, <3>1 DEF OfJob
    <3>2. CASE d.sweep # 0
      BY <2>1, <2>2, <3>2 DEF OfJob
    <3> QED
      BY <3>1, <3>2
  <2> QED
    BY <1>1, <2>1, <2>2
<1>5. \A r \in asked' : \E j \in DOMAIN jobs' : jobs'[j].kind = "live" /\ r \in jobs'[j].list
  <2>1. ASSUME NEW r \in asked
        PROVE  \E j \in DOMAIN jobs' : jobs'[j].kind = "live" /\ r \in jobs'[j].list
    <3>1. PICK j \in DOMAIN jobs : jobs[j].kind = "live" /\ r \in jobs[j].list
      BY DEF JobsHold
    <3> QED
      BY <1>1, <3>1
  <2> QED
    BY <1>1, <2>1
<1>6. asked' \subseteq LiveRows
  BY DEF JobsHold, JobKept
<1> QED
  BY <1>1, <1>2, <1>4, <1>5, <1>6 DEF JobsHold

Active == {"new", "running", "cancelled"}
LEMMA HandIsAJob ==
  ASSUME VerdictsInv, run # 0
  PROVE  run \in DOMAIN jobs /\ JobInHand(jobs[run]) /\ jobs[run] \in Job /\ JobKept(jobs[run])
  BY DEF VerdictsInv, JobsHold, JobKept, PassHolds, PassTyped

(* What happens outside the pass: jobs come, are joined or are cancelled. *)
LEMMA DoorsKeep ==
  ASSUME VerdictsInv, JobsHold', UNCHANGED <<row, at, run, pass>>, DOMAIN jobs \subseteq DOMAIN jobs', Len(jobs) <= Len(jobs'),
         \A j \in DOMAIN jobs : /\ jobs'[j].kind = jobs[j].kind /\ jobs'[j].control = jobs[j].control
                                /\ jobs'[j].sweep = jobs[j].sweep
                                /\ jobs[j].at \in Active => jobs'[j].at \in Active,
         run # 0 => jobs'[run] = jobs[run] \/ jobs'[run].at = "cancelled",
         failed => failed',
         \A j \in DOMAIN jobs' \ DOMAIN jobs : jobs'[j].at = "new"
  PROVE  VerdictsInv'
<1> USE DEF row, pass
<1>0. RowsTyped' /\ ColumnsAgree'
  BY DEF VerdictsInv, RowsTyped, ColumnsAgree
<1>1. PassTyped'
  <2>1. run \in 0..Len(jobs')
    BY DEF VerdictsInv, PassHolds, PassTyped, JobsHold
  <2>2. WhyTyped'
    BY DEF VerdictsInv, PassHolds, PassTyped, WhyTyped
  <2> QED
    BY <2>1, <2>2 DEF VerdictsInv, PassHolds, PassTyped
<1>2. run # 0 => JobInHand(jobs[run])'
  <2> SUFFICES ASSUME run # 0
               PROVE  JobInHand(jobs[run])'
    OBVIOUS
  <2>1. run \in DOMAIN jobs /\ JobInHand(jobs[run]) /\ jobs'[run].kind = jobs[run].kind
    BY HandIsAJob
  <2>2. CASE jobs'[run] = jobs[run]
    BY <2>1, <2>2 DEF JobInHand
  <2>3. CASE jobs'[run].at = "cancelled"
    BY <2>1, <2>3 DEF JobInHand
  <2> QED
    BY <2>2, <2>3
<1>3. PassRows' /\ PassOnce'
  <2>1. run # 0 => jobs'[run].kind = jobs[run].kind /\ jobs'[run].control = jobs[run].control
    BY HandIsAJob
  <2>2. run = 0 => flying = {}
    BY DEF VerdictsInv, PassHolds, PassTyped
  <2> QED
    BY <2>1, <2>2 DEF VerdictsInv, PassHolds, PassRows, PassOnce
<1>4. Debts' = Debts
  BY DEF Debts, StillToJudge
<1>5. DebtIsFollowed'
  <2> SUFFICES ASSUME NEW j \in DOMAIN jobs', jobs'[j].kind = "run", Debts \ Listed' # {}, ~failed'
               PROVE  \E i \in DOMAIN jobs' : jobs'[i].kind = "run" /\ jobs'[i].at \in Active
    BY <1>4 DEF DebtIsFollowed, Active
  <2>1. CASE j \in DOMAIN jobs
    <3>1. Listed \subseteq Listed'
      <4>1. ASSUME NEW i \in DOMAIN jobs, jobs[i].kind = "forced"
            PROVE  jobs[i].list = jobs'[i].list /\ jobs'[i].kind = "forced"
        BY <4>1 DEF VerdictsInv, JobsHold, JobKept
      <4> QED
        BY <4>1 DEF Listed
    <3>2. PICK i \in DOMAIN jobs : jobs[i].kind = "run" /\ jobs[i].at \in Active
      BY <2>1, <3>1 DEF VerdictsInv, DebtIsFollowed, Active
    <3> QED
      BY <3>2
  <2>2. CASE j \notin DOMAIN jobs
    BY <2>2 DEF Active
  <2> QED
    BY <2>1, <2>2
<1>6. OthersFollow'
  <2> SUFFICES ASSUME at = "closing", jobs'[run].kind = "run"
               PROVE  \/ jobs'[run].at = "cancelled" \/ Debts = {} \/ failed'
                      \/ \E j \in DOMAIN jobs' \ {run} : jobs'[j].kind = "run" /\ jobs'[j].at \in Active
    BY <1>4 DEF OthersFollow, Active
  <2>1. run # 0 /\ run \in DOMAIN jobs
    BY HandIsAJob DEF VerdictsInv, PassHolds, PassTyped
  <2>2. jobs[run].at = "cancelled" => jobs'[run].at = "cancelled"
    BY <2>1
  <2>3. ASSUME NEW j \in DOMAIN jobs \ {run}, jobs[j].kind = "run", jobs[j].at \in Active
        PROVE  j \in DOMAIN jobs' \ {run} /\ jobs'[j].kind = "run" /\ jobs'[j].at \in Active
    BY <2>3
  <2> QED
    BY <2>1, <2>2, <2>3 DEF VerdictsInv, OthersFollow, Active
<1>7. ControlInSample'
  <2>1. Doored \subseteq Doored' /\ Doored \subseteq DOMAIN jobs
    BY DEF Doored
  <2> QED
    BY <2>1 DEF VerdictsInv, ControlInSample
<1>8. (run # 0 => JobInHand(jobs[run]))'
  BY <1>2
<1> QED
  BY <1>0, <1>1, <1>3, <1>5, <1>6, <1>7, <1>8 DEF VerdictsInv, PassHolds

LEMMA NewJobIs ==
  ASSUME NEW kind \in {"run", "forced", "live"}, NEW control \in BOOLEAN, NEW list \in SUBSET Rows
  PROVE  LET d == NewJob(kind, control, list)
         IN  /\ d \in Job /\ d.kind = kind /\ d.control = control /\ d.list = list
             /\ d.sweep = 0 /\ d.attempts = 0 /\ d.at = "new" /\ d.walked = {}
  BY JudgingAssumption DEF NewJob, Job

LEMMA DoorAdds ==
  ASSUME VerdictsInv, UNCHANGED <<row, at, run, pass, failed, halts>>, NEW d, JobKept(d), d.sweep = 0, d.at = "new",
         jobs' = Append(jobs, d), asked' \subseteq asked \cup (IF d.kind = "live" THEN d.list ELSE {})
  PROVE  VerdictsInv'
<1>1. JobsHold /\ d \in Job /\ failed \in BOOLEAN /\ halts \in 0..MaxHalts
  BY DEF VerdictsInv, JobsHold, JobKept
<1>2. JobsHold'
  BY <1>1, JobsGrow
<1>3. /\ Len(jobs') = Len(jobs) + 1 /\ Len(jobs) \in Nat
      /\ DOMAIN jobs' = DOMAIN jobs \cup {Len(jobs) + 1} /\ Len(jobs) + 1 \notin DOMAIN jobs
      /\ jobs'[Len(jobs) + 1] = d /\ \A i \in DOMAIN jobs : jobs'[i] = jobs[i]
  BY <1>1, JobAddsIs
<1>4. run # 0 => run \in DOMAIN jobs
  BY HandIsAJob
<1> QED
  BY <1>2, <1>3, <1>4, DoorsKeep

LEMMA AsksKeep ==
  ASSUME VerdictsInv, (\E control \in BOOLEAN : AsksForRun(control)) \/ AsksForList
  PROVE  VerdictsInv'
<1>1. CASE \E control \in BOOLEAN : AsksForRun(control)
  <2>1. PICK control \in BOOLEAN : AsksForRun(control)
    BY <1>1
  <2> DEFINE d == NewJob("run", control, {})
  <2>2. d \in Job /\ d.kind = "run" /\ d.sweep = 0 /\ d.at = "new"
    BY NewJobIs
  <2>3. jobs' = Append(jobs, d) /\ UNCHANGED <<row, asked, at, run, pass, failed, halts>>
    BY <2>1 DEF AsksForRun
  <2> HIDE DEF d
  <2> QED
    BY <2>2, <2>3, DoorAdds DEF JobKept
<1>2. CASE AsksForList
  <2> DEFINE d == NewJob("forced", FALSE, Doubled)
  <2>1. d \in Job /\ d.kind = "forced" /\ d.sweep = 0 /\ d.at = "new" /\ d.list = Doubled
    <3>1. Doubled \in SUBSET Rows
      BY JudgingAssumption DEF Rows
    <3> QED
      BY <3>1, JudgingAssumption DEF NewJob, Job
  <2>2. jobs' = Append(jobs, d) /\ UNCHANGED <<row, asked, at, run, pass, failed, halts>>
    BY <1>2 DEF AsksForList
  <2> HIDE DEF d
  <2> QED
    BY <2>1, <2>2, DoorAdds DEF JobKept
<1> QED
  BY <1>1, <1>2

(* An answer joins a batch that no worker has claimed, or starts one. *)
LEMMA LiveKeeps ==
  ASSUME VerdictsInv, NEW r \in LiveRows, JudgeLive(r)
  PROVE  VerdictsInv'
<1>1. asked' = asked \cup {r} /\ UNCHANGED <<row, at, run, pass, failed, halts>>
  BY DEF JudgeLive
<1>2. CASE jobs' = Append(jobs, NewJob("live", FALSE, {r}))
  <2> DEFINE d == NewJob("live", FALSE, {r})
  <2>1. d \in Job /\ d.kind = "live" /\ d.sweep = 0 /\ d.at = "new" /\ d.list = {r}
    <3>1. {r} \in SUBSET Rows
      BY DEF Rows
    <3> QED
      BY <3>1, NewJobIs
  <2>2. jobs' = Append(jobs, d)
    BY <1>2
  <2> HIDE DEF d
  <2> QED
    BY <1>1, <2>1, <2>2, DoorAdds DEF JobKept
<1>3. CASE \E j \in DOMAIN jobs : Waits(j) /\ jobs' = [jobs EXCEPT ![j].list = @ \cup {r}]
  <2>1. PICK j \in DOMAIN jobs : Waits(j) /\ jobs' = [jobs EXCEPT ![j].list = @ \cup {r}]
    BY <1>3
  <2> DEFINE old == jobs[j]
             list == old.list \cup {r}
             d == [old EXCEPT !.list = list]
  <2>2. old \in Job /\ old.kind = "live" /\ old.at = "new" /\ old.list \subseteq LiveRows /\ JobsHold
    BY <2>1 DEF VerdictsInv, JobsHold, JobKept, Waits
  <2>3. jobs' = [jobs EXCEPT ![j] = d]
    BY <2>1
  <2>4. list \subseteq LiveRows /\ list \subseteq Rows /\ old.list \subseteq list /\ r \in list
    BY <2>2 DEF Rows
  <2> HIDE DEF list
  <2>5. /\ d \in Job /\ d.kind = "live" /\ d.at = "new" /\ d.list = list /\ d.control = old.control /\ d.sweep = old.sweep
    BY <2>2, <2>4 DEF Job
  <2> HIDE DEF d
  <2>6. JobMoves(j, d)
    BY <2>2, <2>3, <2>4, <2>5 DEF JobMoves, Carries, JobKept
  <2>7. /\ jobs' \in Seq(Job) /\ DOMAIN jobs' = DOMAIN jobs /\ Len(jobs') = Len(jobs) /\ DOMAIN jobs = 1..Len(jobs)
        /\ jobs'[j] = d /\ \A i \in DOMAIN jobs \ {j} : jobs'[i] = jobs[i]
        /\ \A i \in DOMAIN jobs : /\ jobs'[i].kind = jobs[i].kind /\ jobs'[i].control = jobs[i].control
                                  /\ jobs'[i].sweep = jobs[i].sweep
    BY <2>2, <2>6, JobMovesIs
  <2>8. JobsHold'
    <3>1. \A i \in DOMAIN jobs' : JobKept(jobs'[i])
      BY <2>2, <2>6, <2>7 DEF JobsHold, JobMoves, Carries
    <3>2. Doored' = Doored /\ Doored \subseteq DOMAIN jobs
      BY <2>7 DEF Doored
    <3>3. \A i \in DOMAIN jobs' : OfJob(jobs'[i]) => \E e \in Doored' : OfJob(jobs'[e])
      BY <2>2, <2>7, <3>2 DEF JobsHold, OfJob
    <3>4. \A q \in asked' : \E i \in DOMAIN jobs' : jobs'[i].kind = "live" /\ q \in jobs'[i].list
      BY <1>1, <2>2, <2>4, <2>5, <2>7 DEF JobsHold
    <3> QED
      BY <1>1, <2>2, <2>7, <3>1, <3>3, <3>4 DEF JobsHold
  <2>9. run # 0 => run # j /\ run \in DOMAIN jobs
    BY <2>2, HandIsAJob DEF JobInHand
  <2> QED
    BY <1>1, <2>2, <2>5, <2>7, <2>8, <2>9, DoorsKeep DEF Active, VerdictsInv, JobsHold
<1> QED
  BY <1>2, <1>3 DEF JudgeLive

PlacedJob(d, k) == [d EXCEPT !.at = k]
LEMMA PlacedJobIs ==
  ASSUME NEW d \in Job, NEW k \in {"new", "running", "done", "error", "cancelled"}
  PROVE  LET e == PlacedJob(d, k)
         IN  /\ e \in Job /\ e.at = k /\ e.kind = d.kind /\ e.control = d.control /\ e.list = d.list /\ e.sweep = d.sweep
             /\ e.walked = d.walked /\ e.attempts = d.attempts
  BY DEF PlacedJob, Job

LEMMA CancelKeeps ==
  ASSUME VerdictsInv, NEW j \in DOMAIN jobs, Cancels(j)
  PROVE  VerdictsInv'
<1> DEFINE d == PlacedJob(jobs[j], "cancelled")
<1>1. jobs' = [jobs EXCEPT ![j] = d] /\ jobs[j].at \in {"new", "running"} /\ UNCHANGED <<row, asked, at, run, pass>>
  BY DEF Cancels, PlacedJob
<1>2. jobs[j] \in Job /\ JobKept(jobs[j]) /\ JobsHold /\ failed \in BOOLEAN /\ halts \in 0..MaxHalts
  BY DEF VerdictsInv, JobsHold, JobKept
<1>3. /\ d \in Job /\ d.at = "cancelled" /\ d.kind = jobs[j].kind /\ d.control = jobs[j].control /\ d.list = jobs[j].list
      /\ d.sweep = jobs[j].sweep
  BY <1>2, PlacedJobIs
<1> HIDE DEF d
<1>4. JobMoves(j, d)
  BY <1>1, <1>2, <1>3 DEF JobMoves, Carries, JobKept
<1>5. failed' \in BOOLEAN /\ (failed => failed') /\ halts' \in 0..MaxHalts
  <2>1. failed' \in BOOLEAN /\ (failed => failed')
    BY <1>2 DEF Cancels
  <2> QED
    BY <1>2, <2>1, BoundsOfPasses DEF Cancels, Halts
<1>6. JobsHold'
  BY <1>1, <1>2, <1>3, <1>4, <1>5, JobsKept
<1>7. /\ DOMAIN jobs' = DOMAIN jobs /\ Len(jobs') = Len(jobs) /\ Len(jobs) \in Nat /\ jobs'[j] = d
      /\ \A i \in DOMAIN jobs \ {j} : jobs'[i] = jobs[i]
      /\ \A i \in DOMAIN jobs : /\ jobs'[i].kind = jobs[i].kind /\ jobs'[i].control = jobs[i].control
                                /\ jobs'[i].sweep = jobs[i].sweep
  BY <1>2, <1>4, JobMovesIs DEF JobsHold
<1>8. run # 0 => run \in DOMAIN jobs
  BY HandIsAJob
<1> QED
  BY <1>1, <1>3, <1>5, <1>6, <1>7, <1>8, DoorsKeep DEF Active

RetriedJob(d, n) == [d EXCEPT !.at = "new", !.attempts = n]
LEMMA RetriedJobIs ==
  ASSUME NEW d \in Job, NEW n \in 0..MaxAttempts
  PROVE  LET e == RetriedJob(d, n)
         IN  /\ e \in Job /\ e.at = "new" /\ e.kind = d.kind /\ e.control = d.control /\ e.list = d.list /\ e.sweep = d.sweep
<1> DEFINE mid == PlacedJob(d, "new")
           e == [mid EXCEPT !.attempts = n]
<1>1. /\ mid \in Job /\ mid.at = "new" /\ mid.kind = d.kind /\ mid.control = d.control /\ mid.list = d.list
      /\ mid.sweep = d.sweep
  BY PlacedJobIs
<1>2. e = RetriedJob(d, n)
  BY DEF RetriedJob, PlacedJob
<1> HIDE DEF mid
<1>3. e \in Job /\ e.at = "new" /\ e.kind = d.kind /\ e.control = d.control /\ e.list = d.list /\ e.sweep = d.sweep
  BY <1>1 DEF Job
<1> QED
  BY <1>2, <1>3

(* The worker lets the job go: its pass is over, and a run's debts have who follows them. *)
LEMMA JobLets ==
  ASSUME VerdictsInv, at # "idle", UNCHANGED <<row, asked>>, NEW d, JobMoves(run, d), d.list = jobs[run].list, Lets,
         failed' \in BOOLEAN, failed => failed', halts' \in 0..MaxHalts,
         \/ d.at \in {"new", "cancelled"} \/ d.kind # "run" \/ failed'
         \/ at = "closing" /\ jobs[run].at = "running"
  PROVE  VerdictsInv'
<1> USE DEF row
<1>1. run # 0 /\ run \in DOMAIN jobs /\ JobsHold
  BY HandIsAJob DEF VerdictsInv, PassHolds, PassTyped
<1>2. JobsHold'
  BY <1>1, JobsKept
<1>3. /\ DOMAIN jobs' = DOMAIN jobs /\ jobs'[run] = d /\ \A i \in DOMAIN jobs \ {run} : jobs'[i] = jobs[i]
      /\ Len(jobs') \in Nat /\ \A i \in DOMAIN jobs : /\ jobs'[i].kind = jobs[i].kind /\ jobs'[i].control = jobs[i].control
                                                      /\ jobs'[i].sweep = jobs[i].sweep
  BY <1>1, JobMovesIs DEF JobsHold
<1>4. RowsTyped' /\ ColumnsAgree'
  BY DEF VerdictsInv, RowsTyped, ColumnsAgree
<1>5. PassHolds'
  <2>1. WhyTyped'
    BY DEF WhyTyped, Lets
  <2>2. at' = "idle" /\ run' = 0 /\ owed' = {} /\ left' = {} /\ flying' = {} /\ wrote' = FALSE
    BY DEF Lets
  <2>3. wrote' \in BOOLEAN
    BY <2>2
  <2>4. IsFiniteSet(flying') /\ Cardinality(flying') <= Width
    BY <2>2, FS_EmptySet, JudgingAssumption
  <2> QED
    BY <1>3, <2>1, <2>2, <2>3, <2>4 DEF PassHolds, PassTyped, PassRows, PassOnce
<1>6. OthersFollow'
  BY DEF OthersFollow, Lets
<1>7. DebtIsFollowed'
  <2>1. Debts' = Debts
    BY DEF Debts, StillToJudge
  <2>2. \A i \in DOMAIN jobs : jobs'[i].list = jobs[i].list
    BY <1>3
  <2>3. Listed' = Listed
    BY <1>3, <2>2 DEF Listed
  <2> SUFFICES ASSUME NEW j \in DOMAIN jobs, jobs[j].kind = "run", Debts \ Listed # {}, ~failed'
               PROVE  \E i \in DOMAIN jobs' : jobs'[i].kind = "run" /\ jobs'[i].at \in Active
    BY <1>3, <2>1, <2>3 DEF DebtIsFollowed, Active
  <2>4. PICK i \in DOMAIN jobs : jobs[i].kind = "run" /\ jobs[i].at \in Active
    BY DEF VerdictsInv, DebtIsFollowed, Active
  <2>5. CASE jobs[run].kind # "run"
    <3>1. jobs'[i] = jobs[i]
      BY <1>3, <2>4, <2>5
    <3> QED
      BY <1>3, <2>4, <3>1
  <2>6. CASE jobs[run].kind = "run" /\ d.at \in {"new", "cancelled"}
    BY <1>1, <1>3, <2>6 DEF Active
  <2>7. CASE jobs[run].kind = "run" /\ at = "closing" /\ jobs[run].at = "running"
    <3>1. PICK k \in DOMAIN jobs \ {run} : jobs[k].kind = "run" /\ jobs[k].at \in {"new", "running", "cancelled"}
      BY <2>7 DEF VerdictsInv, OthersFollow
    <3> QED
      BY <1>3, <3>1 DEF Active
  <2> QED
    BY <2>5, <2>6, <2>7 DEF JobMoves, Carries
<1>8. ControlInSample'
  BY <1>3 DEF VerdictsInv, ControlInSample, Doored
<1> QED
  BY <1>2, <1>4, <1>5, <1>6, <1>7, <1>8 DEF VerdictsInv

LEMMA JobEnds ==
  ASSUME VerdictsInv, at # "idle", UNCHANGED <<row, asked>>, halts' \in 0..MaxHalts,
         NEW kind \in {"done", "error"}, Ends(kind) \/ EndsInRetry, kind = "done" => at = "closing"
  PROVE  VerdictsInv'
<1> DEFINE old == jobs[run]
<1>1. /\ run # 0 /\ run \in DOMAIN jobs /\ jobs \in Seq(Job) /\ old \in Job /\ JobKept(old)
      /\ old.at \in {"running", "cancelled"} /\ failed \in BOOLEAN
      /\ old.kind = "live" /\ old.at = "running" /\ at = "closing" => old.walked = old.list
  BY HandIsAJob DEF VerdictsInv, JobsHold, PassHolds, PassTyped, JobInHand
<1>2. jobs = [jobs EXCEPT ![run] = old]
  BY <1>1
<1>3. ASSUME NEW k \in {"done", "error"}, Ends(k), k = "done" => at = "closing"
      PROVE  VerdictsInv'
  <2>1. failed' \in BOOLEAN /\ (failed => failed') /\ (k = "error" /\ old.kind = "run" => failed') /\ Lets
    BY <1>1, <1>3 DEF Ends
  <2>2. CASE old.at = "cancelled"
    <3>1. jobs' = [jobs EXCEPT ![run] = old]
      BY <1>2, <1>3, <2>2 DEF Ends, Cancelled
    <3>2. JobMoves(run, old)
      BY <1>1, <3>1 DEF JobMoves, Carries
    <3> HIDE DEF old
    <3> QED
      BY <2>1, <2>2, <3>2, JobLets DEF old
  <2>3. CASE old.at = "running"
    <3> DEFINE d == PlacedJob(old, k)
    <3>1. jobs' = [jobs EXCEPT ![run] = d]
      BY <1>3, <2>3 DEF Ends, Cancelled, PlacedJob
    <3>2. /\ d \in Job /\ d.at = k /\ d.kind = old.kind /\ d.control = old.control /\ d.list = old.list /\ d.sweep = old.sweep
          /\ d.walked = old.walked
      BY <1>1, PlacedJobIs
    <3> HIDE DEF d
    <3>3. JobMoves(run, d)
      BY <1>1, <1>3, <2>3, <3>1, <3>2 DEF JobMoves, Carries, JobKept
    <3> QED
      BY <1>3, <2>1, <2>3, <3>2, <3>3, JobLets
  <2> QED
    BY <1>1, <2>2, <2>3
<1>4. CASE EndsInRetry
  <2>1. CASE old.attempts + 1 < MaxAttempts /\ old.at = "cancelled"
    <3>1. jobs' = [jobs EXCEPT ![run] = old] /\ Lets /\ failed' = failed
      BY <1>2, <1>4, <2>1 DEF EndsInRetry, Cancelled
    <3>2. JobMoves(run, old)
      BY <1>1, <3>1 DEF JobMoves, Carries
    <3> QED
      BY <1>1, <2>1, <3>1, <3>2, JobLets
  <2>2. CASE old.attempts + 1 < MaxAttempts /\ old.at # "cancelled"
    <3> DEFINE d == RetriedJob(old, old.attempts + 1)
    <3>1. jobs' = [jobs EXCEPT ![run] = d] /\ Lets /\ failed' = failed
      BY <1>4, <2>2 DEF EndsInRetry, Cancelled, RetriedJob
    <3>2. old.attempts + 1 \in 0..MaxAttempts
      BY <1>1, <2>2, BoundsOfPasses DEF Job
    <3>3. d \in Job /\ d.at = "new" /\ d.kind = old.kind /\ d.control = old.control /\ d.list = old.list /\ d.sweep = old.sweep
      BY <1>1, <3>2, RetriedJobIs
    <3> HIDE DEF d
    <3>4. JobMoves(run, d)
      BY <1>1, <3>1, <3>3 DEF JobMoves, Carries, JobKept
    <3> QED
      BY <1>1, <3>1, <3>3, <3>4, JobLets
  <2>3. CASE ~(old.attempts + 1 < MaxAttempts)
    <3>1. Ends("error")
      BY <1>4, <2>3 DEF EndsInRetry
    <3> QED
      BY <1>3, <3>1
  <2> QED
    BY <2>1, <2>2, <2>3
<1> QED
  BY <1>3, <1>4

LEMMA JobDies ==
  ASSUME VerdictsInv, Dies
  PROVE  VerdictsInv'
<1> DEFINE old == jobs[run]
           n == IF old.attempts < MaxAttempts THEN old.attempts + 1 ELSE old.attempts
           d == RetriedJob(old, n)
<1>1. at # "idle" /\ UNCHANGED <<row, asked, failed>> /\ Lets
  BY DEF Dies
<1>2. /\ run # 0 /\ run \in DOMAIN jobs /\ jobs \in Seq(Job) /\ old \in Job /\ JobKept(old)
      /\ old.at \in {"running", "cancelled"} /\ failed \in BOOLEAN
  BY <1>1, HandIsAJob DEF VerdictsInv, JobsHold, PassHolds, PassTyped, JobInHand
<1>3. halts' \in 0..MaxHalts
  BY BoundsOfPasses DEF Dies, Halts, VerdictsInv, JobsHold
<1>4. CASE old.at = "cancelled"
  <2>1. jobs' = [jobs EXCEPT ![run] = old]
    BY <1>2, <1>4 DEF Dies, Cancelled
  <2>2. JobMoves(run, old)
    BY <1>2, <2>1 DEF JobMoves, Carries
  <2> QED
    BY <1>1, <1>2, <1>3, <1>4, <2>2, JobLets
<1>5. CASE old.at # "cancelled"
  <2>1. jobs' = [jobs EXCEPT ![run] = d]
    BY <1>5 DEF Dies, Cancelled, RetriedJob
  <2>2. n \in 0..MaxAttempts
    BY <1>2, BoundsOfPasses DEF Job
  <2> HIDE DEF n
  <2>3. d \in Job /\ d.at = "new" /\ d.kind = old.kind /\ d.control = old.control /\ d.list = old.list /\ d.sweep = old.sweep
    BY <1>2, <2>2, RetriedJobIs
  <2> HIDE DEF d
  <2>4. JobMoves(run, d)
    BY <1>2, <2>1, <2>3 DEF JobMoves, Carries, JobKept
  <2> QED
    BY <1>1, <1>2, <1>3, <2>3, <2>4, JobLets
<1> QED
  BY <1>4, <1>5

LEMMA CompletesAJob ==
  ASSUME VerdictsInv, Completes
  PROVE  VerdictsInv'
  BY JobEnds DEF Completes, VerdictsInv, JobsHold

LEMMA StopsAJob ==
  ASSUME VerdictsInv, Stopping
  PROVE  VerdictsInv'
  BY JobEnds DEF Stopping, VerdictsInv, JobsHold

(* A job that stays queued or at work follows what it followed. *)
LEMMA FollowsOn ==
  ASSUME VerdictsInv, UNCHANGED row, NEW j, NEW d, JobMoves(j, d), d.list = jobs[j].list, d.at \in Active,
         failed => failed' \/ d.kind = "run"
  PROVE  DebtIsFollowed' /\ ControlInSample'
<1> USE DEF row
<1>1. /\ DOMAIN jobs' = DOMAIN jobs /\ jobs'[j] = d /\ \A i \in DOMAIN jobs \ {j} : jobs'[i] = jobs[i]
      /\ \A i \in DOMAIN jobs : /\ jobs'[i].kind = jobs[i].kind /\ jobs'[i].control = jobs[i].control
                                /\ jobs'[i].sweep = jobs[i].sweep
      /\ j \in DOMAIN jobs /\ d.kind = jobs[j].kind
  BY JobMovesIs DEF VerdictsInv, JobMoves, Carries
<1>2. Debts' = Debts
  BY DEF Debts, StillToJudge
<1>3. \A i \in DOMAIN jobs : jobs'[i].list = jobs[i].list
  BY <1>1
<1>4. Listed' = Listed
  BY <1>1, <1>3 DEF Listed
<1>5. DebtIsFollowed'
  <2> SUFFICES ASSUME NEW k \in DOMAIN jobs, jobs[k].kind = "run", Debts \ Listed # {}, ~failed'
               PROVE  \E i \in DOMAIN jobs' : jobs'[i].kind = "run" /\ jobs'[i].at \in Active
    BY <1>1, <1>2, <1>4 DEF DebtIsFollowed, Active
  <2>1. CASE d.kind = "run"
    BY <1>1, <2>1
  <2>2. CASE d.kind # "run"
    <3>1. PICK i \in DOMAIN jobs : jobs[i].kind = "run" /\ jobs[i].at \in Active
      BY <2>2 DEF VerdictsInv, DebtIsFollowed, Active
    <3>2. jobs'[i] = jobs[i]
      BY <1>1, <2>2, <3>1
    <3> QED
      BY <1>1, <3>1, <3>2
  <2> QED
    BY <2>1, <2>2
<1>6. ControlInSample'
  BY <1>1 DEF VerdictsInv, ControlInSample, Doored
<1> QED
  BY <1>5, <1>6

LEMMA ClaimsAJob ==
  ASSUME VerdictsInv, NEW j \in DOMAIN jobs, Claims(j)
  PROVE  VerdictsInv'
<1> DEFINE old == jobs[j]
           mid == PlacedJob(old, "running")
           d == [mid EXCEPT !.walked = {}]
           those == IF old.kind = "run" THEN Debts ELSE old.list
<1>1. /\ at = "idle" /\ old.at = "new" /\ at' = "walking" /\ run' = j /\ jobs' = [jobs EXCEPT ![j] = d]
      /\ owed' = those /\ left' = those \X (IF old.kind = "forced" THEN {1, 2} ELSE {1})
      /\ UNCHANGED <<row, asked, flying, wrote, why, halts>>
  BY DEF Claims, PlacedJob
<1>2. JobsHold /\ old \in Job /\ JobKept(old) /\ jobs \in Seq(Job)
  BY DEF VerdictsInv, JobsHold, JobKept
<1>3. /\ mid \in Job /\ mid.at = "running" /\ mid.kind = old.kind /\ mid.control = old.control /\ mid.list = old.list
      /\ mid.sweep = old.sweep
  BY <1>2, PlacedJobIs
<1> HIDE DEF mid
<1>4. /\ d \in Job /\ d.at = "running" /\ d.kind = old.kind /\ d.control = old.control /\ d.list = old.list
      /\ d.sweep = old.sweep /\ d.walked = {}
  BY <1>3 DEF Job
<1> HIDE DEF d
<1>5. JobMoves(j, d)
  BY <1>1, <1>2, <1>4 DEF JobMoves, Carries, JobKept
<1>6. failed' \in BOOLEAN /\ (failed => failed' \/ d.kind = "run") /\ halts' \in 0..MaxHalts
  BY <1>1, <1>4 DEF Claims, VerdictsInv, JobsHold
<1>7. JobsHold' /\ DebtIsFollowed' /\ ControlInSample'
  BY <1>1, <1>2, <1>4, <1>5, <1>6, JobsKept, FollowsOn DEF Active
<1>8. DOMAIN jobs' = DOMAIN jobs /\ jobs'[j] = d /\ Len(jobs') = Len(jobs) /\ j \in 1..Len(jobs) /\ Len(jobs) \in Nat
  BY <1>2, <1>5, JobMovesIs
<1>9. those \subseteq OfKind(old.kind) /\ those \subseteq Rows /\ old.kind \in {"run", "forced", "live"}
  BY <1>2, JudgingAssumption DEF JobKept, OfKind, Debts, Rows, Job
<1>10. RowsTyped' /\ ColumnsAgree' /\ OthersFollow'
  BY <1>1 DEF VerdictsInv, RowsTyped, ColumnsAgree, OthersFollow, row
<1>11. PassTyped'
  <2>1. left' \subseteq Items /\ owed' \subseteq Rows
    BY <1>1, <1>9 DEF Items
  <2>2. WhyTyped'
    BY <1>1 DEF VerdictsInv, PassHolds, PassTyped, WhyTyped
  <2>3. flying = {}
    BY <1>1 DEF VerdictsInv, PassHolds, PassTyped
  <2>4. run' \in 0..Len(jobs') /\ run' # 0
    BY <1>1, <1>8
  <2> QED
    BY <1>1, <2>1, <2>2, <2>3, <2>4 DEF VerdictsInv, PassHolds, PassTyped
<1>12. JobInHand(jobs[run])'
  <2>1. d.kind = "live" => d.list = {i[1] : i \in left'}
    <3>1. CASE old.kind = "live"
      <4>1. left' = old.list \X {1}
        BY <1>1, <3>1
      <4>2. \A r \in old.list : <<r, 1>> \in left' /\ <<r, 1>>[1] = r
        BY <4>1
      <4>3. \A i \in left' : i[1] \in old.list
        BY <4>1
      <4> HIDE DEF old
      <4> QED
        BY <1>4, <4>2, <4>3
    <3> QED
      BY <1>4, <3>1
  <2> QED
    BY <1>1, <1>4, <1>8, <1>9, <2>1 DEF JobInHand
<1>13. PassRows' /\ PassOnce'
  <2>1. flying' = {}
    BY <1>1 DEF VerdictsInv, PassHolds, PassTyped
  <2>2. \A i \in left' : i[1] \in owed' /\ (old.kind # "forced" => i[2] = 1)
    BY <1>1
  <2> QED
    BY <1>1, <1>4, <1>8, <2>1, <2>2 DEF PassRows, PassOnce
<1> QED
  BY <1>7, <1>10, <1>11, <1>12, <1>13 DEF VerdictsInv, PassHolds

(* A row is read: its call takes the axes that have no score by now. *)
LEMMA ReadsARow ==
  ASSUME VerdictsInv, NEW i \in left, Reads(i)
  PROVE  VerdictsInv'
<1> DEFINE old == jobs[run]
           walked == old.walked \cup {i[1]}
           d == [old EXCEPT !.walked = walked]
           n == [item |-> i, axes |-> Calls(i[1])]
<1>1. /\ at = "walking" /\ at' = at /\ old.at # "cancelled" /\ Cardinality(flying) < Width
      /\ left' = left \ {i} /\ flying' = flying \cup {n} /\ jobs' = [jobs EXCEPT ![run] = d]
      /\ UNCHANGED <<row, asked, run, owed, wrote, why, failed, halts>>
  BY DEF Reads, Cancelled, Free
<1>2. run # 0 /\ run \in DOMAIN jobs /\ JobInHand(old) /\ old \in Job /\ JobKept(old) /\ JobsHold /\ i \in Items
  BY <1>1, HandIsAJob DEF VerdictsInv, PassHolds, PassTyped
<1>3. walked \subseteq Rows /\ i[1] \in Rows /\ old.at = "running"
  BY <1>1, <1>2 DEF JobInHand, Job, Items
<1>3a. walked = old.walked \cup {i[1]}
  OBVIOUS
<1> HIDE DEF walked
<1>4. /\ d \in Job /\ d.at = "running" /\ d.kind = old.kind /\ d.control = old.control /\ d.list = old.list
      /\ d.sweep = old.sweep /\ d.walked = walked
  BY <1>2, <1>3 DEF Job
<1> HIDE DEF d
<1>5. JobMoves(run, d)
  BY <1>1, <1>2, <1>4 DEF JobMoves, Carries, JobKept
<1>6. JobsHold' /\ DebtIsFollowed' /\ ControlInSample'
  BY <1>1, <1>2, <1>4, <1>5, JobsKept, FollowsOn DEF Active, JobsHold
<1>7. DOMAIN jobs' = DOMAIN jobs /\ jobs'[run] = d /\ Len(jobs') = Len(jobs)
  BY <1>2, <1>5, JobMovesIs
<1>8. RowsTyped' /\ ColumnsAgree' /\ OthersFollow'
  BY <1>1 DEF VerdictsInv, RowsTyped, ColumnsAgree, OthersFollow, row
<1>9. /\ n \in InFlight /\ n.item = i /\ (old.control /\ i[1] \notin Sample => "control" \notin n.axes)
      /\ \A a \in n.axes : score[i[1]][a] = "none"
  <2>1. Calls(i[1]) \subseteq Axes
    BY DEF Calls, Owed, Has, Axes
  <2>2. old.control /\ i[1] \notin Sample => "control" \notin Calls(i[1])
    BY DEF Calls, Owed, Skip
  <2>3. \A a \in Calls(i[1]) : score[i[1]][a] = "none"
    BY DEF Calls, Owed
  <2> QED
    BY <1>2, <2>1, <2>2, <2>3 DEF InFlight
<1> HIDE DEF n
<1>10. PassTyped'
  <2>1. IsFiniteSet(flying) /\ flying \subseteq InFlight /\ Width \in Nat
    BY JudgingAssumption DEF VerdictsInv, PassHolds, PassTyped
  <2>2. IsFiniteSet(flying') /\ (Cardinality(flying') = Cardinality(flying) \/ Cardinality(flying') = Cardinality(flying) + 1)
    BY <1>1, <2>1, FS_AddElement
  <2>3. Cardinality(flying) \in Nat
    BY <2>1, FS_CardinalityType
  <2>4. Cardinality(flying') <= Width
    BY <1>1, <2>1, <2>2, <2>3
  <2>5. WhyTyped'
    BY <1>1 DEF VerdictsInv, PassHolds, PassTyped, WhyTyped
  <2> QED
    BY <1>1, <1>7, <1>9, <2>2, <2>4, <2>5 DEF VerdictsInv, PassHolds, PassTyped
<1>11. JobInHand(jobs[run])'
  <2>1. d.kind = "live" => d.list = walked \cup {k[1] : k \in left'}
    <3>1. {k[1] : k \in left} = {i[1]} \cup {k[1] : k \in left'}
      BY <1>1
    <3> QED
      BY <1>1, <1>2, <1>3, <1>3a, <1>4, <3>1 DEF JobInHand
  <2> QED
    BY <1>1, <1>2, <1>4, <1>7, <2>1 DEF JobInHand
<1>12. PassRows'
  BY <1>1, <1>2, <1>4, <1>7, <1>9 DEF VerdictsInv, PassHolds, PassRows
<1>13. PassOnce'
  BY <1>1, <1>2, <1>4, <1>7, <1>9 DEF VerdictsInv, PassHolds, PassOnce, row
<1> QED
  BY <1>6, <1>8, <1>10, <1>11, <1>12, <1>13 DEF VerdictsInv, PassHolds

(* A call lands on its row, or is lost; the row is the only one written. *)
LEMMA Lands ==
  ASSUME VerdictsInv, NEW f \in flying, flying' = flying \ {f}, UNCHANGED <<asked, jobs, run, owed, failed>>,
         UNCHANGED <<at, left>> \/ (at' = "stopping" /\ left' = {}),
         wrote' \in BOOLEAN, WhyTyped', halts' \in 0..MaxHalts, RowsTyped', ColumnsAgree',
         \A q \in Rows \ {f.item[1]} : score'[q] = score[q] /\ tries'[q] = tries[q] /\ skipped'[q] = skipped[q],
         \A a \in Axes \ f.axes : score'[f.item[1]][a] = score[f.item[1]][a]
  PROVE  VerdictsInv'
<1> DEFINE r == f.item[1]
           old == jobs[run]
<1>1. at \in {"walking", "stopping"} /\ run # 0 /\ f \in InFlight
  BY DEF VerdictsInv, PassHolds, PassTyped
<1>2. /\ run \in DOMAIN jobs /\ JobInHand(old) /\ old \in Job /\ JobKept(old) /\ JobsHold
      /\ r \in owed /\ r \in Rows /\ r \in OfKind(old.kind)
  BY <1>1, HandIsAJob DEF VerdictsInv, PassHolds, PassRows, PassTyped, JobInHand
<1>3. JobsHold'
  BY DEF VerdictsInv, JobsHold, Doored
<1>4. PassTyped'
  <2>3. IsFiniteSet(flying)
    BY DEF VerdictsInv, PassHolds, PassTyped
  <2>4. IsFiniteSet(flying') /\ Cardinality(flying') = Cardinality(flying) - 1 /\ Cardinality(flying) \in Nat
    BY <2>3, FS_RemoveElement, FS_CardinalityType
  <2>1. IsFiniteSet(flying') /\ Cardinality(flying') <= Cardinality(flying) /\ Cardinality(flying) \in Nat /\ Cardinality(flying') \in Nat
    BY <2>4, FS_CardinalityType
  <2>2. Cardinality(flying') <= Width
    BY <2>1, JudgingAssumption DEF VerdictsInv, PassHolds, PassTyped
  <2> QED
    BY <1>1, <2>1, <2>2 DEF VerdictsInv, PassHolds, PassTyped
<1>5. JobInHand(jobs[run])'
  BY <1>2 DEF JobInHand
<1>6. PassRows'
  BY DEF VerdictsInv, PassHolds, PassRows
<1>7. PassOnce'
  <2> SUFFICES ASSUME old.kind # "forced"
               PROVE  /\ \A i \in left' : i[2] = 1
                      /\ \A g \in flying' : /\ g.item[2] = 1 /\ g.item \notin left'
                                            /\ \A a \in g.axes : score'[g.item[1]][a] = "none"
                      /\ \A g, h \in flying' : g.item = h.item => g = h
    BY DEF PassOnce
  <2>1. /\ \A i \in left : i[2] = 1
        /\ \A g \in flying : g.item[2] = 1 /\ g.item \notin left /\ \A a \in g.axes : score[g.item[1]][a] = "none"
        /\ \A g, h \in flying : g.item = h.item => g = h
    BY <1>1 DEF VerdictsInv, PassHolds, PassOnce
  <2>2. ASSUME NEW g \in flying'
        PROVE  g.item[1] \in Rows \ {r}
    <3>1. g.item \in Items /\ f.item \in Items /\ g.item # f.item /\ g.item[2] = f.item[2]
      BY <1>1, <2>1 DEF InFlight, VerdictsInv, PassHolds, PassTyped
    <3> QED
      BY <3>1 DEF Items
  <2> QED
    BY <2>1, <2>2
<1>8. DebtIsFollowed'
  <2>1. CASE old.kind = "run"
    BY <1>2, <2>1 DEF DebtIsFollowed, JobInHand
  <2>2. CASE old.kind # "run"
    <3>1. ASSUME NEW q \in Rows \ {r}
          PROVE  StillToJudge(q)' <=> StillToJudge(q)
      <4>1. score'[q] = score[q] /\ tries'[q] = tries[q] /\ skipped'[q] = skipped[q]
        OBVIOUS
      <4> QED
        BY ONLY <4>1 DEF StillToJudge, Has
    <3>2. Debts' \ Listed \subseteq Debts \ Listed
      <4>1. CASE old.kind = "forced"
        <5>1. r \in Listed
          BY <1>2, <4>1 DEF Listed, JobKept, OfKind
        <5> QED
          BY <3>1, <5>1 DEF Debts, Rows
      <4>2. CASE old.kind = "live"
        <5>1. r \notin RunRows
          BY <1>2, <4>2, JudgingAssumption DEF OfKind
        <5> QED
          BY <3>1, <5>1 DEF Debts, Rows
      <4> QED
        BY <1>2, <2>2, <4>1, <4>2 DEF Job
    <3>3. Listed' = Listed
      BY DEF Listed
    <3> QED
      BY <3>2, <3>3 DEF VerdictsInv, DebtIsFollowed
  <2> QED
    BY <2>1, <2>2
<1>9. OthersFollow'
  BY <1>1 DEF OthersFollow
<1>10. ControlInSample'
  <2> SUFFICES ASSUME \A j \in Doored : jobs[j].control, NEW q \in RunRows \ Sample
               PROVE  score'[q]["control"] = "none"
    BY DEF ControlInSample, Doored
  <2>1. score[q]["control"] = "none" /\ q \in Rows
    BY DEF VerdictsInv, ControlInSample, Rows
  <2>2. CASE q # r
    BY <2>1, <2>2
  <2>3. CASE q = r
    <3>1. old.kind # "live"
      BY <1>2, <2>3, JudgingAssumption DEF OfKind
    <3>2. old.control
      BY <1>2, <3>1 DEF JobsHold, OfJob
    <3>3. "control" \notin f.axes
      BY <2>3, <3>2 DEF VerdictsInv, PassHolds, PassRows
    <3> QED
      BY <2>1, <2>3, <3>3 DEF Axes
  <2> QED
    BY <2>2, <2>3
<1> QED
  BY <1>3, <1>4, <1>5, <1>6, <1>7, <1>8, <1>9, <1>10 DEF VerdictsInv, PassHolds

(* What a merge writes: the verdicts of the axes it called and may still write. *)
Applied(r, said) == {a \in DOMAIN said : a \in Owed(r, Skip(r)) \/ Forced}
Given(r, said) == {a \in Applied(r, said) : said[a] # "error"}
Spent(r, taken, cleared, a) == IF a \in cleared THEN 0 ELSE IF a \in taken THEN tries[r][a] + 1
                             ELSE IF a \in Skip(r) /\ score[r][a] = "none" THEN 0 ELSE tries[r][a]

LEMMA MergeIs ==
  ASSUME VerdictsInv, NEW r \in Rows, NEW D \in SUBSET Axes, NEW said \in [D -> {"low", "high", "error"}], Merge(r, said)
  PROVE  /\ RowsTyped' /\ ColumnsAgree' /\ wrote' \in BOOLEAN
         /\ \A q \in Rows \ {r} : score'[q] = score[q] /\ tries'[q] = tries[q] /\ skipped'[q] = skipped[q]
         /\ \A a \in Axes \ D : score'[r][a] = score[r][a]
         /\ \A a \in Axes : score[r][a] # "none" /\ score'[r][a] # score[r][a] => Forced
<1> DEFINE given == Given(r, said)
           told == [a \in Axes |-> IF a \in given THEN said[a] ELSE score[r][a]]
           marks == [a \in Axes |-> stamp[r][a] \/ a \in given]
           spent == [a \in Axes |-> Spent(r, Applied(r, said), given, a)]
<1>1. /\ score' = [score EXCEPT ![r] = told] /\ stamp' = [stamp EXCEPT ![r] = marks]
      /\ tries' = [tries EXCEPT ![r] = spent]
      /\ settled' = [settled EXCEPT ![r] = Settled(r)]
      /\ wrote' = (wrote \/ given # {})
  BY DEF Merge, Applied, Given, Spent
<1>2. \E b : skipped' = [skipped EXCEPT ![r] = b]
  BY DEF Merge
<1>3. \E b \in BOOLEAN : skipped' = [skipped EXCEPT ![r] = b]
  BY DEF Merge, VerdictsInv, RowsTyped
<1>4. /\ score[r] \in [Axes -> {"none", "low", "high"}] /\ stamp[r] \in [Axes -> BOOLEAN] /\ tries[r] \in [Axes -> Nat]
      /\ wrote \in BOOLEAN
  BY DEF VerdictsInv, RowsTyped, PassHolds, PassTyped
<1>5. /\ given \subseteq D /\ \A a \in given : said[a] \in {"low", "high"}
      /\ \A a \in given : score[r][a] = "none" \/ Forced
  BY DEF Given, Applied, Owed
<1>6. \A a \in Axes : Spent(r, Applied(r, said), given, a) \in Nat
  BY <1>4 DEF Spent
<1> HIDE DEF given
<1>7. /\ told \in [Axes -> {"none", "low", "high"}] /\ marks \in [Axes -> BOOLEAN] /\ spent \in [Axes -> Nat]
  <2>1. told \in [Axes -> {"none", "low", "high"}]
    BY <1>4, <1>5
  <2>2. marks \in [Axes -> BOOLEAN]
    OBVIOUS
  <2>3. spent \in [Axes -> Nat]
    BY <1>6
  <2> QED
    BY <2>1, <2>2, <2>3
<1>8. /\ \A a \in Axes : told[a] = (IF a \in given THEN said[a] ELSE score[r][a])
      /\ \A a \in Axes : marks[a] <=> stamp[r][a] \/ a \in given
  OBVIOUS
<1> HIDE DEF told, marks, spent
<1>9. score'[r] = told /\ stamp'[r] = marks /\ \A q \in Rows \ {r} : score'[q] = score[q] /\ stamp'[q] = stamp[q] /\ tries'[q] = tries[q]
  BY <1>1 DEF VerdictsInv, RowsTyped
<1>10. Settled(r) \in BOOLEAN /\ (Settled(r) <=> told["settling"] = "low")
  BY <1>9 DEF Settled
<1>11. RowsTyped'
  <2>1. skipped' \in [Rows -> BOOLEAN]
    BY <1>3 DEF VerdictsInv, RowsTyped
  <2>2. settled' \in [Rows -> BOOLEAN]
    BY <1>1, <1>10 DEF VerdictsInv, RowsTyped
  <2>3. /\ score' \in [Rows -> [Axes -> {"none", "low", "high"}]] /\ stamp' \in [Rows -> [Axes -> BOOLEAN]]
        /\ tries' \in [Rows -> [Axes -> Nat]]
    BY <1>1, <1>7 DEF VerdictsInv, RowsTyped
  <2> QED
    BY <2>1, <2>2, <2>3 DEF RowsTyped
<1>12. ColumnsAgree'
  <2>1. \A a \in Axes : marks[a] <=> told[a] # "none"
    <3>1. \A a \in Axes : stamp[r][a] <=> score[r][a] # "none"
      BY DEF VerdictsInv, ColumnsAgree
    <3> QED
      BY <1>5, <1>8, <3>1
  <2>2. settled'[r] <=> told["settling"] = "low"
    BY <1>1, <1>10 DEF VerdictsInv, RowsTyped
  <2>3. \A q \in Rows \ {r} : settled'[q] = settled[q]
    BY <1>1 DEF VerdictsInv, RowsTyped
  <2> QED
    BY <1>9, <2>1, <2>2, <2>3 DEF VerdictsInv, ColumnsAgree
<1>13. /\ \A q \in Rows \ {r} : skipped'[q] = skipped[q]
       /\ wrote' \in BOOLEAN
  BY <1>1, <1>3, <1>4 DEF VerdictsInv, RowsTyped
<1> QED
  BY <1>5, <1>8, <1>9, <1>11, <1>12, <1>13

LEMMA MergesAVerdict ==
  ASSUME VerdictsInv, NEW f \in flying, Merges(f)
  PROVE  VerdictsInv'
<1> DEFINE r == f.item[1]
<1>1. /\ flying' = flying \ {f} /\ UNCHANGED <<asked, jobs, at, run, owed, left, why, failed, halts>>
  BY DEF Merges
<1>2. f \in InFlight /\ r \in Rows /\ f.axes \in SUBSET Axes /\ halts' \in 0..MaxHalts /\ WhyTyped'
  <2>1. WhyTyped'
    BY <1>1 DEF VerdictsInv, PassHolds, PassTyped, WhyTyped
  <2>2. f \in InFlight /\ halts \in 0..MaxHalts
    BY DEF VerdictsInv, PassHolds, PassTyped, JobsHold
  <2> QED
    BY <1>1, <2>1, <2>2 DEF InFlight, Items
<1>3. CASE UNCHANGED <<row, wrote>>
  <2>1. RowsTyped' /\ ColumnsAgree'
    BY <1>3 DEF row, VerdictsInv, RowsTyped, ColumnsAgree
  <2>2. wrote' \in BOOLEAN
    BY <1>3 DEF VerdictsInv, PassHolds, PassTyped
  <2> QED
    BY <1>1, <1>2, <1>3, <2>1, <2>2, Lands DEF row
<1>4. CASE \E said \in [f.axes -> {"low", "high", "error"}] : Merge(r, said)
  <2>1. PICK said \in [f.axes -> {"low", "high", "error"}] : Merge(r, said)
    BY <1>4
  <2>2. /\ RowsTyped' /\ ColumnsAgree' /\ wrote' \in BOOLEAN
        /\ \A q \in Rows \ {r} : score'[q] = score[q] /\ tries'[q] = tries[q] /\ skipped'[q] = skipped[q]
        /\ \A a \in Axes \ f.axes : score'[r][a] = score[r][a]
    BY <1>2, <2>1, MergeIs
  <2> QED
    BY <1>1, <1>2, <2>2, Lands
<1> QED
  BY <1>3, <1>4 DEF Merges

LEMMA CountsAnAttempt ==
  ASSUME VerdictsInv, NEW f \in flying, CountsTheAttempt(f)
  PROVE  VerdictsInv'
<1> DEFINE r == f.item[1]
           spent == [a \in Axes |-> Spent(r, Owed(r, Skip(r)), {}, a)]
<1>1. /\ flying' = flying \ {f} /\ UNCHANGED <<score, stamp, settled, asked, jobs, at, run, owed, left, wrote, why, failed>>
      /\ tries' = [tries EXCEPT ![r] = spent]
  BY DEF CountsTheAttempt, Spent
<1>2. f \in InFlight /\ r \in Rows /\ halts' \in 0..MaxHalts /\ WhyTyped'
  <2>1. WhyTyped'
    BY <1>1 DEF VerdictsInv, PassHolds, PassTyped, WhyTyped
  <2>2. f \in InFlight /\ halts \in 0..MaxHalts
    BY DEF VerdictsInv, PassHolds, PassTyped, JobsHold
  <2>3. halts' \in 0..MaxHalts
    BY <2>2, BoundsOfPasses DEF CountsTheAttempt, Halts
  <2> QED
    BY <1>1, <2>1, <2>2, <2>3 DEF InFlight, Items
<1>3. spent \in [Axes -> Nat]
  BY <1>2 DEF Spent, VerdictsInv, RowsTyped
<1> HIDE DEF spent
<1>4. \E b \in BOOLEAN : skipped' = [skipped EXCEPT ![r] = b]
  BY <1>2 DEF CountsTheAttempt, VerdictsInv, RowsTyped
<1>5. /\ RowsTyped' /\ \A q \in Rows \ {r} : tries'[q] = tries[q] /\ skipped'[q] = skipped[q]
  <2>1. skipped' \in [Rows -> BOOLEAN] /\ \A q \in Rows \ {r} : skipped'[q] = skipped[q]
    BY <1>4 DEF VerdictsInv, RowsTyped
  <2>2. tries' \in [Rows -> [Axes -> Nat]] /\ \A q \in Rows \ {r} : tries'[q] = tries[q]
    BY <1>1, <1>3 DEF VerdictsInv, RowsTyped
  <2> QED
    BY <1>1, <2>1, <2>2 DEF VerdictsInv, RowsTyped
<1>6. ColumnsAgree' /\ wrote' \in BOOLEAN
  BY <1>1 DEF VerdictsInv, ColumnsAgree, PassHolds, PassTyped
<1> QED
  BY <1>1, <1>2, <1>5, <1>6, Lands

LEMMA FaultsAPass ==
  ASSUME VerdictsInv, NEW f \in flying, NEW kind \in {"final", "retry"}, Faults(f, kind)
  PROVE  VerdictsInv'
<1>1. /\ flying' = flying \ {f} /\ at' = "stopping" /\ left' = {}
      /\ UNCHANGED <<row, asked, jobs, run, owed, wrote, failed>>
  BY DEF Faults
<1>2. WhyTyped'
  BY DEF Faults, WhyTyped
<1>3. halts' \in 0..MaxHalts
  BY BoundsOfPasses DEF Faults, Halts, VerdictsInv, JobsHold
<1>4. RowsTyped' /\ ColumnsAgree'
  BY <1>1 DEF row, VerdictsInv, RowsTyped, ColumnsAgree
<1>5. wrote' \in BOOLEAN
  BY <1>1 DEF VerdictsInv, PassHolds, PassTyped
<1> QED
  BY <1>1, <1>2, <1>3, <1>4, <1>5, Lands DEF row

LEMMA ClosesAPass ==
  ASSUME VerdictsInv, Closes
  PROVE  VerdictsInv'
<1> DEFINE old == jobs[run]
<1>1. /\ at = "walking" /\ flying = {} /\ (left = {} \/ old.at = "cancelled") /\ left' = {}
      /\ UNCHANGED <<row, asked, jobs, run, owed, flying, wrote, failed, halts>>
      /\ \/ at' = "stopping"
         \/ at' = (IF old.at = "cancelled" \/ old.kind # "run" THEN "closing" ELSE "sweeping")
  BY DEF Closes, Cancelled
<1>2. WhyTyped'
  BY DEF Closes, VerdictsInv, PassHolds, PassTyped, WhyTyped
<1>3. run # 0 /\ run \in DOMAIN jobs /\ JobInHand(old)
  BY <1>1, HandIsAJob DEF VerdictsInv, PassHolds, PassTyped
<1>4. RowsTyped' /\ ColumnsAgree' /\ ControlInSample'
  BY <1>1 DEF VerdictsInv, RowsTyped, ColumnsAgree, ControlInSample, Doored, row
<1>5. JobsHold'
  BY <1>1 DEF VerdictsInv, JobsHold, Doored
<1>6. PassTyped'
  BY <1>1, <1>2, <1>3 DEF VerdictsInv, PassHolds, PassTyped
<1>7. JobInHand(jobs[run])'
  <2>1. old.kind = "live" /\ old.at = "running" => old.walked = old.list
    BY <1>1, <1>3 DEF JobInHand
  <2> QED
    BY <1>1, <1>3, <2>1 DEF JobInHand
<1>8. PassRows' /\ PassOnce'
  BY <1>1 DEF PassRows, PassOnce
<1>9. DebtIsFollowed'
  BY <1>1 DEF VerdictsInv, DebtIsFollowed, Debts, StillToJudge, Listed, row
<1>10. OthersFollow'
  BY <1>1 DEF OthersFollow
<1> QED
  BY <1>4, <1>5, <1>6, <1>7, <1>8, <1>9, <1>10 DEF VerdictsInv, PassHolds

(* The next sweep carries the control of the pass it follows. *)
LEMMA NextSweepIs ==
  ASSUME NEW e \in Job, e.kind = "run", ~LastSweep(e.sweep)
  PROVE  LET d == NextSweep(e)
         IN  d \in Job /\ d.kind = "run" /\ d.control = e.control /\ d.sweep # 0 /\ d.at = "new" /\ d.list = {}
<1> DEFINE mid == NewJob("run", e.control, {})
           d == [mid EXCEPT !.sweep = e.sweep + 1]
<1>1. mid \in Job /\ mid.kind = "run" /\ mid.control = e.control /\ mid.at = "new" /\ mid.list = {}
  BY NewJobIs DEF Job
<1>2. e.sweep + 1 \in 0..MaxSweeps /\ e.sweep + 1 # 0
  BY JudgingAssumption DEF LastSweep, Job
<1>3. NextSweep(e) = d
  BY DEF NextSweep
<1> HIDE DEF mid
<1>4. d \in Job /\ d.kind = "run" /\ d.control = e.control /\ d.sweep # 0 /\ d.at = "new" /\ d.list = {}
  BY <1>1, <1>2 DEF Job
<1> QED
  BY <1>3, <1>4

LEMMA SweepsAgain ==
  ASSUME VerdictsInv, Sweeps
  PROVE  VerdictsInv'
<1> DEFINE old == jobs[run]
<1>1. at = "sweeping" /\ UNCHANGED <<row, asked>> /\ run # 0 /\ run \in DOMAIN jobs /\ old \in Job /\ old.kind = "run"
      /\ JobInHand(old) /\ JobsHold /\ halts \in 0..MaxHalts /\ failed \in BOOLEAN /\ flying = {} /\ left = {}
  BY HandIsAJob DEF Sweeps, VerdictsInv, PassHolds, PassTyped, JobInHand, JobsHold
<1>2. CASE Halts /\ EndsInRetry
  <2>1. halts' \in 0..MaxHalts
    BY <1>1, <1>2, BoundsOfPasses DEF Halts
  <2> QED
    BY <1>1, <1>2, <2>1, JobEnds
<1>3. ASSUME at' = "closing", UNCHANGED <<run, pass, halts>>, JobsHold', DOMAIN jobs \subseteq DOMAIN jobs',
             Len(jobs) <= Len(jobs'), \A j \in DOMAIN jobs : jobs'[j] = jobs[j],
             failed => failed',
             Debts = {} \/ failed' \/ \E j \in DOMAIN jobs' \ {run} : jobs'[j].kind = "run" /\ jobs'[j].at = "new"
      PROVE  VerdictsInv'
  <2> USE <1>1, <1>3 DEF row, pass
  <2>1. RowsTyped' /\ ColumnsAgree'
    BY DEF VerdictsInv, RowsTyped, ColumnsAgree
  <2>2. ControlInSample'
    <3>1. Doored \subseteq Doored' /\ Doored \subseteq DOMAIN jobs
      BY DEF Doored
    <3> QED
      BY <3>1 DEF VerdictsInv, ControlInSample
  <2>3. PassTyped'
    <3>1. WhyTyped'
      BY DEF VerdictsInv, PassHolds, PassTyped, WhyTyped
    <3>2. run \in 0..Len(jobs')
      BY DEF VerdictsInv, PassHolds, PassTyped, JobsHold
    <3> QED
      BY <3>1, <3>2 DEF VerdictsInv, PassHolds, PassTyped
  <2>4. JobInHand(jobs[run])' /\ PassRows' /\ PassOnce'
    BY DEF JobInHand, PassRows, PassOnce
  <2>5. Debts' = Debts
    BY DEF Debts, StillToJudge
  <2>6. OthersFollow'
    BY <2>5 DEF OthersFollow
  <2>7. DebtIsFollowed'
    <3>1. old.at \in {"running", "cancelled"} /\ jobs'[run] = old /\ run \in DOMAIN jobs'
      BY DEF JobInHand
    <3> QED
      BY <3>1 DEF DebtIsFollowed
  <2> QED
    BY <2>1, <2>2, <2>3, <2>4, <2>6, <2>7 DEF VerdictsInv, PassHolds
<1>4. CASE /\ at' = "closing" /\ UNCHANGED <<run, pass, halts, jobs>>
           /\ (Debts = {} /\ failed' = failed) \/ failed' = TRUE
  <2>1. JobsHold' /\ (failed => failed')
    <3>1. failed' \in BOOLEAN /\ (failed => failed')
      BY <1>1, <1>4
    <3> QED
      BY <1>1, <1>4, <3>1 DEF JobsHold, Doored
  <2> QED
    BY <1>3, <1>4, <2>1
<1>5. CASE /\ at' = "closing" /\ UNCHANGED <<run, pass, halts, failed>>
           /\ ~LastSweep(old.sweep) /\ jobs' = Append(jobs, NextSweep(old))
  <2> DEFINE d == NextSweep(old)
  <2>1. d \in Job /\ d.kind = "run" /\ d.control = old.control /\ d.sweep # 0 /\ d.at = "new"
    BY <1>1, <1>5, NextSweepIs
  <2>2. jobs' = Append(jobs, d)
    BY <1>5
  <2> HIDE DEF d
  <2>3. JobKept(d) /\ (~d.control => OfJob(old))
    BY <1>1, <2>1 DEF JobKept, OfJob
  <2>4. JobsHold'
    <3>1. failed' \in BOOLEAN /\ halts' \in 0..MaxHalts
      BY <1>1, <1>5
    <3>2. asked' \subseteq asked
      BY <1>1
    <3> QED
      BY <1>1, <2>1, <2>2, <2>3, <3>1, <3>2, JobsGrow
  <2>5. /\ DOMAIN jobs = 1..Len(jobs) /\ Len(jobs') = Len(jobs) + 1 /\ Len(jobs) \in Nat
        /\ DOMAIN jobs' = DOMAIN jobs \cup {Len(jobs) + 1} /\ Len(jobs) + 1 \notin DOMAIN jobs
        /\ jobs'[Len(jobs) + 1] = d /\ \A i \in DOMAIN jobs : jobs'[i] = jobs[i]
    BY <1>1, <2>1, <2>2, JobAddsIs
  <2> QED
    BY <1>1, <1>3, <1>5, <2>1, <2>4, <2>5
<1> QED
  BY <1>2, <1>4, <1>5 DEF Sweeps

LEMMA VerdictsStep ==
  ASSUME VerdictsInv, [Next]_vars
  PROVE  VerdictsInv'
<1>1. CASE Doors
  BY <1>1, AsksKeep, LiveKeeps, CancelKeeps DEF Doors
<1>2. CASE Dies
  BY <1>2, JobDies
<1>3. CASE Worker
  BY <1>3, ClaimsAJob, ReadsARow, MergesAVerdict, CountsAnAttempt, FaultsAPass, ClosesAPass, StopsAJob, SweepsAgain,
     CompletesAJob DEF Worker
<1>4. CASE UNCHANGED vars
  <2>1. UNCHANGED <<row, asked, jobs, at, run, pass, failed, halts>>
    BY <1>4 DEF vars
  <2>2. JobsHold'
    BY <2>1 DEF VerdictsInv, JobsHold, Doored
  <2> QED
    BY <2>1, <2>2, DoorsKeep DEF VerdictsInv, JobsHold
<1> QED
  BY <1>1, <1>2, <1>3, <1>4 DEF Next

(* Only a merge writes a score, and over a score only one of a forced pass, of a row its caller named. *)
LEMMA VerdictKept ==
  ASSUME VerdictsInv, [Next]_vars, NEW r \in Rows, NEW a \in Axes, score[r][a] # "none", score'[r][a] # score[r][a]
  PROVE  run # 0 /\ jobs[run].kind = "forced" /\ r \in Doubled
<1>1. PICK f \in flying : Merges(f)
  BY DEF Next, Worker, Doors, Dies, Claims, Reads, CountsTheAttempt, Faults, Closes, Stopping, Sweeps, Completes,
         AsksForRun, AsksForList, JudgeLive, Cancels, vars, row
<1> DEFINE q == f.item[1]
<1>2. PICK said \in [f.axes -> {"low", "high", "error"}] : Merge(q, said)
  BY <1>1 DEF Merges, row
<1>3. run # 0 /\ f \in InFlight /\ q \in Rows /\ f.axes \in SUBSET Axes
  <2>1. f \in InFlight /\ run # 0
    BY DEF VerdictsInv, PassHolds, PassTyped
  <2> QED
    BY <2>1 DEF InFlight, Items
<1>4. /\ \A p \in Rows \ {q} : score'[p] = score[p]
      /\ \A b \in Axes \ f.axes : score'[q][b] = score[q][b]
      /\ \A b \in Axes : score[q][b] # "none" /\ score'[q][b] # score[q][b] => Forced
  BY <1>2, <1>3, MergeIs
<1>5. r = q /\ a \in f.axes /\ Forced
  BY <1>4
<1>6. /\ jobs[run] \in Job /\ owed \subseteq OfKind(jobs[run].kind) /\ q \in owed
  BY <1>3, HandIsAJob DEF JobInHand, VerdictsInv, PassHolds, PassRows
<1>7. CASE jobs[run].kind = "forced"
  BY <1>3, <1>5, <1>6, <1>7 DEF OfKind
<1>8. CASE jobs[run].kind # "forced"
  <2>1. PassOnce
    BY DEF VerdictsInv, PassHolds
  <2>2. \A b \in f.axes : score[f.item[1]][b] = "none"
    BY ONLY <1>3, <1>8, <2>1, f \in flying DEF PassOnce
  <2> QED
    BY <1>5, <2>2
<1> QED
  BY <1>7, <1>8

-----------------------------------------------------------------------------
PassesInv == VerdictsInv /\ GuestInv /\ AnswersInv

(* The judge's passes, the guest's and the named run each keep an invariant. *)
THEOREM PassesInductive == PassesSpec => []PassesInv
<1>1. PassesInit => PassesInv
  BY VerdictsInit, GuestInit, AnswersInit DEF PassesInit, PassesInv
<1>2. PassesInv /\ [PassesNext]_<<which, vars, guests, answers>> => PassesInv'
  BY StepOfPasses, VerdictsStep, GuestStep, AnswersStep DEF PassesInv
<1> QED
  BY <1>1, <1>2, PTL DEF PassesSpec

(* job_handlers/judging.py, use_cases/judge_debts.py, passes.py: the columns of a verdict agree, an owed row of *)
(* a judged run has a pass or a failed experiment, a batch written done has walked its answers, and a sample's  *)
(* control stays in the sample, for any rows, passes, sweeps, deaths and cancels.                               *)
THEOREM VerdictsStand == PassesSpec => []VerdictsHold
<1>1. PassesInv => VerdictsHold
  BY VerdictsInvHolds DEF PassesInv
<1> QED
  BY <1>1, PassesInductive, PTL

(* judging.py, _apply_axis: a verdict once written stands, but under a forced pass over a row named twice. *)
THEOREM VerdictsAreKept == PassesSpec => VerdictStands
<1>1. ASSUME PassesInv, [PassesNext]_<<which, vars, guests, answers>>
      PROVE  [\A r \in Rows, a \in Axes : score[r][a] # "none" /\ score'[r][a] # score[r][a]
                => run # 0 /\ jobs[run].kind = "forced" /\ r \in Doubled]_vars
  BY <1>1, StepOfPasses, VerdictKept DEF PassesInv
<1> QED
  BY <1>1, PassesInductive, PTL DEF PassesSpec, VerdictStands

(* The guest's pass: it walks the rows it drew, and each call is paid for by an attempt or by a lost answer. *)
THEOREM GuestsStand == PassesSpec => []GuestsHold
<1>1. PassesInv => GuestsHold
  BY GuestHolds DEF PassesInv, GuestsHold
<1> QED
  BY <1>1, PassesInductive, PTL

(* evals/runner.py, use_cases/eval_runs.py, worker.py: one answer of a question whatever doors race, workers die *)
(* and attempts are resumed; no error row beside it at the judge; one fresh request; a done run is judged.       *)
THEOREM RunStands == PassesSpec => []RunHolds
<1>1. PassesInv => RunHolds
  BY AnswersHold DEF PassesInv, RunHolds
<1> QED
  BY <1>1, PassesInductive, PTL

(* runner.py, _settle_left_behind and _mark_resumed: an error row goes only when a row that stays names it. *)
THEOREM AnswersAreTold == PassesSpec => ReplacedIsTold
<1>1. ASSUME PassesInv, [PassesNext]_<<which, vars, guests, answers>>
      PROVE  [\A r \in rows : r.id \notin R!Ids(rows') =>
                /\ r.out = "error"
                /\ \E s \in rows' : s.q = r.q /\ s.resumed /\ r.id \in s.from]_R!vars
  BY <1>1, StepOfPasses, AnswersTell DEF PassesInv, Told
<1> QED
  BY <1>1, PassesInductive, PTL DEF PassesSpec, ReplacedIsTold, R!ReplacedIsTold

=============================================================================
