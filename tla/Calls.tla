-------------------------------- MODULE Calls --------------------------------
(***************************************************************************)
(* Model calls of one walk over rows (llm.py): pool threads that carry the *)
(* job's tallies call one engine, a server refuses, throttles or answers,  *)
(* and the loop that keeps a broker's pace decides whether a failure is    *)
(* the row's or the stand's.  Tokens are counted per tally in scope: the   *)
(* job's and the row's own.  A reply is sent and read in two steps: what   *)
(* the server spent is spent before the program has looked at it.          *)
(***************************************************************************)
EXTENDS Naturals, FiniteSets

CONSTANTS Rows, Threads, PaceTries, MaxTurns

VARIABLES
  kind,      \* of the engine: "ollama", "vllm", "cloud"
  what,      \* the door called: "chat" (ask too), "embed", "score"
  input,     \* Rows -> "fits", "over" the estimate sees, "unseen" the estimate misses
  server,    \* "well" or one of Refusing
  turns,     \* changes of the server so far (bound)
  lifts,     \* waits after which the throttle is over
  long,      \* ghost: the throttle outlasts the pace
  at,        \* Threads -> the row it calls for, or "none"
  tried,     \* Threads -> paced waits of the call
  reply,     \* Threads -> the reply that is in and not read yet, or "none"
  outcome,   \* Rows -> "todo", "open", "answered", "failed", "fault"
  stopped,   \* the walk read a StandFault and starts no more rows
  jobTally, rowTally,  \* answers counted by the job, and by each row's own tally
  served,    \* ghost, Rows -> replies the server sent for the row whose tokens are to be counted
  why        \* ghost, Rows -> what the server or the input said when the row ended
wvars == <<kind, what, input, server, turns, lifts, long, at, tried, reply, outcome, stopped, jobTally, rowTally, served, why>>

(* 429 with a pause; 429 without one, 402, 401, 403; 5xx; 404, another 4xx, and no status at all *)
Refusing == {"throttled", "closed", "broken", "unreached"}
Conditions == {"well"} \cup Refusing
(* what refuses one call of a server that is well: one 500, a timeout, a 413 or a 422 *)
Once == {"broken", "unreached"}
Enders == {"none", "input", "empty", "unusable"} \cup Refusing
(* a reply with choices, one without any, and one without usage *)
Sorts == {"whole", "empty", "bare"}

WTypeOK ==
  /\ kind \in {"ollama", "vllm", "cloud"} /\ what \in {"chat", "embed", "score"}
  /\ input \in [Rows -> {"fits", "over", "unseen"}]
  /\ server \in Conditions /\ turns \in 0..MaxTurns /\ lifts \in 0..PaceTries + 1 /\ long \in BOOLEAN
  /\ at \in [Threads -> Rows \cup {"none"}] /\ tried \in [Threads -> 0..PaceTries]
  /\ reply \in [Threads -> {"none"} \cup Sorts]
  /\ outcome \in [Rows -> {"todo", "open", "answered", "failed", "fault"}]
  /\ stopped \in BOOLEAN
  /\ jobTally \in Nat /\ rowTally \in [Rows -> Nat] /\ served \in [Rows -> Nat]
  /\ why \in [Rows -> Enders]

WInit ==
  /\ kind \in {"ollama", "vllm", "cloud"} /\ what \in {"chat", "embed", "score"}
  /\ what = "score" => kind = "vllm"
  /\ input \in [Rows -> IF kind = "ollama" /\ what = "chat" THEN {"fits", "over", "unseen"} ELSE {"fits", "over"}]
  /\ server = "well" /\ turns = 0 /\ lifts = 0 /\ long = FALSE
  /\ at = [t \in Threads |-> "none"] /\ tried = [t \in Threads |-> 0]
  /\ reply = [t \in Threads |-> "none"]
  /\ outcome = [r \in Rows |-> "todo"] /\ stopped = FALSE
  /\ jobTally = 0 /\ rowTally = [r \in Rows |-> 0]
  /\ served = [r \in Rows |-> 0] /\ why = [r \in Rows |-> "none"]

(* the estimate is made for ollama's chats alone: it cuts an input over the window and answers *)
OverWindow(r) == kind = "ollama" /\ what = "chat" /\ input[r] = "over"
(* any other server refuses the request with a 400 *)
TooLong(r) == ~(kind = "ollama" /\ what = "chat") /\ input[r] # "fits"
CutByTheServer(r) == kind = "ollama" /\ what = "chat" /\ input[r] = "unseen"

(* a 429 that names a pause under the ceiling is waited out, PaceTries times in a row *)
Paced(t) == server = "throttled" /\ what # "score" /\ tried[t] < PaceTries
(* which refusals are the stand's: a key, a quota, a throttle, a cloud that says it is broken; *)
(* no status, a 404 or another 4xx is the row's on every engine                               *)
Fault(s) == what # "score" /\ (s \in {"throttled", "closed"} \/ (s = "broken" /\ kind = "cloud"))
(* the replies whose tokens are counted: with usage, and a local embedding that leaves a gap *)
Counted(sort) == what # "score" /\ (sort # "bare" \/ (what = "embed" /\ kind # "cloud"))

(* the way a thread leaves its call: the hold on the engine ends with it *)
Ends(t, how, said) ==
  /\ outcome' = [outcome EXCEPT ![at[t]] = how]
  /\ why' = [why EXCEPT ![at[t]] = said]
  /\ at' = [at EXCEPT ![t] = "none"] /\ tried' = [tried EXCEPT ![t] = 0]
  /\ reply' = [reply EXCEPT ![t] = "none"]

(* the count made after the refusals of an answer *)
CountUsed(r) ==
  IF CutByTheServer(r) THEN UNCHANGED <<jobTally, rowTally>>
  ELSE jobTally' = jobTally + 1 /\ rowTally' = [rowTally EXCEPT ![r] = @ + 1]
(* one answer is added to every tally in scope *)
Count(r) ==
  /\ jobTally' = jobTally + 1
  /\ rowTally' = [rowTally EXCEPT ![r] = @ + 1]

Same == UNCHANGED <<kind, what, input>>
SameServer == UNCHANGED <<server, turns, lifts, long>>
Asks(t) == at[t] # "none" /\ reply[t] = "none"

(* ask, chat: the row is taken and an input over the window refused before the call *)
Calls(t, r) ==
  /\ at[t] = "none" /\ outcome[r] = "todo" /\ ~stopped
  /\ IF OverWindow(r)
       THEN /\ outcome' = [outcome EXCEPT ![r] = "failed"] /\ why' = [why EXCEPT ![r] = "input"]
            /\ UNCHANGED at
       ELSE /\ outcome' = [outcome EXCEPT ![r] = "open"] /\ at' = [at EXCEPT ![t] = r]
            /\ UNCHANGED why
  /\ Same /\ SameServer /\ UNCHANGED <<tried, reply, stopped, jobTally, rowTally, served>>

(* a refusal the loop waits out, and asks again *)
Waits(t) ==
  /\ Asks(t) /\ Paced(t)
  /\ tried' = [tried EXCEPT ![t] = @ + 1]
  /\ lifts' = lifts - 1
  /\ server' = IF lifts = 1 THEN "well" ELSE server
  /\ Same /\ UNCHANGED <<turns, long, at, reply, outcome, stopped, jobTally, rowTally, served, why>>

(* a refusal that ends the call: the run's or the row's *)
Refused(t) ==
  /\ Asks(t) /\ ~Paced(t)
  /\ \E said \in IF server = "well" THEN Once ELSE {server} :
       Ends(t, IF Fault(said) THEN "fault" ELSE "failed", said)
  /\ Same /\ SameServer /\ UNCHANGED <<stopped, jobTally, rowTally, served>>

(* a server that reads the request refuses one too long with a 400 *)
RequestRefused(t) ==
  /\ Asks(t) /\ TooLong(at[t]) /\ server \in {"well", "broken"}
  /\ Ends(t, "failed", "input")
  /\ Same /\ SameServer /\ UNCHANGED <<stopped, jobTally, rowTally, served>>

(* external: the server has answered, and what it spent is spent *)
Replied(t) ==
  /\ Asks(t) /\ server = "well" /\ ~TooLong(at[t])
  /\ \E sort \in Sorts :
       /\ sort = "empty" => what = "chat"
       /\ sort = "bare" => what # "score"
       /\ reply' = [reply EXCEPT ![t] = sort]
       /\ served' = [served EXCEPT ![at[t]] = @ + (IF Counted(sort) THEN 1 ELSE 0)]
  /\ Same /\ SameServer /\ UNCHANGED <<at, tried, outcome, stopped, jobTally, rowTally, why>>

(* a reply is counted before anything in it can refuse: choices, then the server's cut *)
Answered(t) ==
  LET r == at[t] IN
  /\ reply[t] \in {"whole", "empty"}
  /\ IF what = "score" THEN UNCHANGED <<jobTally, rowTally>> ELSE Count(r)
  /\ IF reply[t] = "empty" THEN Ends(t, "failed", "empty")
     ELSE IF CutByTheServer(r) THEN Ends(t, "failed", "input")
     ELSE Ends(t, "answered", "none")
  /\ Same /\ SameServer /\ UNCHANGED <<stopped, served>>

(* no usage: every later row would miss it too, but a local embedding only leaves a gap *)
NoUsage(t) ==
  /\ reply[t] = "bare"
  /\ IF what = "embed" /\ kind # "cloud"
       THEN Count(at[t]) /\ Ends(t, "answered", "none")
       ELSE UNCHANGED <<jobTally, rowTally>> /\ Ends(t, "fault", "unusable")
  /\ Same /\ SameServer /\ UNCHANGED <<stopped, served>>

(* _each: the walk takes the rows' ends in their order, and starts no row once it comes to a StandFault *)
Stops ==
  /\ ~stopped /\ \E r \in Rows : outcome[r] = "fault"
  /\ stopped' = TRUE
  /\ Same /\ SameServer /\ UNCHANGED <<at, tried, reply, outcome, jobTally, rowTally, served, why>>

(* external: the server turns; a throttle lifts after some waits, or outlasts the pace *)
ServerTurns ==
  /\ turns < MaxTurns /\ turns' = turns + 1 /\ server = "well"
  /\ server' \in Refusing
  /\ lifts' \in IF server' = "throttled" THEN 1..PaceTries + 1 ELSE {0}
  /\ long' = (long \/ lifts' > PaceTries)
  /\ Same /\ UNCHANGED <<at, tried, reply, outcome, stopped, jobTally, rowTally, served, why>>

WNext ==
  \/ \E t \in Threads, r \in Rows : Calls(t, r)
  \/ \E t \in Threads : Waits(t) \/ Refused(t) \/ RequestRefused(t) \/ Replied(t) \/ Answered(t) \/ NoUsage(t)
  \/ Stops \/ ServerTurns

-----------------------------------------------------------------------------
(* the answers in the rows' own tallies *)
Told == UNION {{r} \X (1..rowTally[r]) : r \in Rows}

(* Once a row has ended, whatever the stand refused in its reply, every    *)
(* reply the server spent tokens on for it is in its tally, and no thread  *)
(* has dropped one on the way; the job's tally has all that the rows' have *)
(* (llm.py:506: "indexing before the count lost them").                    *)
AnswersAreCounted ==
  /\ \A r \in Rows : outcome[r] \notin {"todo", "open"} => rowTally[r] = served[r]
  /\ jobTally = Cardinality(Told)

(* What refuses every row alike is never one row's failure: a key, a       *)
(* quota, a throttle, a cloud that is broken or sends no usage stops the   *)
(* walk.  A throttle met once stops it only when it outlasts the pace,     *)
(* however the threads share its waits.  The reranker is left out:         *)
(* score_pairs reads any refusal of its server as the row's.               *)
RefusalIsTheRuns == what # "score" =>
  \A r \in Rows :
    /\ outcome[r] = "failed" => ~Fault(why[r]) /\ why[r] # "unusable"
    /\ why[r] = "throttled" /\ turns = 1 => long
=============================================================================
