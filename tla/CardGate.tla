------------------------------- MODULE CardGate -------------------------------
(***************************************************************************)
(* What the gate of job_handlers/card.py promises the threads that call    *)
(* models: requests that are out share an engine, and once the gate has an *)
(* engine to serve next, no request of another begins before one of that   *)
(* engine has begun or been refused.                                       *)
(***************************************************************************)
CONSTANTS Engines, Threads, None

VARIABLES
  out,   \* the engine each thread has a request out on
  next   \* the engine the gate serves next

Init ==
  /\ out = [t \in Threads |-> None]
  /\ next = None

OnlyOn(e) == \A t \in Threads : out[t] \in {None, e}

(* a request arrives that cannot go yet, or goes to the card at once *)
Reserves(e) ==
  /\ next = None
  /\ next' = e
  /\ UNCHANGED out

Begins(t) ==
  /\ next # None
  /\ OnlyOn(next)
  /\ out[t] = None
  /\ out' = [out EXCEPT ![t] = next]
  /\ next' = None

(* the card could not be had: the request has failed, the engine's turn is over *)
Refused ==
  /\ next # None
  /\ OnlyOn(next)
  /\ next' = None
  /\ UNCHANGED out

Ends(t) ==
  /\ out[t] # None
  /\ out' = [out EXCEPT ![t] = None]
  /\ UNCHANGED next

(* the worker dies, and its requests and its gate with it *)
Forgets == out' = [t \in Threads |-> None] /\ next' = None

Next ==
  \/ \E e \in Engines : Reserves(e)
  \/ \E t \in Threads : Begins(t) \/ Ends(t)
  \/ Refused
  \/ Forgets

Spec == Init /\ [][Next]_<<out, next>>
=============================================================================
