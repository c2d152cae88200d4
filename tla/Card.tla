--------------------------------- MODULE Card ---------------------------------
(***************************************************************************)
(* One GPU card and the engines that take turns on it: the calls of the    *)
(* worker's threads, the jobs that take the card before their work, the    *)
(* API doors that call an engine already on it, and the bootstrap that     *)
(* puts every vLLM to sleep.                                               *)
(* Sources: app/job_handlers/card.py, app/engines/card.py,                 *)
(* app/engines/drivers.py, app/use_cases/card_wait.py, app/bootstrap.py.   *)
(*                                                                         *)
(* Who holds the card is read from the servers, so the servers are the     *)
(* state: what each really does and whether it answers.  A wait with a     *)
(* ceiling that runs out is a failure; time itself is left out.            *)
(***************************************************************************)
EXTENDS Integers, FiniteSets

CONSTANTS
  Engines,    \* the engines placed on the card
  Eager,      \* owns_a_free_card: ollama, which loads a model on the call itself
  Vllms,      \* the vLLM servers, which sleep and wake; the rest are converters
  Lanes,      \* the worker's lanes, one job at a time in each
  CardLane,   \* the lane the bootstrap looks at, `default`
  Threads,    \* the worker's threads that call models
  LaneOf,     \* the lane whose job a thread works for
  Doors,      \* requests of the API that call a model without a job
  None,
  MaxFaults,  \* bound of the model: how often a server fails or comes back
  MaxDeaths,  \* bound of the model: how often the worker dies
  MaxBoots    \* bound of the model: how often the bootstrap runs again

ASSUME CardAssumption ==
  /\ IsFiniteSet(Threads)
  /\ Eager \subseteq Engines
  /\ Vllms \subseteq Engines \ Eager
  /\ CardLane \in Lanes
  /\ LaneOf \in [Threads -> Lanes]
  /\ None \notin Engines \cup Threads
  /\ MaxFaults \in Nat
  /\ MaxDeaths \in Nat
  /\ MaxBoots \in Nat

VARIABLES
  server, silent,          \* each engine: what it holds, and who does not answer
  job,                     \* the lanes with a running job
  pc, want, errand,        \* each thread: where it is, for which engine, call or job
  gate, taker, letting,    \* who holds _calls, who holds _taking, whom it releases
  inFlight, waitingFor,    \* _in_flight and _waiting_for
  door, asked,             \* each door, and the engine it looked at
  boot, drowsy,            \* the bootstrap, and whom it has yet to put to sleep
  byDoor,                  \* the engines a door has loaded
  faults, boots, deaths    \* how often each has happened

servers == <<server, silent>>
thread  == <<pc, want, errand>>
locks   == <<gate, taker, letting>>
calls   == <<inFlight, waitingFor>>
doors   == <<door, asked>>
boot_   == <<boot, drowsy, boots>>
bounds  == <<faults, deaths>>
vars == <<servers, job, thread, locks, calls, doors, boot_, byDoor, bounds>>

Handing == {"facing", "releasing", "taking", "checking"}
Inside  == {"asking"} \cup Handing
Places  == {"idle", "wanting", "waiting", "calling", "restarting"} \cup Inside

TypeOK ==
  /\ server \in [Engines -> {"free", "holds", "down"}]
  /\ silent \in SUBSET Engines
  /\ job \in [Lanes -> BOOLEAN]
  /\ pc \in [Threads -> Places]
  /\ want \in [Threads -> Engines \cup {None}]
  /\ errand \in [Threads -> {"none", "call", "job"}]
  /\ gate \in Threads \cup {None}
  /\ taker \in Threads \cup {None}
  /\ letting \in SUBSET Engines
  /\ inFlight \in [Engines -> Int]
  /\ waitingFor \in Engines \cup {None}
  /\ door \in [Doors -> {"idle", "looked"}]
  /\ asked \in [Doors -> Engines \cup {None}]
  /\ boot \in {"idle", "looked"}
  /\ drowsy \in SUBSET Engines
  /\ byDoor \in SUBSET Engines
  /\ faults \in Nat
  /\ boots \in Nat
  /\ deaths \in Nat

(* the stack is up: every vLLM has been put to sleep, nothing is loaded *)
Init ==
  /\ server = [e \in Engines |-> "free"]
  /\ silent = {}
  /\ job = [l \in Lanes |-> FALSE]
  /\ pc = [t \in Threads |-> "idle"]
  /\ want = [t \in Threads |-> None]
  /\ errand = [t \in Threads |-> "none"]
  /\ gate = None
  /\ taker = None
  /\ letting = {}
  /\ inFlight = [e \in Engines |-> 0]
  /\ waitingFor = None
  /\ door = [d \in Doors |-> "idle"]
  /\ asked = [d \in Doors |-> None]
  /\ boot = "idle"
  /\ drowsy = {}
  /\ byDoor = {}
  /\ faults = 0
  /\ boots = 0
  /\ deaths = 0

-----------------------------------------------------------------------------
(* What the servers say *)

OnCardOfModels == {e \in Eager \cup Vllms : e \in silent \/ server[e] = "holds"}

(* on_card: a silence may hold the card, a refused connection does not *)
OnCard == silent \cup {e \in Engines : server[e] = "holds"}

HoldsFor(e) == OnCard \subseteq {e} /\ (e \in Eager \/ e \in OnCard)

Silent(e) == e \in silent \/ server[e] = "down"

LetsGo(e) ==
  /\ server' = [server EXCEPT ![e] = IF @ = "holds" THEN "free" ELSE @]
  /\ byDoor' = byDoor \ {e}

-----------------------------------------------------------------------------
(* Jobs, and the calls their threads make *)

Quiet(l) == \A t \in Threads : LaneOf[t] = l => pc[t] = "idle"

JobStarts(l) ==
  /\ ~job[l]
  /\ job' = [job EXCEPT ![l] = TRUE]
  /\ UNCHANGED <<servers, thread, locks, calls, doors, boot_, byDoor, bounds>>

JobEnds(l) ==
  /\ job[l]
  /\ Quiet(l)
  /\ job' = [job EXCEPT ![l] = FALSE]
  /\ UNCHANGED <<servers, thread, locks, calls, doors, boot_, byDoor, bounds>>

Goes(t, place) == pc' = [pc EXCEPT ![t] = place]

Sets(t, place, e, why) ==
  /\ pc[t] = "idle"
  /\ job[LaneOf[t]]
  /\ Goes(t, place)
  /\ want' = [want EXCEPT ![t] = e]
  /\ errand' = [errand EXCEPT ![t] = why]
  /\ UNCHANGED <<servers, job, locks, calls, doors, boot_, byDoor, bounds>>

(* while the job itself takes the card none of its threads is calling *)
JobTaking(l) == \E t \in Threads : LaneOf[t] = l /\ errand[t] = "job"

WantsCall(t, e) == ~JobTaking(LaneOf[t]) /\ Sets(t, "wanting", e, "call")

(* a preamble, a piece of a source, or hand_card itself: no gate is asked, *)
(* and such a job lives in the card's lane                                 *)
ForItsJob(t) == LaneOf[t] = CardLane /\ Quiet(CardLane)

JobTakes(t, e) == ForItsJob(t) /\ Sets(t, "asking", e, "job")

(* restart_holder: a converter's hung tool goes first, then comes back *)
JobRestarts(t, e) ==
  /\ e \notin Eager \cup Vllms
  /\ ForItsJob(t)
  /\ Sets(t, "restarting", e, "job")

-----------------------------------------------------------------------------
(* take_for_call: the gate *)

DrainedForAnyone(e) == \A f \in Engines \ {e} : inFlight[f] = 0
DrainedOfNobody(e) == waitingFor \in {None, e}

Drained(e) ==
  /\ \A f \in Engines \ {e} : inFlight[f] = 0
  /\ waitingFor \in {None, e}

Woken(place) == [t \in Threads |-> IF place[t] = "waiting" THEN "wanting" ELSE place[t]]

Queues(t) ==
  /\ pc[t] = "wanting"
  /\ gate = None
  /\ ~Drained(want[t])
  /\ waitingFor' = IF waitingFor = None THEN want[t] ELSE waitingFor
  /\ Goes(t, "waiting")
  /\ UNCHANGED <<servers, job, want, errand, locks, inFlight, doors, boot_, byDoor,
                 bounds>>

EntersForgetting(t) ==
  /\ pc[t] = "wanting"
  /\ gate = None
  /\ Drained(want[t])
  /\ gate' = t
  /\ Goes(t, "asking")
  /\ UNCHANGED <<servers, job, want, errand, taker, letting, calls, doors, boot_,
                 byDoor, bounds>>

(* the engine's turn has come: whoever waits looks again, and _calls is    *)
(* held until the card is taken                                            *)
Enters(t) ==
  /\ pc[t] = "wanting"
  /\ gate = None
  /\ Drained(want[t])
  /\ gate' = t
  /\ IF waitingFor = want[t]
     THEN /\ waitingFor' = None
          /\ pc' = [Woken(pc) EXCEPT ![t] = "asking"]
     ELSE UNCHANGED waitingFor /\ Goes(t, "asking")
  /\ UNCHANGED <<servers, job, want, errand, taker, letting, inFlight, doors, boot_,
                 byDoor, bounds>>

-----------------------------------------------------------------------------
(* take, under _taking: the handover *)

Returns(t) ==
  /\ taker' = IF taker = t THEN None ELSE taker
  /\ letting' = {}
  /\ gate' = IF gate = t THEN None ELSE gate

(* the card is there: a call is counted in and _calls let go *)
Taken(t) ==
  /\ Returns(t)
  /\ IF errand[t] = "call"
     THEN /\ inFlight' = [inFlight EXCEPT ![want[t]] = @ + 1]
          /\ Goes(t, "calling")
          /\ UNCHANGED <<want, errand>>
     ELSE /\ UNCHANGED inFlight
          /\ Goes(t, "idle")
          /\ want' = [want EXCEPT ![t] = None]
          /\ errand' = [errand EXCEPT ![t] = "none"]

(* CardNotHanded, or whatever broke the handover: the call or job has failed *)
Fails(t) ==
  /\ Returns(t)
  /\ Goes(t, "idle")
  /\ want' = [want EXCEPT ![t] = None]
  /\ errand' = [errand EXCEPT ![t] = "none"]
  /\ UNCHANGED inFlight

MayNeedLoad(t) == errand[t] = "job" /\ want[t] \in Eager

(* a card already held is not handed again, unless the job names a model an  *)
(* eager engine has yet to load                                              *)
Asks(t) ==
  /\ pc[t] = "asking"
  /\ taker = None
  /\ \/ HoldsFor(want[t]) /\ Taken(t)
     \/ /\ ~HoldsFor(want[t]) \/ MayNeedLoad(t)
        /\ taker' = t
        /\ Goes(t, "facing")
        /\ UNCHANGED <<want, errand, gate, letting, inFlight>>
  /\ UNCHANGED <<servers, job, waitingFor, doors, boot_, byDoor, bounds>>

(* asked before anything lets go: nothing is released for a silent server *)
Faces(t) ==
  /\ pc[t] = "facing"
  /\ \/ Silent(want[t]) /\ Fails(t)
     \/ /\ ~Silent(want[t])
        /\ letting' = OnCard \ {want[t]}
        /\ Goes(t, "releasing")
        /\ UNCHANGED <<want, errand, gate, taker, inFlight>>
  /\ UNCHANGED <<servers, job, waitingFor, doors, boot_, byDoor, bounds>>

(* a silent holder never reads as free, and a dead vLLM or converter breaks  *)
(* the handover; a dead ollama has nothing to unload                         *)
Stuck(e) == e \in silent \/ (server[e] = "down" /\ e \notin Eager)

(* one holder after another; each is read until it has let go *)
Releases(t) ==
  /\ pc[t] = "releasing"
  /\ \/ \E e \in letting : /\ ~Stuck(e)
                           /\ LetsGo(e)
                           /\ letting' = letting \ {e}
                           /\ UNCHANGED <<thread, gate, taker, inFlight>>
     \/ /\ letting = {}
        /\ Goes(t, "taking")
        /\ UNCHANGED <<server, byDoor, want, errand, locks, inFlight>>
     \/ /\ \E e \in letting : Stuck(e)
        /\ Fails(t)
        /\ UNCHANGED <<server, byDoor>>
  /\ UNCHANGED <<silent, job, waitingFor, doors, boot_, bounds>>

(* a wake beside another holder runs out of memory, again and again *)
Crowded(e) == \E f \in Engines \ {e} : server[f] = "holds"

Takes(t) ==
  LET e == want[t]
      loads == e \notin Eager \/ errand[t] = "job"
  IN /\ pc[t] = "taking"
     /\ \/ /\ loads => ~Silent(e)
           /\ e \in Vllms => ~Crowded(e) \/ server[e] = "holds"
           /\ server' = IF loads THEN [server EXCEPT ![e] = "holds"] ELSE server
           /\ Goes(t, "checking")
           /\ UNCHANGED <<want, errand, locks, inFlight>>
        \/ /\ \/ loads /\ Silent(e)
              \/ e \notin Eager /\ Crowded(e) /\ server[e] # "holds"
           /\ Fails(t)
           /\ UNCHANGED server
     /\ UNCHANGED <<silent, job, waitingFor, doors, boot_, byDoor, bounds>>

(* the last reading: whoever came onto the card meanwhile still holds it *)
Checks(t) ==
  /\ pc[t] = "checking"
  /\ IF OnCard \subseteq {want[t]} THEN Taken(t) ELSE Fails(t)
  /\ UNCHANGED <<servers, job, waitingFor, doors, boot_, byDoor, bounds>>

Restarts(t) ==
  /\ pc[t] = "restarting"
  /\ taker = None
  /\ \/ /\ ~Silent(want[t])
        /\ LetsGo(want[t])
        /\ Goes(t, "asking")
        /\ UNCHANGED <<want, errand, locks, inFlight>>
     \/ /\ Silent(want[t])
        /\ Fails(t)
        /\ UNCHANGED <<server, byDoor>>
  /\ UNCHANGED <<silent, job, waitingFor, doors, boot_, bounds>>

(* a server refuses a step of the handover, or a load spills *)
Breaks(t) ==
  /\ pc[t] \in Handing \/ (pc[t] = "restarting" /\ taker = None)
  /\ faults < MaxFaults
  /\ faults' = faults + 1
  /\ Fails(t)
  /\ UNCHANGED <<servers, job, waitingFor, doors, boot_, byDoor, deaths>>

-----------------------------------------------------------------------------
(* the call itself *)

(* an eager engine loads on the call *)
Loads(t) ==
  /\ pc[t] = "calling"
  /\ want[t] \in Eager
  /\ server[want[t]] = "free"
  /\ server' = [server EXCEPT ![want[t]] = "holds"]
  /\ UNCHANGED <<silent, job, thread, locks, calls, doors, boot_, byDoor, bounds>>

(* _call_ended, which needs _calls too *)
Ends(t) ==
  /\ pc[t] = "calling"
  /\ gate = None
  /\ inFlight' = [inFlight EXCEPT ![want[t]] = @ - 1]
  /\ pc' = [Woken(pc) EXCEPT ![t] = "idle"]
  /\ want' = [want EXCEPT ![t] = None]
  /\ errand' = [errand EXCEPT ![t] = "none"]
  /\ UNCHANGED <<servers, job, locks, waitingFor, doors, boot_, byDoor, bounds>>

(* the process dies: its locks and counts go with it, the servers stay as they   *)
(* are and the rows of its jobs read running until it is back                   *)
Dies ==
  /\ deaths < MaxDeaths
  /\ deaths' = deaths + 1
  /\ pc' = [t \in Threads |-> "idle"]
  /\ want' = [t \in Threads |-> None]
  /\ errand' = [t \in Threads |-> "none"]
  /\ gate' = None
  /\ taker' = None
  /\ letting' = {}
  /\ inFlight' = [e \in Engines |-> 0]
  /\ waitingFor' = None
  /\ UNCHANGED <<servers, job, doors, boot_, byDoor, faults>>

-----------------------------------------------------------------------------
(* Around the worker *)

(* wait_for_the_card: a door goes on only when the engine has the card *)
DoorLooks(d, e) ==
  /\ door[d] = "idle"
  /\ HoldsFor(e)
  /\ door' = [door EXCEPT ![d] = "looked"]
  /\ asked' = [asked EXCEPT ![d] = e]
  /\ UNCHANGED <<servers, job, thread, locks, calls, boot_, byDoor, bounds>>

DoorCalls(d) ==
  LET e == asked[d]
      loads == e \in Eager /\ server[e] = "free"
  IN /\ door[d] = "looked"
     /\ door' = [door EXCEPT ![d] = "idle"]
     /\ asked' = [asked EXCEPT ![d] = None]
     /\ server' = IF loads THEN [server EXCEPT ![e] = "holds"] ELSE server
     /\ byDoor' = IF loads THEN byDoor \cup {e} ELSE byDoor
     /\ UNCHANGED <<silent, job, thread, locks, calls, boot_, bounds>>

(* _put_vllm_to_sleep: the lane is looked at once, then each vLLM is slept *)
BootLooks ==
  /\ boot = "idle"
  /\ boots < MaxBoots
  /\ boots' = boots + 1
  /\ ~job[CardLane]
  /\ boot' = "looked"
  /\ drowsy' = Vllms
  /\ UNCHANGED <<servers, job, thread, locks, calls, doors, byDoor, bounds>>

BootSleeps(e) ==
  /\ e \in drowsy
  /\ \/ /\ e \notin silent
        /\ LetsGo(e)
        /\ drowsy' = drowsy \ {e}
     \/ /\ e \in silent
        /\ drowsy' = {}
        /\ UNCHANGED <<server, byDoor>>
  /\ boot' = IF drowsy' = {} THEN "idle" ELSE "looked"
  /\ UNCHANGED <<silent, job, thread, locks, calls, doors, boots, bounds>>

(* a server dies, stops answering, or is restarted: a vLLM comes back awake *)
ServerFails(e) ==
  /\ faults < MaxFaults
  /\ faults' = faults + 1
  /\ \/ server' = [server EXCEPT ![e] = "down"] /\ silent' = silent \ {e}
     \/ server[e] # "down" /\ silent' = silent \cup {e} /\ UNCHANGED server
     \/ /\ server' = [server EXCEPT ![e] = IF e \in Eager THEN "free" ELSE "holds"]
        /\ silent' = silent \ {e}
  /\ byDoor' = byDoor \ {e}
  /\ UNCHANGED <<job, thread, locks, calls, doors, boot_, deaths>>

ServerAnswers(e) ==
  /\ e \in silent
  /\ silent' = silent \ {e}
  /\ UNCHANGED <<server, job, thread, locks, calls, doors, boot_, byDoor, bounds>>

-----------------------------------------------------------------------------

GateStep(t) == Queues(t) \/ Enters(t)
TakeStep(t) ==
  Asks(t) \/ Faces(t) \/ Releases(t) \/ Takes(t) \/ Checks(t) \/ Restarts(t)

Next ==
  \/ \E l \in Lanes : JobStarts(l) \/ JobEnds(l)
  \/ \E t \in Threads :
       \/ \E e \in Engines : WantsCall(t, e) \/ JobTakes(t, e) \/ JobRestarts(t, e)
       \/ GateStep(t)
       \/ TakeStep(t)
       \/ Breaks(t)
       \/ Loads(t)
       \/ Ends(t)
  \/ Dies
  \/ \E d \in Doors : (\E e \in Engines : DoorLooks(d, e)) \/ DoorCalls(d)
  \/ BootLooks
  \/ \E e \in Engines : BootSleeps(e) \/ ServerFails(e) \/ ServerAnswers(e)

Spec == Init /\ [][Next]_vars

(* A thread runs on, a handover's waits have ceilings and a request times  *)
(* out.  Nobody owes a new call, a new job or a recovery.                  *)
Fairness ==
  \A t \in Threads : /\ WF_vars(GateStep(t))
                     /\ WF_vars(TakeStep(t))
                     /\ WF_vars(Ends(t))
FairSpec == Spec /\ Fairness

-----------------------------------------------------------------------------
(* Properties *)

Calling(e) == {t \in Threads : pc[t] = "calling" /\ want[t] = e}

(* Two threads of the worker never have requests out on two engines of the *)
(* card at once: whatever take_for_call lets in shares one engine.         *)
OneEngineAtATime ==
  \A t, u \in Threads : pc[t] = "calling" /\ pc[u] = "calling" => want[t] = want[u]

(* _in_flight says exactly how many requests are out, whichever of them    *)
(* failed before it began: a count left over would close the card for ever.*)
CountsAreTrue == \A e \in Engines : inFlight[e] = Cardinality(Calling(e))

(* _waiting_for names an engine somebody still waits for: left behind by a *)
(* waiter that went, it would turn every other engine away for ever.       *)
WaitIsForSomeone ==
  waitingFor # None =>
    \E t \in Threads : pc[t] \in {"wanting", "waiting"} /\ want[t] = waitingFor

(* Nobody sleeps in _calls.wait() once it could go: each change that opens *)
(* the gate has notified.                                                  *)
NobodyForgotten == \A t \in Threads : pc[t] = "waiting" => ~Drained(want[t])

(* "Held until the callable it returns: a parallel thread never sleeps it  *)
(* mid-request", says the comment over take_for_call.                      *)
NeverSleptMidRequest ==
  [][\A e \in Engines :
       inFlight[e] > 0 /\ server[e] = "holds" /\ server'[e] # "holds"
         => faults' # faults]_vars

(* A request that is out has the card to itself, and a vLLM it asks is     *)
(* awake, but for a server that failed or a model a door loaded meanwhile. *)
AloneOnTheCard ==
  \A t \in Threads : pc[t] = "calling" /\ faults = 0 =>
    /\ \A e \in Engines \ {want[t]} : server[e] = "holds" => e \in byDoor
    /\ want[t] \notin Eager => server[want[t]] = "holds"

(* "A sleep under a running pass cost its row", says the bootstrap, which  *)
(* looks for a job in the card's lane before it puts the vLLMs to sleep.   *)
NoSleepUnderAPass ==
  [][\A e \in drowsy \ drowsy' :
       server[e] = "holds" /\ server'[e] = "free" => ~job[CardLane]]_vars

(* The engine the card is being drained for gets its turn.                 *)
EngineGetsItsTurn == \A e \in Engines : waitingFor = e ~> waitingFor # e

-----------------------------------------------------------------------------
(* Why they hold: the inductive invariant CardProofs works with *)

(* who has which lock, and that a job takes the card with no call of its lane out *)
Custody ==
  \A t \in Threads :
    /\ (pc[t] = "idle") = (errand[t] = "none")
    /\ pc[t] # "idle" => want[t] \in Engines
    /\ pc[t] \in {"wanting", "waiting", "calling"} => errand[t] = "call"
    /\ pc[t] = "restarting" => errand[t] = "job"
    /\ (gate = t) = (pc[t] \in Inside /\ errand[t] = "call")
    /\ (taker = t) = (pc[t] \in Handing)
    /\ pc[t] = "releasing" => want[t] \notin letting
    /\ errand[t] = "job" =>
         /\ LaneOf[t] = CardLane
         /\ \A u \in Threads \ {t} : LaneOf[u] = CardLane => pc[u] = "idle"

(* from the gate to the count no call of another engine begins *)
Turns ==
  /\ CountsAreTrue
  /\ \A e, f \in Engines : inFlight[e] # 0 /\ inFlight[f] # 0 => e = f
  /\ gate # None => /\ waitingFor = None
                    /\ \A f \in Engines \ {want[gate]} : inFlight[f] = 0
  /\ WaitIsForSomeone
  /\ NobodyForgotten

IInv == TypeOK /\ Custody /\ Turns

(* the engines on the card that no door has brought there *)
Placed == {e \in Engines : server[e] = "holds" /\ e \notin byDoor}

(* what a handover has yet to release is all that shares the card with its engine, *)
(* and from the check on the engine is awake                                        *)
ClearFor(t) ==
  /\ pc[t] = "releasing" => Placed \subseteq letting \cup {want[t]}
  /\ pc[t] \in {"taking", "checking", "calling"} => Placed \subseteq {want[t]}
  /\ pc[t] \in {"checking", "calling"} /\ want[t] \notin Eager => server[want[t]] = "holds"

(* while no server fails *)
Cleared ==
  faults = 0 => /\ silent = {}
                /\ \A e \in Engines : server[e] # "down"
                /\ \A t \in Threads : ClearFor(t)

(* the bootstrap has nobody to put to sleep before it has looked *)
BootIsQuiet == boots \in Nat /\ boots <= MaxBoots /\ (boots = 0 => drowsy = {})

-----------------------------------------------------------------------------
(* The gate's promise, and its locks and counts read as it *)

Out == [t \in Threads |-> IF pc[t] = "calling" THEN want[t] ELSE None]
Served == IF gate # None THEN want[gate] ELSE waitingFor

Gate == INSTANCE CardGate WITH out <- Out, next <- Served

(* "The engine a handover waits to drain the card for; new calls elsewhere *)
(* queue behind it": from the wait to the count the next request to begin  *)
(* is on that engine, however many threads arrive meanwhile.               *)
KeepsTheGate == Gate!Spec
=============================================================================
