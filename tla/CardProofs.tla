------------------------------ MODULE CardProofs ------------------------------
(***************************************************************************)
(* Theorems about Card for any engines, threads, lanes, doors and bounds,  *)
(* and about the judge of a rejudge in the card's lane.                    *)
(***************************************************************************)
EXTENDS MCLane, FiniteSetTheorems, TLAPS

USE DEF bounds

-----------------------------------------------------------------------------
(* Every state is a state of the right shape. *)

LEMMA InitTypeOK == Init => TypeOK
  BY CardAssumption DEF Init, TypeOK, Places, Inside, Handing

LEMMA DiesTypeOK ==
  ASSUME TypeOK, Dies
  PROVE  TypeOK'
<1>1. deaths' \in Nat
  BY DEF Dies, TypeOK
<1> QED
  BY <1>1 DEF Dies, TypeOK, Places, servers, doors, boot_

LEMMA LetsGoType ==
  ASSUME TypeOK, NEW e \in Engines, LetsGo(e)
  PROVE  /\ server' \in [Engines -> {"free", "holds", "down"}]
         /\ byDoor' \in SUBSET Engines
  BY DEF LetsGo, TypeOK

LEMMA FailsType ==
  ASSUME TypeOK, NEW t \in Threads, Fails(t)
  PROVE  /\ pc' \in [Threads -> Places]
         /\ want' \in [Threads -> Engines \cup {None}]
         /\ errand' \in [Threads -> {"none", "call", "job"}]
         /\ gate' \in Threads \cup {None}
         /\ taker' \in Threads \cup {None}
         /\ letting' \in SUBSET Engines
         /\ inFlight' \in [Engines -> Int]
  BY DEF Fails, Returns, Goes, TypeOK, Places

LEMMA TakenType ==
  ASSUME TypeOK, NEW t \in Threads, Taken(t)
  PROVE  /\ pc' \in [Threads -> Places]
         /\ want' \in [Threads -> Engines \cup {None}]
         /\ errand' \in [Threads -> {"none", "call", "job"}]
         /\ gate' \in Threads \cup {None}
         /\ taker' \in Threads \cup {None}
         /\ letting' \in SUBSET Engines
         /\ inFlight' \in [Engines -> Int]
<1>1. \A e \in Engines : inFlight[e] + 1 \in Int
  BY DEF TypeOK
<1>2. inFlight' \in [Engines -> Int]
  BY <1>1 DEF Taken, TypeOK
<1> QED
  BY <1>2 DEF Taken, Returns, Goes, TypeOK, Places

LEMMA WokenType ==
  ASSUME TypeOK
  PROVE  Woken(pc) \in [Threads -> Places]
  BY DEF Woken, TypeOK, Places

LEMMA LanesTypeOK ==
  ASSUME TypeOK, NEW l \in Lanes, JobStarts(l) \/ JobEnds(l)
  PROVE  TypeOK'
  BY DEF JobStarts, JobEnds, TypeOK, servers, thread, locks, calls, doors, boot_

LEMMA SetsTypeOK ==
  ASSUME TypeOK, NEW t \in Threads, NEW e \in Engines,
         WantsCall(t, e) \/ JobTakes(t, e) \/ JobRestarts(t, e)
  PROVE  TypeOK'
  BY DEF WantsCall, JobTakes, JobRestarts, Sets, Goes, TypeOK, Places, Inside, servers,
         locks, calls, doors, boot_

LEMMA GateTypeOK ==
  ASSUME TypeOK, NEW t \in Threads, GateStep(t)
  PROVE  TypeOK'
<1>1. CASE Queues(t)
  BY <1>1 DEF Queues, Goes, TypeOK, Places, servers, locks, doors, boot_
<1>2. CASE Enters(t)
  <2>1. pc' \in [Threads -> Places]
    BY <1>2, WokenType DEF Enters, Goes, TypeOK, Places, Inside
  <2> QED
    BY <1>2, <2>1 DEF Enters, TypeOK, servers, doors, boot_
<1> QED
  BY <1>1, <1>2 DEF GateStep

LEMMA TakeTypeOK ==
  ASSUME TypeOK, NEW t \in Threads, TakeStep(t)
  PROVE  TypeOK'
<1> USE DEF Places, Inside, Handing, Goes
<1>1. CASE Asks(t)
  <2>1. CASE Taken(t)
    BY <1>1, <2>1, TakenType DEF Asks, TypeOK, servers, doors, boot_
  <2>2. CASE ~Taken(t)
    BY <1>1, <2>2 DEF Asks, TypeOK, servers, doors, boot_
  <2> QED
    BY <2>1, <2>2
<1>2. CASE Faces(t)
  <2>1. CASE Fails(t)
    BY <1>2, <2>1, FailsType DEF Faces, TypeOK, servers, doors, boot_
  <2>2. CASE ~Fails(t)
    <3>1. letting' \in SUBSET Engines
      BY <1>2, <2>2 DEF Faces, OnCard, TypeOK
    <3> QED
      BY <1>2, <2>2, <3>1 DEF Faces, TypeOK, servers, doors, boot_
  <2> QED
    BY <2>1, <2>2
<1>3. CASE Releases(t)
  <2>1. CASE Fails(t) /\ UNCHANGED <<server, byDoor>>
    BY <1>3, <2>1, FailsType DEF Releases, TypeOK, doors, boot_
  <2>2. CASE /\ Goes(t, "taking")
             /\ UNCHANGED <<server, byDoor, want, errand, locks, inFlight>>
    BY <1>3, <2>2 DEF Releases, TypeOK, locks, doors, boot_
  <2>3. CASE \E e \in letting : /\ LetsGo(e)
                                /\ letting' = letting \ {e}
                                /\ UNCHANGED <<thread, gate, taker, inFlight>>
    <3>1. PICK e \in Engines : LetsGo(e) /\ letting' = letting \ {e}
      BY <2>3 DEF TypeOK
    <3> QED
      BY <1>3, <2>3, <3>1, LetsGoType DEF Releases, TypeOK, thread, doors, boot_
  <2> QED
    BY <1>3, <2>1, <2>2, <2>3 DEF Releases
<1>4. CASE Takes(t)
  <2>1. CASE Fails(t) /\ UNCHANGED server
    BY <1>4, <2>1, FailsType DEF Takes, TypeOK, doors, boot_
  <2>2. CASE /\ Goes(t, "checking")
             /\ server' \in {server, [server EXCEPT ![want[t]] = "holds"]}
             /\ UNCHANGED <<want, errand, locks, inFlight>>
    BY <1>4, <2>2 DEF Takes, TypeOK, locks, doors, boot_
  <2> QED
    BY <1>4, <2>1, <2>2 DEF Takes
<1>5. CASE Checks(t)
  BY <1>5, TakenType, FailsType DEF Checks, TypeOK, servers, doors, boot_
<1>6. CASE Restarts(t)
  <2>1. CASE Fails(t) /\ UNCHANGED <<server, byDoor>>
    BY <1>6, <2>1, FailsType DEF Restarts, TypeOK, doors, boot_
  <2>2. CASE /\ LetsGo(want[t])
             /\ Goes(t, "asking")
             /\ UNCHANGED <<want, errand, locks, inFlight>>
    <3>1. /\ server' \in [Engines -> {"free", "holds", "down"}]
          /\ byDoor' \in SUBSET Engines
      BY <2>2 DEF LetsGo, TypeOK
    <3> QED
      BY <1>6, <2>2, <3>1 DEF Restarts, TypeOK, locks, doors, boot_
  <2> QED
    BY <1>6, <2>1, <2>2 DEF Restarts
<1> QED
  BY <1>1, <1>2, <1>3, <1>4, <1>5, <1>6 DEF TakeStep

LEMMA CallTypeOK ==
  ASSUME TypeOK, NEW t \in Threads,
         Breaks(t) \/ Loads(t) \/ Ends(t)
  PROVE  TypeOK'
<1>1. CASE Breaks(t)
  BY <1>1, FailsType DEF Breaks, TypeOK, servers, doors, boot_
<1>2. CASE Loads(t)
  BY <1>2 DEF Loads, TypeOK, thread, locks, calls, doors, boot_
<1>3. CASE Ends(t)
  <2>1. pc' \in [Threads -> Places]
    BY <1>3, WokenType DEF Ends, TypeOK, Places
  <2>2. \A e \in Engines : inFlight[e] - 1 \in Int
    BY DEF TypeOK
  <2>3. inFlight' \in [Engines -> Int]
    BY <1>3, <2>2 DEF Ends, TypeOK
  <2> QED
    BY <1>3, <2>1, <2>3 DEF Ends, TypeOK, servers, locks, doors, boot_
<1> QED
  BY <1>1, <1>2, <1>3

LEMMA DoorsTypeOK ==
  ASSUME TypeOK, NEW d \in Doors,
         (\E e \in Engines : DoorLooks(d, e)) \/ DoorCalls(d)
  PROVE  TypeOK'
<1>1. CASE \E e \in Engines : DoorLooks(d, e)
  BY <1>1 DEF DoorLooks, TypeOK, servers, thread, locks, calls, boot_
<1>2. CASE DoorCalls(d)
  BY <1>2, CardAssumption DEF DoorCalls, TypeOK, thread, locks, calls, boot_
<1> QED
  BY <1>1, <1>2

LEMMA BootLooksTypeOK ==
  ASSUME TypeOK, BootLooks
  PROVE  TypeOK'
<1>1. Vllms \in SUBSET Engines /\ boots + 1 \in Nat
  BY CardAssumption DEF TypeOK
<1> QED
  BY <1>1 DEF BootLooks, TypeOK, servers, thread, locks, calls, doors

LEMMA ServersTypeOK ==
  ASSUME TypeOK, NEW e \in Engines,
         BootSleeps(e) \/ ServerFails(e) \/ ServerAnswers(e)
  PROVE  TypeOK'
<1>1. CASE BootSleeps(e)
  BY <1>1 DEF BootSleeps, LetsGo, TypeOK, thread, locks, calls, doors
<1>2. CASE ServerFails(e)
  BY <1>2 DEF ServerFails, TypeOK, thread, locks, calls, doors, boot_
<1>3. CASE ServerAnswers(e)
  BY <1>3 DEF ServerAnswers, TypeOK, thread, locks, calls, doors, boot_
<1> QED
  BY <1>1, <1>2, <1>3

-----------------------------------------------------------------------------
(* The locks are where Custody says. *)

LEMMA InitCustody == Init => Custody
  BY CardAssumption DEF Init, Custody, Inside, Handing

LEMMA DiesCustody == Dies => Custody'
  BY CardAssumption DEF Dies, Custody, Inside, Handing

LEMMA SameCustody ==
  ASSUME Custody, UNCHANGED <<thread, locks>>
  PROVE  Custody'
  BY DEF Custody, thread, locks

LEMMA SetsCustody ==
  ASSUME TypeOK, Custody, NEW t \in Threads, NEW e \in Engines,
         WantsCall(t, e) \/ JobTakes(t, e) \/ JobRestarts(t, e)
  PROVE  Custody'
<1> USE DEF Inside, Handing
<1>1. CASE WantsCall(t, e)
  <2>1. Sets(t, "wanting", e, "call")
    BY <1>1 DEF WantsCall
  <2>2. \A u \in Threads : LaneOf[u] = LaneOf[t] => errand[u] # "job"
    BY <1>1 DEF WantsCall, JobTaking
  <2> QED
    BY <2>1, <2>2 DEF Sets, Goes, Custody, TypeOK, locks
<1>2. ASSUME NEW place \in {"asking", "restarting"}, Sets(t, place, e, "job"), ForItsJob(t)
      PROVE  Custody'
  <2>1. \A u \in Threads : LaneOf[u] = CardLane => pc[u] = "idle"
    BY <1>2 DEF ForItsJob, Quiet
  <2>2. LaneOf[t] = CardLane
    BY <1>2 DEF ForItsJob
  <2> QED
    BY <1>2, <2>1, <2>2 DEF Sets, Goes, Custody, TypeOK, locks
<1> QED
  BY <1>1, <1>2 DEF JobTakes, JobRestarts

LEMMA QueuesCustody ==
  ASSUME TypeOK, Custody, NEW t \in Threads, Queues(t)
  PROVE  Custody'
  BY DEF Queues, Goes, Custody, TypeOK, locks, Inside, Handing

LEMMA EntersCustody ==
  ASSUME TypeOK, Custody, NEW t \in Threads, Enters(t)
  PROVE  Custody'
<1> USE DEF Inside, Handing
<1>1. /\ pc[t] = "wanting" /\ errand[t] = "call" /\ pc'[t] = "asking"
      /\ gate = None /\ gate' = t
      /\ UNCHANGED <<want, errand, taker, letting>>
  BY DEF Enters, Goes, Custody, TypeOK, Woken
<1>2. \A u \in Threads \ {t} :
        \/ pc'[u] = pc[u]
        \/ pc[u] = "waiting" /\ pc'[u] = "wanting"
  BY DEF Enters, Goes, TypeOK, Woken
<1>3. None \notin Threads
  BY CardAssumption
<1> QED
  BY <1>1, <1>2, <1>3 DEF Custody, TypeOK

LEMMA EndsCustody ==
  ASSUME TypeOK, Custody, NEW t \in Threads, Ends(t)
  PROVE  Custody'
<1> USE DEF Inside, Handing
<1>1. /\ pc[t] = "calling" /\ pc'[t] = "idle" /\ errand'[t] = "none"
      /\ UNCHANGED locks
  BY DEF Ends, TypeOK, Woken
<1>2. \A u \in Threads \ {t} :
        /\ want'[u] = want[u] /\ errand'[u] = errand[u]
        /\ \/ pc'[u] = pc[u]
           \/ pc[u] = "waiting" /\ pc'[u] = "wanting"
  BY DEF Ends, TypeOK, Woken
<1> QED
  BY <1>1, <1>2 DEF Custody, TypeOK, locks

LEMMA FailsCustody ==
  ASSUME TypeOK, Custody, NEW t \in Threads, pc[t] # "idle", Fails(t),
         pc[t] \in Inside \cup {"restarting"}
  PROVE  Custody'
<1>1. None \notin Threads
  BY CardAssumption
<1> QED
  BY <1>1 DEF Fails, Returns, Goes, Custody, TypeOK, Inside, Handing

LEMMA TakenCustody ==
  ASSUME TypeOK, Custody, NEW t \in Threads, Taken(t),
         pc[t] \in {"asking", "checking"}
  PROVE  Custody'
<1>1. None \notin Threads
  BY CardAssumption
<1> USE DEF Inside, Handing
<1>2. CASE errand[t] = "call"
  BY <1>1, <1>2 DEF Taken, Returns, Goes, Custody, TypeOK
<1>3. CASE errand[t] # "call"
  BY <1>1, <1>3 DEF Taken, Returns, Goes, Custody, TypeOK
<1> QED
  BY <1>2, <1>3

(* A step of the handover that neither ends nor fails it. *)
LEMMA MovesCustody ==
  ASSUME TypeOK, Custody, NEW t \in Threads, NEW place \in Inside,
         pc[t] \in Inside \cup {"restarting"},
         Goes(t, place),
         UNCHANGED <<want, errand, gate>>,
         IF place \in Handing THEN taker \in {t, None} /\ taker' = t
                              ELSE pc[t] \notin Handing /\ UNCHANGED <<taker, letting>>,
         place = "releasing" => want[t] \notin letting',
         taker # t => pc[t] \in {"asking", "restarting"},
         pc[t] = "restarting" => errand[t] = "job"
  PROVE  Custody'
<1>1. None \notin Threads
  BY CardAssumption
<1> QED
  BY <1>1 DEF Goes, Custody, TypeOK, Inside, Handing

LEMMA TakeCustody ==
  ASSUME TypeOK, Custody, NEW t \in Threads, TakeStep(t)
  PROVE  Custody'
<1> USE DEF Handing, Inside
<1>1. CASE Asks(t)
  <2>1. CASE Taken(t)
    BY <1>1, <2>1, TakenCustody DEF Asks
  <2>2. CASE ~Taken(t)
    BY <1>1, <2>2, MovesCustody DEF Asks
  <2> QED
    BY <2>1, <2>2
<1>2. CASE Faces(t)
  <2>1. CASE Fails(t)
    BY <1>2, <2>1, FailsCustody DEF Faces
  <2>2. CASE ~Fails(t)
    BY <1>2, <2>2, MovesCustody DEF Faces, Custody
  <2> QED
    BY <2>1, <2>2
<1>3. CASE Releases(t)
  <2>1. CASE Fails(t)
    BY <1>3, <2>1, FailsCustody DEF Releases
  <2>2. CASE Goes(t, "taking") /\ UNCHANGED <<want, errand, locks, inFlight>>
    BY <1>3, <2>2, MovesCustody DEF Releases, Custody, locks
  <2>3. CASE \E e \in letting : /\ letting' = letting \ {e}
                                /\ UNCHANGED <<thread, gate, taker, inFlight>>
    <3>1. letting' \subseteq letting
      BY <2>3
    <3> QED
      BY <2>3, <3>1 DEF Custody, thread
  <2> QED
    BY <1>3, <2>1, <2>2, <2>3 DEF Releases
<1>4. CASE Takes(t)
  <2>1. CASE Fails(t)
    BY <1>4, <2>1, FailsCustody DEF Takes
  <2>2. CASE Goes(t, "checking") /\ UNCHANGED <<want, errand, locks, inFlight>>
    BY <1>4, <2>2, MovesCustody DEF Takes, Custody, locks
  <2> QED
    BY <1>4, <2>1, <2>2 DEF Takes
<1>5. CASE Checks(t)
  BY <1>5, TakenCustody, FailsCustody DEF Checks
<1>6. CASE Restarts(t)
  <2>1. CASE Fails(t)
    BY <1>6, <2>1, FailsCustody DEF Restarts
  <2>2. CASE Goes(t, "asking") /\ UNCHANGED <<want, errand, locks, inFlight>>
    BY <1>6, <2>2, MovesCustody DEF Restarts, Custody, locks
  <2> QED
    BY <1>6, <2>1, <2>2 DEF Restarts
<1> QED
  BY <1>1, <1>2, <1>3, <1>4, <1>5, <1>6 DEF TakeStep

-----------------------------------------------------------------------------
(* The gate lets one engine in at a time, and its count is true. *)

LEMMA CallingFinite ==
  ASSUME NEW e \in Engines
  PROVE  IsFiniteSet(Calling(e)) /\ Cardinality(Calling(e)) \in Nat
<1>1. Calling(e) \subseteq Threads
  BY DEF Calling
<1> QED
  BY <1>1, CardAssumption, FS_Subset, FS_CardinalityType

LEMMA InitTurns == Init => Turns
<1> SUFFICES ASSUME Init PROVE Turns
  OBVIOUS
<1>1. \A e \in Engines : Calling(e) = {}
  BY DEF Init, Calling
<1>2. CountsAreTrue
  BY <1>1, FS_EmptySet DEF Init, CountsAreTrue
<1> QED
  BY <1>2 DEF Init, Turns, WaitIsForSomeone, NobodyForgotten

LEMMA DiesTurns == Dies => Turns'
<1> SUFFICES ASSUME Dies PROVE Turns'
  OBVIOUS
<1>1. \A e \in Engines : Calling(e)' = {}
  BY DEF Dies, Calling
<1>2. CountsAreTrue'
  BY <1>1, FS_EmptySet DEF Dies, CountsAreTrue
<1> QED
  BY <1>2 DEF Dies, Turns, WaitIsForSomeone, NobodyForgotten

(* A thread that moves between places without a count or a wait of its own. *)
LEMMA TurnsKept ==
  ASSUME TypeOK, Turns, NEW t \in Threads,
         \A u \in Threads \ {t} : pc'[u] = pc[u] /\ want'[u] = want[u],
         pc[t] \notin {"wanting", "waiting", "calling"},
         pc'[t] \notin {"waiting", "calling"},
         gate' \in {gate, None},
         gate' = t => want'[t] = want[t],
         UNCHANGED calls
  PROVE  Turns'
<1>1. \A e \in Engines : Calling(e)' = Calling(e)
  BY DEF Calling
<1>2. CountsAreTrue'
  BY <1>1 DEF Turns, CountsAreTrue, calls
<1>3. \A e, f \in Engines : inFlight'[e] # 0 /\ inFlight'[f] # 0 => e = f
  BY DEF Turns, calls
<1>4. gate' # None => /\ waitingFor' = None
                      /\ \A f \in Engines \ {want'[gate']} : inFlight'[f] = 0
  BY DEF Turns, TypeOK, calls
<1>5. WaitIsForSomeone'
  BY DEF Turns, WaitIsForSomeone, calls
<1>6. NobodyForgotten'
  BY DEF Turns, NobodyForgotten, Drained, calls
<1> QED
  BY <1>2, <1>3, <1>4, <1>5, <1>6 DEF Turns

LEMMA SameTurns ==
  ASSUME Turns, UNCHANGED <<thread, gate, calls>>
  PROVE  Turns'
<1>1. \A e \in Engines : Calling(e)' = Calling(e)
  BY DEF Calling, thread
<1> QED
  BY <1>1
  DEF Turns, CountsAreTrue, WaitIsForSomeone, NobodyForgotten, Drained, thread, calls

LEMMA FailsTurns ==
  ASSUME TypeOK, Turns, NEW t \in Threads, Fails(t), UNCHANGED waitingFor,
         pc[t] \in Inside \cup {"restarting"}
  PROVE  Turns'
<1>1. /\ \A u \in Threads \ {t} : pc'[u] = pc[u] /\ want'[u] = want[u]
      /\ pc[t] \notin {"wanting", "waiting", "calling"}
      /\ pc'[t] = "idle"
      /\ gate' \in {gate, None} \ {t}
      /\ UNCHANGED calls
  BY CardAssumption DEF Fails, Returns, Goes, TypeOK, Inside, Handing, calls
<1> QED
  BY <1>1, TurnsKept

LEMMA MovesTurns ==
  ASSUME TypeOK, Turns, NEW t \in Threads, NEW place \in Inside, Goes(t, place),
         UNCHANGED <<want, gate, calls>>,
         pc[t] \in Inside \cup {"restarting"}
  PROVE  Turns'
<1>1. /\ \A u \in Threads \ {t} : pc'[u] = pc[u] /\ want'[u] = want[u]
      /\ pc[t] \notin {"wanting", "waiting", "calling"}
      /\ pc'[t] \notin {"waiting", "calling"}
  BY DEF Goes, TypeOK, Inside, Handing
<1> QED
  BY <1>1, TurnsKept

LEMMA SetsTurns ==
  ASSUME TypeOK, Custody, Turns, NEW t \in Threads, NEW e \in Engines,
         WantsCall(t, e) \/ JobTakes(t, e) \/ JobRestarts(t, e)
  PROVE  Turns'
<1>1. PICK place \in {"wanting", "asking", "restarting"}, as \in {"call", "job"} :
        Sets(t, place, e, as)
  BY DEF WantsCall, JobTakes, JobRestarts
<1>2. /\ \A u \in Threads \ {t} : pc'[u] = pc[u] /\ want'[u] = want[u]
      /\ pc[t] \notin {"wanting", "waiting", "calling"}
      /\ pc'[t] \notin {"waiting", "calling"}
      /\ gate' = gate
      /\ gate # t
      /\ UNCHANGED calls
  BY <1>1 DEF Sets, Goes, TypeOK, Custody, Inside, Handing, locks, calls
<1> QED
  BY <1>2, TurnsKept

LEMMA QueuesTurns ==
  ASSUME TypeOK, Custody, Turns, NEW t \in Threads, Queues(t)
  PROVE  Turns'
<1>1. /\ pc[t] = "wanting" /\ pc'[t] = "waiting" /\ want[t] \in Engines
      /\ \A u \in Threads \ {t} : pc'[u] = pc[u]
      /\ UNCHANGED <<want, gate, inFlight>>
      /\ gate = None
      /\ ~Drained(want[t])
      /\ waitingFor' = IF waitingFor = None THEN want[t] ELSE waitingFor
  BY DEF Queues, Goes, TypeOK, Custody, locks
<1>2. CountsAreTrue'
  <2>1. \A e \in Engines : Calling(e)' = Calling(e)
    BY <1>1 DEF Calling
  <2> QED
    BY <1>1, <2>1 DEF Turns, CountsAreTrue
<1>3. WaitIsForSomeone'
  BY <1>1 DEF Turns, WaitIsForSomeone
<1>4. ASSUME NEW u \in Threads, pc'[u] = "waiting", Drained(want[u])'
      PROVE  FALSE
  <2>1. ~Drained(want[u])
    BY <1>1, <1>4 DEF Turns, NobodyForgotten
  <2> QED
    BY <1>1, <1>4, <2>1, CardAssumption DEF Drained
<1> QED
  BY <1>1, <1>2, <1>3, <1>4 DEF Turns, NobodyForgotten

LEMMA EntersTurns ==
  ASSUME TypeOK, Custody, Turns, NEW t \in Threads, Enters(t)
  PROVE  Turns'
<1>1. /\ pc[t] = "wanting" /\ pc'[t] = "asking"
      /\ UNCHANGED <<want, inFlight>>
      /\ gate' = t
      /\ Drained(want[t])
      /\ waitingFor' = None
  BY DEF Enters, Goes, TypeOK, Woken, Drained
<1>2. \A u \in Threads \ {t} :
        \/ pc'[u] = pc[u]
        \/ pc[u] = "waiting" /\ pc'[u] = "wanting"
  BY DEF Enters, Goes, TypeOK, Woken
<1>3. CountsAreTrue'
  <2>1. \A e \in Engines : Calling(e)' = Calling(e)
    BY <1>1, <1>2 DEF Calling
  <2> QED
    BY <1>1, <2>1 DEF Turns, CountsAreTrue
<1>4. NobodyForgotten'
  <2>1. CASE waitingFor = None
    BY <1>1, <1>2, <2>1 DEF Turns, NobodyForgotten, Drained
  <2>2. CASE waitingFor # None
    <3>1. waitingFor = want[t]
      BY <1>1, <2>2 DEF Drained
    <3>2. \A u \in Threads : pc'[u] # "waiting"
      BY <1>1, <3>1 DEF Enters, TypeOK, Woken
    <3> QED
      BY <3>2 DEF NobodyForgotten
  <2> QED
    BY <2>1, <2>2
<1> QED
  BY <1>1, <1>3, <1>4 DEF Turns, WaitIsForSomeone, Drained

LEMMA TakenTurns ==
  ASSUME TypeOK, Custody, Turns, NEW t \in Threads, Taken(t), UNCHANGED waitingFor,
         pc[t] \in {"asking", "checking"}
  PROVE  Turns'
<1> USE DEF Inside, Handing
<1>1. CASE errand[t] # "call"
  <2>1. /\ \A u \in Threads \ {t} : pc'[u] = pc[u] /\ want'[u] = want[u]
        /\ pc[t] \notin {"wanting", "waiting", "calling"}
        /\ pc'[t] = "idle"
        /\ gate' \in {gate, None} \ {t}
        /\ UNCHANGED calls
    BY <1>1, CardAssumption DEF Taken, Returns, Goes, TypeOK, calls
  <2> QED
    BY <2>1, TurnsKept
<1>2. CASE errand[t] = "call"
  <2>0. PICK e \in Engines : want[t] = e
    BY <1>2 DEF Custody
  <2>1. /\ gate = t /\ gate' = None
        /\ pc'[t] = "calling"
        /\ \A u \in Threads \ {t} : pc'[u] = pc[u]
        /\ UNCHANGED <<want, waitingFor>>
    BY <1>2 DEF Taken, Returns, Goes, Custody, TypeOK
  <2>2. /\ inFlight'[e] = inFlight[e] + 1
        /\ \A f \in Engines \ {e} : inFlight'[f] = inFlight[f]
    BY <1>2, <2>0 DEF Taken, TypeOK
  <2>3. \A f \in Engines \ {e} : inFlight'[f] = 0
    BY <2>0, <2>1, <2>2, CardAssumption DEF Turns
  <2>4. inFlight[e] \in Nat
    BY <2>1, CallingFinite DEF Turns, CountsAreTrue
  <2>5. CountsAreTrue'
    <3>1. \A f \in Engines \ {e} : Calling(f)' = Calling(f)
      BY <2>0, <2>1 DEF Calling
    <3>2. Calling(e)' = Calling(e) \cup {t} /\ t \notin Calling(e)
      BY <2>0, <2>1 DEF Calling
    <3>3. Cardinality(Calling(e)') = Cardinality(Calling(e)) + 1
      BY <2>1, <3>2, CallingFinite, FS_AddElement
    <3>4. ASSUME NEW f \in Engines
          PROVE  inFlight'[f] = Cardinality(Calling(f)')
      <4>1. CASE f = e
        BY <2>1, <2>2, <3>3, <4>1 DEF Turns, CountsAreTrue
      <4>2. CASE f # e
        BY <2>2, <3>1, <4>2 DEF Turns, CountsAreTrue
      <4> QED
        BY <4>1, <4>2
    <3> QED
      BY <3>4 DEF CountsAreTrue
  <2>6. WaitIsForSomeone'
    BY <2>1 DEF Turns, WaitIsForSomeone
  <2>7. ASSUME NEW u \in Threads, pc'[u] = "waiting", Drained(want[u])'
        PROVE  FALSE
    <3>1. pc[u] = "waiting" /\ ~Drained(want[u])
      BY <2>1, <2>7 DEF Turns, NobodyForgotten
    <3>2. inFlight'[e] # 0
      BY <2>2, <2>4
    <3> QED
      BY <2>1, <2>2, <2>7, <3>1, <3>2, CardAssumption DEF Drained, Turns
  <2> QED
    BY <2>1, <2>3, <2>5, <2>6, <2>7 DEF Turns, NobodyForgotten
<1> QED
  BY <1>1, <1>2

LEMMA EndsTurns ==
  ASSUME TypeOK, Custody, Turns, NEW t \in Threads, Ends(t)
  PROVE  Turns'
<1>0. PICK e \in Engines : want[t] = e
  BY DEF Ends, Custody
<1>1. /\ gate = None /\ gate' = None
      /\ pc[t] = "calling" /\ pc'[t] = "idle"
      /\ UNCHANGED waitingFor
  BY DEF Ends, Custody, TypeOK, Woken, locks
<1>2. \A u \in Threads \ {t} :
        /\ want'[u] = want[u]
        /\ pc'[u] = IF pc[u] = "waiting" THEN "wanting" ELSE pc[u]
  BY DEF Ends, TypeOK, Woken
<1>3. /\ inFlight'[e] = inFlight[e] - 1
      /\ \A f \in Engines \ {e} : inFlight'[f] = inFlight[f]
  BY <1>0 DEF Ends, TypeOK
<1>4. inFlight[e] # 0
  <2>1. t \in Calling(e)
    BY <1>0, <1>1 DEF Calling
  <2>2. Cardinality(Calling(e)) # 0
    BY <1>1, <2>1, CallingFinite, FS_EmptySet
  <2> QED
    BY <1>1, <2>2 DEF Turns, CountsAreTrue
<1>5. \A f \in Engines \ {e} : inFlight'[f] = 0
  BY <1>1, <1>3, <1>4 DEF Turns
<1>6. CountsAreTrue'
  <2>1. \A f \in Engines \ {e} : Calling(f)' = Calling(f)
    BY <1>0, <1>1, <1>2 DEF Calling
  <2>2. Calling(e)' = Calling(e) \ {t} /\ t \in Calling(e)
    BY <1>0, <1>1, <1>2 DEF Calling
  <2>3. Cardinality(Calling(e)') = Cardinality(Calling(e)) - 1
    BY <1>1, <2>2, CallingFinite, FS_RemoveElement
  <2>4. ASSUME NEW f \in Engines
        PROVE  inFlight'[f] = Cardinality(Calling(f)')
    <3>1. CASE f = e
      BY <1>1, <1>3, <2>3, <3>1 DEF Turns, CountsAreTrue
    <3>2. CASE f # e
      BY <1>3, <2>1, <3>2 DEF Turns, CountsAreTrue
    <3> QED
      BY <3>1, <3>2
  <2> QED
    BY <2>4 DEF CountsAreTrue
<1>7. WaitIsForSomeone'
  <2>1. ASSUME waitingFor # None
        PROVE  \E u \in Threads : pc'[u] = "wanting" /\ want'[u] = waitingFor
    <3>1. PICK u \in Threads : pc[u] \in {"wanting", "waiting"} /\ want[u] = waitingFor
      BY <2>1 DEF Turns, WaitIsForSomeone
    <3> QED
      BY <1>1, <1>2, <3>1
  <2> QED
    BY <1>1, <2>1 DEF WaitIsForSomeone
<1>8. NobodyForgotten'
  BY <1>1, <1>2 DEF NobodyForgotten
<1> QED
  BY <1>1, <1>5, <1>6, <1>7, <1>8 DEF Turns

LEMMA TakeTurns ==
  ASSUME TypeOK, Custody, Turns, NEW t \in Threads, TakeStep(t)
  PROVE  Turns'
<1> USE DEF Handing, Inside
<1>1. CASE Asks(t)
  BY <1>1, TakenTurns, MovesTurns DEF Asks, calls
<1>2. CASE Faces(t)
  BY <1>2, FailsTurns, MovesTurns DEF Faces, calls
<1>3. CASE Releases(t)
  <2>1. CASE UNCHANGED <<thread, gate, calls>>
    BY <2>1, SameTurns
  <2>2. CASE Goes(t, "taking") /\ UNCHANGED <<want, locks, inFlight>>
    BY <1>3, <2>2, MovesTurns DEF Releases, locks, calls
  <2>3. CASE Fails(t)
    BY <1>3, <2>3, FailsTurns DEF Releases
  <2> QED
    BY <1>3, <2>1, <2>2, <2>3 DEF Releases, thread, calls
<1>4. CASE Takes(t)
  BY <1>4, FailsTurns, MovesTurns DEF Takes, locks, calls
<1>5. CASE Checks(t)
  BY <1>5, TakenTurns, FailsTurns DEF Checks
<1>6. CASE Restarts(t)
  BY <1>6, FailsTurns, MovesTurns DEF Restarts, locks, calls
<1> QED
  BY <1>1, <1>2, <1>3, <1>4, <1>5, <1>6 DEF TakeStep

-----------------------------------------------------------------------------
(* The invariant and what follows from it. *)

LEMMA InitIInv == Init => IInv
  BY InitTypeOK, InitCustody, InitTurns DEF IInv

LEMMA NextIInv ==
  ASSUME IInv, [Next]_vars
  PROVE  IInv'
<1>0. TypeOK /\ Custody /\ Turns
  BY DEF IInv
<1>1. ASSUME NEW l \in Lanes, JobStarts(l) \/ JobEnds(l)
      PROVE  IInv'
  BY <1>0, <1>1, LanesTypeOK, SameCustody, SameTurns DEF JobStarts, JobEnds, IInv, locks
<1>2. ASSUME NEW t \in Threads, NEW e \in Engines,
             WantsCall(t, e) \/ JobTakes(t, e) \/ JobRestarts(t, e)
      PROVE  IInv'
  BY <1>0, <1>2, SetsTypeOK, SetsCustody, SetsTurns DEF IInv
<1>3. ASSUME NEW t \in Threads, GateStep(t)
      PROVE  IInv'
  BY <1>0, <1>3, GateTypeOK, QueuesCustody, EntersCustody, QueuesTurns, EntersTurns
  DEF GateStep, IInv
<1>4. ASSUME NEW t \in Threads, TakeStep(t)
      PROVE  IInv'
  BY <1>0, <1>4, TakeTypeOK, TakeCustody, TakeTurns DEF IInv
<1>5. ASSUME NEW t \in Threads, Breaks(t)
      PROVE  IInv'
  <2>1. pc[t] \in Inside \cup {"restarting"} /\ pc[t] # "idle"
    BY <1>5 DEF Breaks, Inside, Handing
  <2> QED
    BY <1>0, <1>5, <2>1, CallTypeOK, FailsCustody, FailsTurns DEF Breaks, IInv
<1>6. ASSUME NEW t \in Threads, Loads(t)
      PROVE  IInv'
  BY <1>0, <1>6, CallTypeOK, SameCustody, SameTurns DEF Loads, IInv, locks
<1>7. ASSUME NEW t \in Threads, Ends(t)
      PROVE  IInv'
  BY <1>0, <1>7, CallTypeOK, EndsCustody, EndsTurns DEF IInv
<1>8. ASSUME NEW d \in Doors, (\E e \in Engines : DoorLooks(d, e)) \/ DoorCalls(d)
      PROVE  IInv'
  <2>1. UNCHANGED <<thread, locks, calls>>
    BY <1>8 DEF DoorLooks, DoorCalls
  <2>2. TypeOK'
    BY <1>0, <1>8, DoorsTypeOK
  <2> QED
    BY <1>0, <2>1, <2>2, SameCustody, SameTurns DEF IInv, locks
<1>9. CASE BootLooks
  <2>1. TypeOK'
    BY <1>0, <1>9, BootLooksTypeOK
  <2> QED
    BY <1>0, <1>9, <2>1, SameCustody, SameTurns DEF BootLooks, IInv, locks
<1>10. ASSUME NEW e \in Engines, BootSleeps(e) \/ ServerFails(e) \/ ServerAnswers(e)
       PROVE  IInv'
  BY <1>0, <1>10, ServersTypeOK, SameCustody, SameTurns
  DEF BootSleeps, ServerFails, ServerAnswers, IInv, locks
<1>11. CASE UNCHANGED vars
  <2>1. TypeOK'
    BY <1>0, <1>11
    DEF TypeOK, vars, servers, thread, locks, calls, doors, boot_
  <2> QED
    BY <1>0, <1>11, <2>1, SameCustody, SameTurns DEF vars, IInv, locks
<1>12. CASE Dies
  BY <1>0, <1>12, DiesTypeOK, DiesCustody, DiesTurns DEF IInv
<1> QED
  BY <1>1, <1>2, <1>3, <1>4, <1>5, <1>6, <1>7, <1>8, <1>9, <1>10, <1>11, <1>12 DEF Next

(* IInv is inductive: the shape of every state, who has which lock of      *)
(* job_handlers/card.py, and what the gate lets in.                        *)
THEOREM Inductive == Spec => []IInv
<1>1. Init => IInv
  BY InitIInv
<1>2. IInv /\ [Next]_vars => IInv'
  BY NextIInv
<1> QED
  BY <1>1, <1>2, PTL DEF Spec

(* The type invariant of the card. *)
THEOREM TypeCorrect == Spec => []TypeOK
<1>1. IInv => TypeOK
  BY DEF IInv
<1> QED
  BY <1>1, Inductive, PTL

(* take_for_call and _call_ended keep their count exact, however a request *)
(* or a handover ends.                                                     *)
THEOREM CountsHold == Spec => []CountsAreTrue
<1>1. IInv => CountsAreTrue
  BY DEF IInv, Turns
<1> QED
  BY <1>1, Inductive, PTL

LEMMA CallersShare ==
  ASSUME IInv
  PROVE  OneEngineAtATime
<1>1. ASSUME NEW t \in Threads, pc[t] = "calling"
      PROVE  want[t] \in Engines /\ inFlight[want[t]] # 0
  <2>1. want[t] \in Engines
    BY <1>1 DEF IInv, Custody
  <2>2. t \in Calling(want[t])
    BY <1>1 DEF Calling
  <2>3. Cardinality(Calling(want[t])) # 0
    BY <2>1, <2>2, CallingFinite, FS_EmptySet
  <2> QED
    BY <2>1, <2>3 DEF IInv, Turns, CountsAreTrue
<1> QED
  BY <1>1 DEF OneEngineAtATime, IInv, Turns

(* The gate: requests of the worker's threads that are out share an engine. *)
THEOREM GateIsExclusive == Spec => []OneEngineAtATime
  BY CallersShare, Inductive, PTL

(* The wait of take_for_call: _waiting_for is somebody's, and whoever      *)
(* sleeps in it could not go.                                              *)
THEOREM WaitIsHonest == Spec => [](WaitIsForSomeone /\ NobodyForgotten)
<1>1. IInv => WaitIsForSomeone /\ NobodyForgotten
  BY DEF IInv, Turns
<1> QED
  BY <1>1, Inductive, PTL

(* Whoever is on its way to the card finds requests out only to its own    *)
(* engine, and a job finds none.                                           *)
LEMMA HandoverSparesCalls ==
  ASSUME IInv, NEW t \in Threads, NEW e \in Engines,
         \A u \in Threads : LaneOf[u] = CardLane,
         pc[t] \in Handing \cup {"restarting"},
         errand[t] = "call" => e # want[t]
  PROVE  inFlight[e] = 0
<1>1. CASE errand[t] = "call"
  BY <1>1, CardAssumption DEF IInv, Custody, Turns, Handing, Inside
<1>2. CASE errand[t] # "call"
  <2>1. errand[t] = "job"
    BY <1>2 DEF IInv, TypeOK, Custody, Handing
  <2>2. \A u \in Threads : pc[u] # "calling"
    BY <2>1 DEF IInv, Custody, Handing
  <2>3. Calling(e) = {}
    BY <2>2 DEF Calling
  <2> QED
    BY <2>3, FS_EmptySet DEF IInv, Turns, CountsAreTrue
<1> QED
  BY <1>1, <1>2

LEMMA BootStaysQuiet ==
  ASSUME IInv, BootIsQuiet, [Next]_vars
  PROVE  BootIsQuiet'
<1>1. CASE BootLooks
  BY <1>1, CardAssumption DEF BootLooks, BootIsQuiet
<1>2. ASSUME NEW e \in Engines, BootSleeps(e)
      PROVE  BootIsQuiet'
  BY <1>2 DEF BootSleeps, BootIsQuiet
<1>3. CASE UNCHANGED <<drowsy, boots>>
  BY <1>3 DEF BootIsQuiet
<1> QED
  BY <1>1, <1>2, <1>3
  DEF Next, vars, boot_, JobStarts, JobEnds, WantsCall, JobTakes, JobRestarts, Sets,
      GateStep, Queues, Enters, TakeStep, Asks, Faces, Releases, Takes, Checks, Restarts,
      Breaks, Loads, Ends, DoorLooks, DoorCalls, ServerFails, ServerAnswers,
      Dies

(* When every thread that calls works in the card's lane and the bootstrap *)
(* does not run again, no request is cut by a handover: the two conditions *)
(* without which NeverSleptMidRequest does not hold (README, the card).    *)
THEOREM NeverSlept ==
  ASSUME \A t \in Threads : LaneOf[t] = CardLane,
         MaxBoots = 0
  PROVE  Spec => NeverSleptMidRequest
<1> DEFINE Spared ==
      \A e \in Engines :
        inFlight[e] > 0 /\ server[e] = "holds" /\ server'[e] # "holds"
          => faults' # faults
<1>1. Init => BootIsQuiet
  BY CardAssumption DEF Init, BootIsQuiet
<1>2. ASSUME IInv, BootIsQuiet, [Next]_vars
      PROVE  [Spared]_vars
  <2> SUFFICES ASSUME NEW e \in Engines,
                      inFlight[e] > 0, server[e] = "holds", server'[e] # "holds",
                      faults' = faults
               PROVE  FALSE
    OBVIOUS
  <2>1. ASSUME NEW t \in Threads, Releases(t)
        PROVE  FALSE
    <3>1. PICK f \in letting : LetsGo(f)
      BY <2>1 DEF Releases
    <3>2. e = f
      BY <1>2, <3>1 DEF LetsGo, IInv, TypeOK
    <3>3. e # want[t] /\ pc[t] = "releasing"
      BY <1>2, <2>1, <3>2 DEF Releases, IInv, Custody
    <3> QED
      BY <1>2, <3>3, HandoverSparesCalls DEF Handing
  <2>2. ASSUME NEW t \in Threads, Restarts(t)
        PROVE  FALSE
    <3>1. pc[t] = "restarting" /\ errand[t] = "job"
      BY <1>2, <2>2 DEF Restarts, IInv, Custody
    <3> QED
      BY <1>2, <3>1, HandoverSparesCalls
  <2>3. ASSUME NEW f \in Engines, BootSleeps(f)
        PROVE  FALSE
    BY <1>2, <2>3 DEF BootSleeps, BootIsQuiet
  <2>4. ASSUME NEW f \in Engines, ServerFails(f)
        PROVE  FALSE
    BY <1>2, <2>4 DEF ServerFails, IInv, TypeOK
  <2>5. ASSUME NEW t \in Threads, Takes(t) \/ Loads(t)
        PROVE  FALSE
    BY <1>2, <2>5 DEF Takes, Loads, IInv, TypeOK
  <2>6. ASSUME NEW d \in Doors, DoorCalls(d)
        PROVE  FALSE
    BY <1>2, <2>6 DEF DoorCalls, IInv, TypeOK
  <2>7. CASE UNCHANGED server
    BY <2>7
  <2> QED
    BY <1>2, <2>1, <2>2, <2>3, <2>4, <2>5, <2>6, <2>7
    DEF Next, vars, servers, JobStarts, JobEnds, WantsCall, JobTakes, JobRestarts, Sets,
        GateStep, Queues, Enters, TakeStep, Asks, Faces, Checks, Breaks, Ends, DoorLooks,
        BootLooks, ServerAnswers, Dies
<1>3. IInv /\ BootIsQuiet /\ [Next]_vars => BootIsQuiet'
  BY BootStaysQuiet
<1>4. Spec => []BootIsQuiet
  BY <1>1, <1>3, Inductive, PTL DEF Spec
<1>5. IInv /\ BootIsQuiet /\ [Next]_vars => [Spared]_vars
  BY <1>2
<1>6. Spec => [][Spared]_vars
  BY <1>4, <1>5, Inductive, PTL DEF Spec
<1> QED
  BY <1>6 DEF NeverSleptMidRequest

-----------------------------------------------------------------------------
(* A request that is out has the card to itself. *)

(* A request that is out while a handover goes on asks the engine handed. *)
LEMMA CallsOfTheHanded ==
  ASSUME IInv, NEW t \in Threads, NEW u \in Threads,
         \A v \in Threads : LaneOf[v] = CardLane,
         pc[t] \in Handing \cup {"restarting"}, pc[u] = "calling"
  PROVE  errand[t] = "call" /\ want[u] = want[t]
<1>1. want[u] \in Engines /\ u \in Calling(want[u])
  BY DEF IInv, Custody, Calling
<1>2. Cardinality(Calling(want[u])) # 0
  BY <1>1, CallingFinite, FS_EmptySet
<1>3. inFlight[want[u]] # 0
  BY <1>1, <1>2 DEF IInv, Turns, CountsAreTrue
<1> QED
  BY <1>1, <1>3, HandoverSparesCalls

(* One thread hands the card over. *)
LEMMA OneHands ==
  ASSUME IInv, NEW t \in Threads, pc[t] \in Handing \/ taker = None,
         NEW u \in Threads \ {t}
  PROVE  pc[u] \notin Handing
  BY CardAssumption DEF IInv, Custody

LEMMA ClearedKept ==
  ASSUME IInv, Cleared, faults' = faults, silent' \subseteq silent,
         \A e \in Engines : /\ server'[e] = "down" => server[e] = "down"
                            /\ server[e] = "holds" => server'[e] = "holds",
         Placed' \subseteq Placed,
         \A u \in Threads : pc'[u] \in {"releasing", "taking", "checking", "calling"} =>
                              pc'[u] = pc[u] /\ want'[u] = want[u],
         letting' = letting \/ \A u \in Threads : pc'[u] # "releasing"
  PROVE  Cleared'
<1>1. ASSUME NEW u \in Threads, ClearFor(u)
      PROVE  ClearFor(u)'
  <2>1. pc[u] # "idle" => want[u] \in Engines
    BY DEF IInv, Custody
  <2> QED
    BY <1>1, <2>1 DEF ClearFor
<1> QED
  BY <1>1 DEF Cleared

LEMMA FailsCleared ==
  ASSUME IInv, Cleared, NEW t \in Threads, Fails(t),
         pc[t] \in Handing \/ taker = None,
         UNCHANGED <<servers, byDoor, faults>>
  PROVE  Cleared'
<1>1. \A u \in Threads : IF u = t THEN pc'[u] = "idle"
                          ELSE /\ pc'[u] = pc[u] /\ want'[u] = want[u]
                               /\ pc[u] # "releasing"
  BY OneHands DEF Fails, Goes, IInv, TypeOK, Handing
<1> QED
  BY <1>1, ClearedKept DEF Placed, servers

(* The card is there. *)
LEMMA TakenCleared ==
  ASSUME IInv, Cleared, NEW t \in Threads, Taken(t),
         pc[t] \in Handing \/ taker = None,
         pc[t] \in {"asking", "checking"},
         OnCard \subseteq {want[t]},
         pc[t] = "checking" \/ HoldsFor(want[t]),
         UNCHANGED <<servers, byDoor, faults>>
  PROVE  Cleared'
<1>1. \A u \in Threads \ {t} : /\ pc'[u] = pc[u] /\ want'[u] = want[u]
                               /\ pc[u] # "releasing"
  BY OneHands DEF Taken, Goes, IInv, TypeOK, Handing
<1>2. pc'[t] = "idle" \/ (pc'[t] = "calling" /\ want'[t] = want[t])
  BY DEF Taken, Goes, IInv, TypeOK
<1>3. Placed' = Placed /\ Placed \subseteq {want[t]}
  BY DEF Placed, OnCard, servers
<1>4. ASSUME faults = 0, want[t] \notin Eager
      PROVE  server[want[t]] = "holds"
  BY <1>4 DEF Cleared, ClearFor, HoldsFor, OnCard
<1>5. ASSUME faults = 0, NEW u \in Threads
      PROVE  ClearFor(u)'
  BY <1>1, <1>2, <1>3, <1>4, <1>5 DEF Cleared, ClearFor, servers
<1> QED
  BY <1>5 DEF Cleared, servers

LEMMA ReleasesCleared ==
  ASSUME IInv, Cleared, NEW t \in Threads, Releases(t),
         \A v \in Threads : LaneOf[v] = CardLane
  PROVE  Cleared'
<1>1. pc[t] = "releasing" /\ want[t] \in Engines /\ want[t] \notin letting
  BY DEF Releases, IInv, Custody
<1>2. ASSUME NEW e \in letting, LetsGo(e), letting' = letting \ {e}, UNCHANGED thread
      PROVE  Cleared'
  <2>1. e \in Engines /\ e # want[t]
    BY <1>1, <1>2 DEF IInv, TypeOK
  <2>2. /\ Placed' \subseteq Placed \ {e}
        /\ \A f \in Engines : server'[f] = "down" => server[f] = "down"
        /\ \A f \in Engines \ {e} : server'[f] = server[f]
    BY <1>2, <2>1 DEF LetsGo, Placed, IInv, TypeOK
  <2>3. ASSUME faults = 0, NEW u \in Threads
        PROVE  ClearFor(u)'
    <3>1. ClearFor(u) /\ pc'[u] = pc[u] /\ want'[u] = want[u]
      BY <1>2, <2>3 DEF Cleared, thread
    <3>2. CASE u = t
      BY <1>1, <1>2, <2>2, <3>1, <3>2 DEF ClearFor
    <3>3. CASE pc[u] = "calling"
      <4>1. want[u] = want[t]
        BY <1>1, <3>3, CallsOfTheHanded DEF Handing
      <4> QED
        BY <1>1, <2>1, <2>2, <3>1, <3>3, <4>1 DEF ClearFor
    <3>4. CASE u # t /\ pc[u] # "calling"
      <4>1. pc[u] \notin Handing
        BY <1>1, <3>4, OneHands DEF Handing
      <4> QED
        BY <3>1, <3>4, <4>1 DEF ClearFor, Handing
    <3> QED
      BY <3>2, <3>3, <3>4
  <2> QED
    BY <2>2, <2>3 DEF Cleared, Releases
<1>3. ASSUME letting = {}, Goes(t, "taking"), UNCHANGED <<server, byDoor, want, letting>>
      PROVE  Cleared'
  <2>1. /\ pc'[t] = "taking"
        /\ \A u \in Threads \ {t} : pc'[u] = pc[u]
    BY <1>3 DEF Goes, IInv, TypeOK
  <2>2. ASSUME faults = 0, NEW u \in Threads
        PROVE  ClearFor(u)'
    BY <1>1, <1>3, <2>1, <2>2 DEF Cleared, ClearFor, Placed
  <2> QED
    BY <1>3, <2>2 DEF Cleared, Releases
<1>4. ASSUME Fails(t), UNCHANGED <<server, byDoor>>
      PROVE  Cleared'
  BY <1>1, <1>4, FailsCleared DEF Releases, servers, Handing
<1> QED
  BY <1>2, <1>3, <1>4 DEF Releases, locks

LEMMA AsksCleared ==
  ASSUME IInv, Cleared, NEW t \in Threads, Asks(t)
  PROVE  Cleared'
<1>1. CASE HoldsFor(want[t]) /\ Taken(t)
  BY <1>1, TakenCleared DEF Asks, HoldsFor
<1>2. CASE ~(HoldsFor(want[t]) /\ Taken(t))
  <2>1. \A u \in Threads : IF u = t THEN pc'[u] = "facing" ELSE pc'[u] = pc[u]
    BY <1>2 DEF Asks, Goes, IInv, TypeOK
  <2> QED
    BY <1>2, <2>1, ClearedKept DEF Asks, Placed, servers
<1> QED
  BY <1>1, <1>2

LEMMA FacesCleared ==
  ASSUME IInv, Cleared, NEW t \in Threads, Faces(t)
  PROVE  Cleared'
<1>0. pc[t] \in Handing
  BY DEF Faces, Handing
<1>1. CASE Fails(t)
  BY <1>0, <1>1, FailsCleared DEF Faces
<1>2. CASE ~Fails(t)
  <2>1. /\ pc'[t] = "releasing" /\ want' = want
        /\ letting' = OnCard \ {want[t]}
        /\ \A u \in Threads \ {t} : pc'[u] = pc[u] /\ pc[u] # "releasing"
    BY <1>0, <1>2, OneHands DEF Faces, Goes, IInv, TypeOK, Handing
  <2>2. Placed' = Placed /\ Placed \subseteq OnCard /\ server' = server
    BY DEF Faces, Placed, OnCard, servers
  <2>3. ASSUME faults = 0, NEW u \in Threads
        PROVE  ClearFor(u)'
    BY <2>1, <2>2, <2>3 DEF Cleared, ClearFor
  <2> QED
    BY <2>2, <2>3 DEF Cleared, Faces, servers
<1> QED
  BY <1>1, <1>2

LEMMA ChecksCleared ==
  ASSUME IInv, Cleared, NEW t \in Threads, Checks(t)
  PROVE  Cleared'
<1>1. CASE OnCard \subseteq {want[t]}
  BY <1>1, TakenCleared DEF Checks, Handing
<1>2. CASE ~(OnCard \subseteq {want[t]})
  BY <1>2, FailsCleared DEF Checks, Handing
<1> QED
  BY <1>1, <1>2

(* An engine comes onto the card that everybody on it or about to be on it asks for. *)
LEMMA LoadedCleared ==
  ASSUME IInv, Cleared, NEW e \in Engines, NEW t \in Threads,
         server' = [server EXCEPT ![e] = "holds"],
         UNCHANGED <<silent, byDoor, want, letting, faults>>,
         \A u \in Threads \ {t} : pc'[u] = pc[u],
         want[t] = e, pc'[t] = pc[t] \/ (pc[t] = "taking" /\ pc'[t] = "checking"),
         \A u \in Threads \ {t} :
           pc[u] \in {"releasing", "taking", "checking", "calling"} => want[u] = e
  PROVE  Cleared'
<1>1. /\ Placed' \subseteq Placed \cup {e}
      /\ server'[e] = "holds"
      /\ \A f \in Engines \ {e} : server'[f] = server[f]
  BY DEF Placed, IInv, TypeOK
<1>2. ASSUME faults = 0, NEW u \in Threads
      PROVE  ClearFor(u)'
  <2>1. pc[u] # "idle" => want[u] \in Engines
    BY DEF IInv, Custody
  <2>2. CASE u = t
    BY <1>1, <1>2, <2>1, <2>2 DEF Cleared, ClearFor
  <2>3. CASE u # t
    BY <1>1, <1>2, <2>1, <2>3 DEF Cleared, ClearFor
  <2> QED
    BY <2>2, <2>3
<1> QED
  BY <1>1, <1>2 DEF Cleared

LEMMA TakesCleared ==
  ASSUME IInv, Cleared, NEW t \in Threads, Takes(t),
         \A v \in Threads : LaneOf[v] = CardLane
  PROVE  Cleared'
<1>0. pc[t] = "taking" /\ pc[t] \in Handing /\ want[t] \in Engines
  BY DEF Takes, Handing, IInv, Custody
<1>1. CASE Fails(t) /\ UNCHANGED server
  BY <1>0, <1>1, FailsCleared DEF Takes, servers
<1>2. CASE ~(Fails(t) /\ UNCHANGED server)
  <2>0. pc'[t] = "checking" /\ \A u \in Threads \ {t} : pc'[u] = pc[u]
    BY <1>0, <1>2 DEF Takes, Goes, IInv, TypeOK
  <2>1. CASE server' = [server EXCEPT ![want[t]] = "holds"]
    <3>1. \A u \in Threads \ {t} :
            pc[u] \in {"releasing", "taking", "checking", "calling"} => want[u] = want[t]
      BY <1>0, OneHands, CallsOfTheHanded DEF Handing
    <3> QED
      BY <1>0, <1>2, <2>0, <2>1, <3>1, LoadedCleared DEF Takes, locks
  <2>2. CASE server' = server /\ want[t] \in Eager
    <3>1. ASSUME faults = 0, NEW u \in Threads
          PROVE  ClearFor(u)'
      BY <1>0, <1>2, <2>0, <2>2, <3>1 DEF Takes, Cleared, ClearFor, Placed, locks
    <3> QED
      BY <2>2, <3>1 DEF Takes, Cleared
  <2> QED
    BY <1>2, <2>1, <2>2 DEF Takes
<1> QED
  BY <1>1, <1>2

LEMMA RestartsCleared ==
  ASSUME IInv, Cleared, NEW t \in Threads, Restarts(t),
         \A v \in Threads : LaneOf[v] = CardLane
  PROVE  Cleared'
<1>1. pc[t] = "restarting" /\ taker = None /\ want[t] \in Engines
      /\ errand[t] = "job"
  BY DEF Restarts, IInv, Custody
<1>2. CASE Fails(t) /\ UNCHANGED <<server, byDoor>>
  BY <1>1, <1>2, FailsCleared DEF Restarts, servers
<1>3. CASE ~(Fails(t) /\ UNCHANGED <<server, byDoor>>)
  <2>1. \A u \in Threads : /\ pc[u] \notin {"releasing", "taking", "checking", "calling"}
                           /\ pc'[u] = IF u = t THEN "asking" ELSE pc[u]
    BY <1>1, <1>3, OneHands, CallsOfTheHanded
    DEF Restarts, Goes, IInv, TypeOK, Handing
  <2>2. \A f \in Engines : server'[f] = "down" => server[f] = "down"
    BY <1>1, <1>3 DEF Restarts, LetsGo, IInv, TypeOK
  <2> QED
    BY <2>1, <2>2 DEF Cleared, ClearFor, Restarts
<1> QED
  BY <1>2, <1>3

LEMMA LoadsCleared ==
  ASSUME IInv, Cleared, NEW t \in Threads, Loads(t),
         \A v \in Threads : LaneOf[v] = CardLane
  PROVE  Cleared'
<1>1. pc[t] = "calling" /\ want[t] \in Engines
  BY DEF Loads, IInv, Custody
<1>2. \A u \in Threads \ {t} :
        pc[u] \in {"releasing", "taking", "checking", "calling"} => want[u] = want[t]
  BY <1>1, CallersShare, CallsOfTheHanded DEF OneEngineAtATime, Handing
<1> QED
  BY <1>1, <1>2, LoadedCleared DEF Loads, thread, locks

LEMMA DoorsCleared ==
  ASSUME IInv, Cleared, NEW d \in Doors, DoorCalls(d)
  PROVE  Cleared'
<1>1. /\ Placed' \subseteq Placed
      /\ \A e \in Engines : /\ server'[e] = "down" => server[e] = "down"
                            /\ server[e] = "holds" => server'[e] = "holds"
  BY DEF DoorCalls, Placed, IInv, TypeOK
<1> QED
  BY <1>1, ClearedKept DEF DoorCalls, thread, locks

LEMMA GateCleared ==
  ASSUME IInv, Cleared, NEW t \in Threads, GateStep(t) \/ Ends(t)
  PROVE  Cleared'
<1>1. /\ UNCHANGED <<servers, byDoor, faults, letting>>
      /\ \A u \in Threads \ {t} : want'[u] = want[u]
  BY DEF GateStep, Queues, Enters, Ends, locks, IInv, TypeOK
<1>2. \A u \in Threads : pc'[u] \in {"releasing", "taking", "checking", "calling"} =>
                           u # t /\ pc'[u] = pc[u]
  BY DEF GateStep, Queues, Enters, Ends, Goes, Woken, IInv, TypeOK
<1> QED
  BY <1>1, <1>2, ClearedKept DEF Placed, servers

LEMMA SetsCleared ==
  ASSUME IInv, Cleared, NEW t \in Threads, NEW e \in Engines,
         WantsCall(t, e) \/ JobTakes(t, e) \/ JobRestarts(t, e)
  PROVE  Cleared'
<1>1. PICK place \in {"wanting", "asking", "restarting"}, what \in {"call", "job"} :
        Sets(t, place, e, what)
  BY DEF WantsCall, JobTakes, JobRestarts
<1>2. \A u \in Threads : IF u = t THEN pc'[u] = place
                          ELSE pc'[u] = pc[u] /\ want'[u] = want[u]
  BY <1>1 DEF Sets, Goes, IInv, TypeOK
<1> QED
  BY <1>1, <1>2, ClearedKept DEF Sets, Placed, servers, locks

LEMMA NextCleared ==
  ASSUME IInv, Cleared, BootIsQuiet, MaxBoots = 0, [Next]_vars,
         \A t \in Threads : LaneOf[t] = CardLane
  PROVE  Cleared'
<1>1. ASSUME NEW t \in Threads, TakeStep(t)
      PROVE  Cleared'
  BY <1>1, AsksCleared, FacesCleared, ReleasesCleared, TakesCleared, ChecksCleared,
     RestartsCleared DEF TakeStep
<1>2. ASSUME NEW t \in Threads, Breaks(t)
      PROVE  Cleared'
  BY <1>2 DEF Breaks, Cleared, IInv, TypeOK
<1>3. ASSUME NEW e \in Engines, ServerFails(e)
      PROVE  Cleared'
  BY <1>3 DEF ServerFails, Cleared, IInv, TypeOK
<1>4. ASSUME NEW e \in Engines, BootSleeps(e)
      PROVE  Cleared'
  BY <1>4 DEF BootSleeps, BootIsQuiet
<1>5. ASSUME NEW e \in Engines, ServerAnswers(e)
      PROVE  Cleared'
  BY <1>5, ClearedKept DEF ServerAnswers, Placed, thread, locks
<1>6. CASE UNCHANGED <<servers, byDoor, thread, locks, faults>>
  BY <1>6, ClearedKept DEF Placed, servers, thread, locks
<1>7. CASE Dies
  BY <1>7, ClearedKept DEF Dies, Placed, servers
<1>8. ASSUME NEW l \in Lanes, JobStarts(l) \/ JobEnds(l)
      PROVE  Cleared'
  BY <1>6, <1>8 DEF JobStarts, JobEnds
<1>9. ASSUME NEW d \in Doors, (\E e \in Engines : DoorLooks(d, e)) \/ DoorCalls(d)
      PROVE  Cleared'
  BY <1>6, <1>9, DoorsCleared DEF DoorLooks
<1>10. CASE BootLooks
  BY <1>6, <1>10 DEF BootLooks
<1>11. CASE UNCHANGED vars
  BY <1>6, <1>11 DEF vars
<1> QED
  BY <1>1, <1>2, <1>3, <1>4, <1>5, <1>7, <1>8, <1>9, <1>10, <1>11,
     GateCleared, SetsCleared, LoadsCleared DEF Next

(* With every thread in the card's lane and no second bootstrap, a request *)
(* that is out shares the card with nothing but what a door has loaded,    *)
(* and a vLLM or converter it asks is awake, unless a server has failed.   *)
THEOREM CallsAreAlone ==
  ASSUME \A t \in Threads : LaneOf[t] = CardLane,
         MaxBoots = 0
  PROVE  Spec => []AloneOnTheCard
<1>1. Init => BootIsQuiet /\ Cleared
  BY CardAssumption DEF Init, BootIsQuiet, Cleared, ClearFor
<1>2. IInv /\ BootIsQuiet /\ Cleared /\ [Next]_vars => (BootIsQuiet /\ Cleared)'
  BY BootStaysQuiet, NextCleared
<1>3. Cleared => AloneOnTheCard
  BY DEF Cleared, ClearFor, AloneOnTheCard, Placed
<1> QED
  BY <1>1, <1>2, <1>3, Inductive, PTL DEF Spec

-----------------------------------------------------------------------------
(* The gate of the code keeps the promise of CardGate. *)

LEMMA SameOut ==
  ASSUME \A u \in Threads : /\ (pc'[u] = "calling") = (pc[u] = "calling")
                            /\ pc[u] = "calling" => want'[u] = want[u]
  PROVE  Out' = Out
  BY DEF Out

(* A thread that moves between places, none of them `calling`. *)
LEMMA MovesOut ==
  ASSUME NEW t \in Threads,
         pc[t] # "calling", pc'[t] # "calling",
         \A u \in Threads \ {t} : pc'[u] = pc[u] /\ want'[u] = want[u]
  PROVE  Out' = Out
  BY SameOut

(* What is drained for an engine has no request out elsewhere. *)
LEMMA DrainedOnly ==
  ASSUME IInv, NEW e \in Engines, \A f \in Engines \ {e} : inFlight[f] = 0
  PROVE  Gate!OnlyOn(e)
<1>1. ASSUME NEW t \in Threads, pc[t] = "calling", want[t] # e
      PROVE  FALSE
  <2>1. want[t] \in Engines /\ t \in Calling(want[t])
    BY <1>1 DEF IInv, Custody, Calling
  <2>2. Cardinality(Calling(want[t])) # 0
    BY <2>1, CallingFinite, FS_EmptySet
  <2> QED
    BY <1>1, <2>1, <2>2 DEF IInv, Turns, CountsAreTrue
<1> QED
  BY <1>1 DEF Gate!OnlyOn, Out

LEMMA FailsKeepsGate ==
  ASSUME IInv, NEW t \in Threads, Fails(t), UNCHANGED waitingFor,
         pc[t] \in Inside \cup {"restarting"}
  PROVE  [Gate!Next]_<<Out, Served>>
<1>1. Out' = Out
  <2>1. /\ pc[t] # "calling" /\ pc'[t] # "calling"
        /\ \A u \in Threads \ {t} : pc'[u] = pc[u] /\ want'[u] = want[u]
    BY DEF Fails, Goes, IInv, TypeOK, Inside, Handing
  <2> QED
    BY <2>1, MovesOut
<1>2. CASE gate # t
  <2>1. Served' = Served
    BY <1>2, CardAssumption DEF Fails, Returns, Served, IInv, TypeOK
  <2> QED
    BY <1>1, <2>1
<1>3. CASE gate = t
  <2>1. gate' = None /\ waitingFor = None
    BY <1>3, CardAssumption DEF Fails, Returns, IInv, Turns
  <2>2. want[t] \in Engines /\ Served = want[t] /\ Served' = None
    BY <1>3, <2>1, CardAssumption DEF Served, IInv, Custody, Inside, Handing
  <2>3. Gate!OnlyOn(want[t])
    BY <1>3, <2>2, DrainedOnly, CardAssumption DEF IInv, Turns
  <2> QED
    BY <1>1, <2>2, <2>3, CardAssumption DEF Gate!Next, Gate!Refused
<1> QED
  BY <1>2, <1>3

LEMMA MovesKeepsGate ==
  ASSUME IInv, NEW t \in Threads, NEW place \in Inside, Goes(t, place),
         UNCHANGED <<want, gate, waitingFor>>,
         pc[t] \in Inside \cup {"restarting"}
  PROVE  UNCHANGED <<Out, Served>>
<1>1. /\ pc[t] # "calling" /\ pc'[t] # "calling"
      /\ \A u \in Threads \ {t} : pc'[u] = pc[u] /\ want'[u] = want[u]
  BY DEF Goes, IInv, TypeOK, Inside, Handing
<1> QED
  BY <1>1, MovesOut DEF Served

LEMMA TakenKeepsGate ==
  ASSUME IInv, NEW t \in Threads, Taken(t), UNCHANGED waitingFor,
         pc[t] \in {"asking", "checking"}
  PROVE  [Gate!Next]_<<Out, Served>>
<1>1. CASE errand[t] # "call"
  <2>1. /\ pc[t] # "calling" /\ pc'[t] # "calling"
        /\ \A u \in Threads \ {t} : pc'[u] = pc[u] /\ want'[u] = want[u]
        /\ gate # t /\ gate' = gate
    BY <1>1 DEF Taken, Returns, Goes, IInv, TypeOK, Custody
  <2>2. Out' = Out
    BY <2>1, MovesOut
  <2>3. Served' = Served
    BY <2>1 DEF Served, IInv, TypeOK
  <2> QED
    BY <2>2, <2>3
<1>2. CASE errand[t] = "call"
  <2>1. /\ gate = t /\ gate' = None /\ want[t] \in Engines
        /\ waitingFor = None
        /\ pc' = [pc EXCEPT ![t] = "calling"]
        /\ UNCHANGED want
    BY <1>2, CardAssumption
    DEF Taken, Returns, Goes, IInv, Custody, Turns, Inside, Handing
  <2>2. Served = want[t] /\ Served' = None
    BY <2>1, CardAssumption DEF Served
  <2>3. Out[t] = None /\ Out' = [Out EXCEPT ![t] = want[t]]
    BY <2>1 DEF Out, IInv, TypeOK
  <2>4. Gate!OnlyOn(want[t])
    BY <2>1, DrainedOnly, CardAssumption DEF IInv, Turns
  <2> QED
    BY <2>1, <2>2, <2>3, <2>4, CardAssumption DEF Gate!Next, Gate!Begins
<1> QED
  BY <1>1, <1>2

LEMMA GateStepKeepsGate ==
  ASSUME IInv, NEW t \in Threads, GateStep(t)
  PROVE  [Gate!Next]_<<Out, Served>>
<1>1. CASE Queues(t)
  <2>1. /\ pc[t] # "calling" /\ pc'[t] # "calling"
        /\ \A u \in Threads \ {t} : pc'[u] = pc[u] /\ want'[u] = want[u]
    BY <1>1 DEF Queues, Goes, IInv, TypeOK
  <2>2. Out' = Out
    BY <2>1, MovesOut
  <2>3. gate = None /\ gate' = None /\ want[t] \in Engines
    BY <1>1 DEF Queues, IInv, Custody, locks
  <2>4. Served = waitingFor /\ Served' = waitingFor'
    BY <2>3 DEF Served
  <2> QED
    BY <1>1, <2>2, <2>3, <2>4 DEF Queues, Gate!Next, Gate!Reserves
<1>2. CASE Enters(t)
  <2>1. /\ pc[t] = "wanting" /\ pc'[t] = "asking"
        /\ UNCHANGED want
        /\ gate = None /\ gate' = t /\ want[t] \in Engines
        /\ waitingFor \in {None, want[t]}
    BY <1>2 DEF Enters, Goes, IInv, TypeOK, Custody, Woken, Drained
  <2>2. Out' = Out
    <3>1. \A u \in Threads : (pc'[u] = "calling") = (pc[u] = "calling")
      BY <1>2 DEF Enters, Goes, IInv, TypeOK, Woken
    <3> QED
      BY <2>1, <3>1, SameOut
  <2>3. Served \in {None, want[t]} /\ Served' = want[t]
    BY <2>1, CardAssumption DEF Served
  <2> QED
    BY <2>1, <2>2, <2>3 DEF Gate!Next, Gate!Reserves
<1> QED
  BY <1>1, <1>2 DEF GateStep

LEMMA TakeStepKeepsGate ==
  ASSUME IInv, NEW t \in Threads, TakeStep(t)
  PROVE  [Gate!Next]_<<Out, Served>>
<1> USE DEF Handing, Inside
<1>1. CASE Asks(t)
  BY <1>1, TakenKeepsGate, MovesKeepsGate DEF Asks
<1>2. CASE Faces(t)
  BY <1>2, FailsKeepsGate, MovesKeepsGate DEF Faces
<1>3. CASE Releases(t)
  <2>1. CASE UNCHANGED <<thread, gate>>
    BY <1>3, <2>1, SameOut DEF Releases, Served, thread
  <2>2. CASE Goes(t, "taking") /\ UNCHANGED <<want, locks>>
    BY <1>3, <2>2, MovesKeepsGate DEF Releases, locks
  <2>3. CASE Fails(t)
    BY <1>3, <2>3, FailsKeepsGate DEF Releases
  <2> QED
    BY <1>3, <2>1, <2>2, <2>3 DEF Releases
<1>4. CASE Takes(t)
  BY <1>4, FailsKeepsGate, MovesKeepsGate DEF Takes, locks
<1>5. CASE Checks(t)
  BY <1>5, TakenKeepsGate, FailsKeepsGate DEF Checks
<1>6. CASE Restarts(t)
  BY <1>6, FailsKeepsGate, MovesKeepsGate DEF Restarts, locks
<1> QED
  BY <1>1, <1>2, <1>3, <1>4, <1>5, <1>6 DEF TakeStep

LEMMA EndsKeepsGate ==
  ASSUME IInv, NEW t \in Threads, Ends(t)
  PROVE  [Gate!Next]_<<Out, Served>>
<1>1. /\ gate = None /\ gate' = None /\ UNCHANGED waitingFor
      /\ pc[t] = "calling" /\ pc'[t] = "idle" /\ want[t] \in Engines
  BY DEF Ends, IInv, TypeOK, Custody, Woken, locks
<1>2. \A u \in Threads \ {t} : /\ want'[u] = want[u]
                                /\ (pc'[u] = "calling") = (pc[u] = "calling")
  BY DEF Ends, IInv, TypeOK, Woken
<1>3. Out[t] # None /\ Out' = [Out EXCEPT ![t] = None]
  BY <1>1, <1>2, CardAssumption DEF Out
<1>4. Served' = Served
  BY <1>1 DEF Served
<1> QED
  BY <1>3, <1>4 DEF Gate!Next, Gate!Ends

(* Requests that are out share an engine, and the next one to begin is on  *)
(* the engine the gate was drained for: the card's locks, counts and waits *)
(* implement CardGate.                                                     *)
THEOREM ImplementsGate == Spec => KeepsTheGate
<1>1. Init => Gate!Init
  BY DEF Init, Gate!Init, Out, Served
<1>2. ASSUME IInv, [Next]_vars
      PROVE  [Gate!Next]_<<Out, Served>>
  <2>1. ASSUME NEW t \in Threads, NEW e \in Engines,
               WantsCall(t, e) \/ JobTakes(t, e) \/ JobRestarts(t, e)
        PROVE  UNCHANGED <<Out, Served>>
    <3>1. PICK place \in {"wanting", "asking", "restarting"}, as \in {"call", "job"} :
            Sets(t, place, e, as)
      BY <2>1 DEF WantsCall, JobTakes, JobRestarts
    <3>2. /\ pc[t] # "calling" /\ pc'[t] # "calling"
          /\ \A u \in Threads \ {t} : pc'[u] = pc[u] /\ want'[u] = want[u]
          /\ gate # t /\ gate' = gate /\ waitingFor' = waitingFor
      BY <1>2, <3>1
      DEF Sets, Goes, IInv, TypeOK, Custody, Inside, Handing, locks, calls
    <3>3. Served' = Served
      BY <1>2, <3>2 DEF Served, IInv, TypeOK
    <3> QED
      BY <3>2, <3>3, MovesOut
  <2>2. ASSUME NEW t \in Threads, Breaks(t)
        PROVE  [Gate!Next]_<<Out, Served>>
    BY <1>2, <2>2, FailsKeepsGate DEF Breaks, Inside, Handing
  <2>3. CASE Dies
    BY <2>3 DEF Dies, Gate!Next, Gate!Forgets, Out, Served
  <2>4. CASE UNCHANGED <<thread, gate, calls>>
    <3>1. Served' = Served
      BY <2>4 DEF Served, thread, calls
    <3> QED
      BY <2>4, <3>1, SameOut DEF thread
  <2> QED
    BY <1>2, <2>1, <2>2, <2>3, <2>4, GateStepKeepsGate, TakeStepKeepsGate, EndsKeepsGate
    DEF Next, vars, JobStarts, JobEnds, Loads, DoorLooks, DoorCalls, BootLooks,
        BootSleeps, ServerFails, ServerAnswers, locks
<1>3. IInv /\ [Next]_vars => [Gate!Next]_<<Out, Served>>
  BY <1>2
<1>4. Spec => Gate!Spec
  BY <1>1, <1>3, Inductive, PTL DEF Spec, Gate!Spec
<1> QED
  BY <1>4 DEF KeepsTheGate

-----------------------------------------------------------------------------
(* The judge of a rejudge in the card's lane.  Its queue is an instance of *)
(* JobQueue, and the theorems about any queue are about this one; the      *)
(* rejudge itself is no part of it, and may stand for anything.            *)

QP == INSTANCE JobQueueProofs WITH
  pc <- at, Jobs <- Judges, LaneOf <- [j \in Judges |-> CardLane], Runs <- {run2},
  RunOf <- [j \in Judges |-> run2], NoRun <- None, EvalRuns <- {}, Judges <- Judges, Rejudged <- {run2},
  Queued <- {h1}, Clients <- {"client"}, Delays <- {1}, MaxAttempts <- 2, MaxDeferred <- 0,
  MaxReclaims <- 0, MaxCrashes <- 1, MaxOutages <- 0,
  e1 <- h1, g1 <- h2, p1 <- h2, run1 <- run2, default <- CardLane, io <- CardLane,
  Questions <- {}, MaxArms <- 0, MaxRjMoves <- 0, MaxFails <- 0,
  seat <- which, active <- which, answers <- which, asked <- which, exp <- which, report <- which,
  moved <- which, moves <- which

(* The queue of the lane and the queue the theorems are about are one. *)
LEMMA OneInit == Q!Init <=> QP!Init
  BY DEF Q!Init, QP!Init, Q!NoOptions, QP!NoOptions, Q!Null, QP!Null

LEMMA OneNext == Q!Next <=> QP!Next
  BY Zenon
  DEF Q!table, QP!table, Q!thread, QP!thread, Q!boot, QP!boot, Q!client, QP!client, Q!faults, QP!faults,
     Q!Active, QP!Active, Q!Finished, QP!Finished, Q!FailKinds, QP!FailKinds, Q!GivesBack, QP!GivesBack,
     Q!Strands, QP!Strands, Q!NoOptions, QP!NoOptions, Q!Handling, QP!Handling, Q!ExperimentJobs, QP!ExperimentJobs,
     Q!Null, QP!Null, Q!Enqueue, QP!Enqueue, Q!BackoffEnds, QP!BackoffEnds, Q!Move, QP!Move, Q!Pause, QP!Pause,
     Q!Resume, QP!Resume, Q!TheirJudges, QP!TheirJudges, Q!CancelRead, QP!CancelRead, Q!StrandedBy, QP!StrandedBy,
     Q!FailRunningOn, QP!FailRunningOn, Q!CancelCommit, QP!CancelCommit, Q!Announce, QP!Announce,
     Q!CancelTells, QP!CancelTells, Q!ReclaimRead, QP!ReclaimRead, Q!Reclaimed, QP!Reclaimed, Q!WornOut, QP!WornOut,
     Q!ReclaimCommit, QP!ReclaimCommit, Q!ReclaimTells, QP!ReclaimTells, Q!Crash, QP!Crash, Q!Claim, QP!Claim,
     Q!Ends, QP!Ends, Q!HandlerRefused, QP!HandlerRefused, Q!QueuesJudge, QP!QueuesJudge,
     Q!NoJudgeLeft, QP!NoJudgeLeft, Q!SawCancel, QP!SawCancel, Q!EvalRunDone, QP!EvalRunDone, Q!Revive, QP!Revive,
     Q!JudgeDone, QP!JudgeDone, Q!OtherDone, QP!OtherDone, Q!HandlerDefers, QP!HandlerDefers, Q!Tried, QP!Tried,
     Q!RetryOf, QP!RetryOf, Q!HandlerRaises, QP!HandlerRaises, Q!RecordSpend, QP!RecordSpend,
     Q!UpdateRead, QP!UpdateRead, Q!AfterUpdate, QP!AfterUpdate, Q!WriteRow, QP!WriteRow,
     Q!UpdateCommit, QP!UpdateCommit, Q!Rest, QP!Rest, Q!BaseFails, QP!BaseFails,
     Q!FailExperiment, QP!FailExperiment, Q!WorkerTells, QP!WorkerTells, Q!HandlerEnds, QP!HandlerEnds,
     Q!ThreadStep, QP!ThreadStep, Q!BootStep, QP!BootStep, Q!ClientStep, QP!ClientStep, Q!Next, QP!Next

LEMMA OneStranded == Q!StrandedOnlyWhereSkipped <=> QP!StrandedOnlyWhereSkipped
  BY DEF Q!StrandedOnlyWhereSkipped, QP!StrandedOnlyWhereSkipped, Q!Stranded, QP!Stranded,
     Q!Settled, QP!Settled, Q!Active, QP!Active, Q!ExperimentJobs, QP!ExperimentJobs

LEMMA LaneIsAQueue == LaneSpec => QP!Spec
<1>1. LaneInit => QP!Init
  BY OneInit DEF LaneInit
<1>2. [LaneNext]_<<which, vars, lane, table>> => [QP!Next]_(QP!vars)
  <2>1. UNCHANGED table => UNCHANGED QP!vars
    BY DEF table, QP!vars, QP!table, QP!thread, QP!boot, QP!client, QP!faults
  <2> QED
    BY <2>1, OneNext DEF LaneNext
<1> QED
  BY <1>1, <1>2, PTL DEF LaneSpec, QP!Spec

LEMMA QueueStrands == QP!Spec => []QP!StrandedOnlyWhereSkipped
<1>1. QP!BoundsAssumption
  BY DEF QP!BoundsAssumption
<1>2. QP!TableAssumption
  BY LaneAssumption DEF QP!TableAssumption, Judges
<1>3. QP!WaitAssumption
  BY DEF QP!WaitAssumption, Judges
<1>4. QP!RejudgeAssumption
  BY DEF QP!RejudgeAssumption
<1> QED
  BY <1>1, <1>2, <1>3, <1>4, QP!StrandedWhereSkipped, PTL

(* job_queue.py, worker.py: the experiment of a rejudge is left waiting only after a judge that was    *)
(* refused or cancelled, the two ends that tell nobody.                                                *)
THEOREM LaneStrandsWhereSkipped == LaneSpec => []StrandedOnlyWhereSkipped
<1>1. QP!StrandedOnlyWhereSkipped => StrandedOnlyWhereSkipped
  BY OneStranded DEF StrandedOnlyWhereSkipped
<1> QED
  BY <1>1, QueueStrands, LaneIsAQueue, PTL

=============================================================================
