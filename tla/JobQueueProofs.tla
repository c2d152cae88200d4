--------------------------- MODULE JobQueueProofs ---------------------------
(***************************************************************************)
(* Theorems about JobQueue for any jobs, lanes, clients and ceilings, and  *)
(* about the rejudge beside it for any questions, by an invariant of its   *)
(* own.                                                                    *)
(***************************************************************************)
EXTENDS MCJobQueue, TLAPS

-----------------------------------------------------------------------------
(* Every state is a state of the right shape. *)

LEMMA InitTypeOK == Init => TypeOK
  BY BoundsAssumption, TableAssumption
  DEF Init, TypeOK, Statuses, Active, Finished, Options, NoOptions, ThreadStates,
      Owning, Handling, Verdicts, GivesBack, Strands, Null

LEMMA DoorsTypeOK ==
  ASSUME TypeOK,
         NEW j \in Jobs,
         Enqueue(j) \/ BackoffEnds(j) \/ Pause(j) \/ Resume(j)
  PROVE  TypeOK'
  BY DEF Enqueue, BackoffEnds, Pause, Resume, Move, TypeOK, Statuses, Active,
         thread, boot, client, faults

LEMMA ClientTypeOK ==
  ASSUME TypeOK,
         NEW c \in Clients,
         ClientStep(c)
  PROVE  TypeOK'
<1>1. ASSUME NEW ids \in SUBSET Jobs, CancelRead(c, ids)
      PROVE  TypeOK'
  <2> DEFINE chosen == {j \in ids : status[j] \in Active}
             hit == chosen \cup TheirJudges(chosen)
             idle == {j \in hit : status[j] # "running"}
  <2>1. hit \in SUBSET Jobs
    BY TableAssumption DEF TheirJudges
  <2>2. /\ cpc' = [cpc EXCEPT ![c] = "read"]
        /\ rows' = [rows EXCEPT ![c] = hit]
        /\ unclaimed' = [unclaimed EXCEPT ![c] = idle]
        /\ untold' = [untold EXCEPT ![c] = {j \in idle : spent[j] = Null}]
        /\ UNCHANGED <<table, experiment, thread, boot, announced, claims, faults>>
    BY <1>1 DEF CancelRead
  <2> HIDE DEF hit
  <2> QED
    BY <2>1, <2>2 DEF TypeOK, table, thread, boot, faults
<1>2. CASE CancelCommit(c)
  BY <1>2 DEF CancelCommit, FailRunningOn, TypeOK, Statuses, Finished, thread, boot
<1>3. CASE CancelTells(c)
  BY <1>3 DEF CancelTells, Announce, TypeOK, table, thread, boot, faults
<1> QED
  BY <1>1, <1>2, <1>3 DEF ClientStep

LEMMA ReclaimedType ==
  ASSUME NEW o \in Options
  PROVE  /\ Reclaimed(o) \in Options
         /\ Reclaimed(o).attempts = o.attempts + 1
         /\ Reclaimed(o).deferred = o.deferred
         /\ Reclaimed(o).reclaims = o.reclaims + 1
  BY DEF Reclaimed, Options

LEMMA BootTypeOK ==
  ASSUME TypeOK,
         BootStep \/ Crash
  PROVE  TypeOK'
<1>1. CASE ReclaimRead
  BY <1>1 DEF ReclaimRead, TypeOK, table, thread, client, faults
<1>2. CASE ReclaimCommit
  <2>1. \A j \in Jobs : Reclaimed(options[j]) \in Options
    BY ReclaimedType DEF TypeOK
  <2>2. WornOut \in SUBSET Jobs
    BY DEF TypeOK, WornOut
  <2>3. options' \in [Jobs -> Options]
    BY <1>2, <2>1 DEF ReclaimCommit, TypeOK
  <2> QED
    BY <1>2, <2>2, <2>3
    DEF ReclaimCommit, TypeOK, Statuses, Active, Finished, FailKinds, thread, client,
        faults
<1>3. CASE ReclaimTells
  BY <1>3 DEF ReclaimTells, Announce, TypeOK, table, thread, client, faults
<1>4. CASE Crash
  BY <1>4 DEF Crash, TypeOK, NoOptions, Options, ThreadStates, Verdicts, table, client
<1> QED
  BY <1>1, <1>2, <1>3, <1>4 DEF BootStep

LEMMA ClaimTypeOK ==
  ASSUME TypeOK,
         NEW l \in Lanes, NEW j \in Jobs,
         Claim(l, j)
  PROVE  TypeOK'
  BY DEF Claim, TypeOK, Statuses, Active, ThreadStates, Owning, Handling, boot, client,
         faults

(* The thread's variables keep their types however its handler ends. *)
LEMMA EndsTypeOK ==
  ASSUME TypeOK,
         NEW l \in Lanes, NEW v \in Verdicts, NEW o \in Options,
         Ends(l, v, o)
  PROVE  /\ pc' \in [Lanes -> ThreadStates]
         /\ held' \in [Lanes -> Jobs \cup {None}]
         /\ snap' \in [Lanes -> Options]
         /\ verdict' \in [Lanes -> Verdicts]
         /\ sawCancel' \in [Lanes -> BOOLEAN]
  BY DEF Ends, TypeOK, ThreadStates, Owning, Handling

LEMMA TriedType ==
  ASSUME NEW o \in Options
  PROVE  Tried(o) \in Options /\ RetryOf(o) \in Verdicts
  BY DEF Tried, RetryOf, Options, Verdicts, GivesBack, Strands

LEMMA HandlerTypeOK ==
  ASSUME TypeOK,
         NEW l \in Lanes,
         HandlerEnds(l)
  PROVE  TypeOK'
<1> USE DEF Verdicts, GivesBack, Strands
<1>1. snap[l] \in Options
  BY DEF TypeOK
<1>2. CASE HandlerRefused(l)
  BY <1>1, <1>2, EndsTypeOK DEF HandlerRefused, TypeOK, table, boot, client, faults
<1>3. CASE EvalRunDone(l)
  <2>1. Ends(l, "done", snap[l])
    BY <1>3 DEF EvalRunDone
  <2>2. status' \in [Jobs -> Statuses]
    BY <1>3, TableAssumption DEF EvalRunDone, QueuesJudge, TypeOK, Statuses, Active
  <2> QED
    BY <1>1, <1>3, <2>1, <2>2, EndsTypeOK
    DEF EvalRunDone, TypeOK, boot, client, faults
<1>4. CASE JudgeDone(l)
  <2>1. Ends(l, "done", snap[l])
    BY <1>4 DEF JudgeDone
  <2>2. status' \in [Jobs -> Statuses]
    BY <1>4, TableAssumption DEF JudgeDone, QueuesJudge, TypeOK, Statuses, Active
  <2>3. experiment' \in [Runs -> {"running", "failed", "aggregated"}]
    BY <1>4 DEF JudgeDone, FailRunningOn, TypeOK
  <2> QED
    BY <1>1, <1>4, <2>1, <2>2, <2>3, EndsTypeOK
    DEF JudgeDone, TypeOK, boot, client, faults
<1>5. CASE OtherDone(l)
  BY <1>1, <1>5, EndsTypeOK DEF OtherDone, TypeOK, table, boot, client, faults
<1>6. ASSUME NEW d \in Delays, HandlerDefers(l, d)
      PROVE  TypeOK'
  <2> DEFINE o == [snap[l] EXCEPT !.deferred = snap[l].deferred + d]
  <2>1. o \in Options
    BY <1>1, BoundsAssumption DEF Options
  <2>2. PICK v \in {"deferred_out", "defer"} : Ends(l, v, o)
    BY <1>6 DEF HandlerDefers
  <2> HIDE DEF o
  <2> QED
    BY <1>6, <2>1, <2>2, EndsTypeOK
    DEF HandlerDefers, TypeOK, table, boot, client, faults
<1>7. CASE HandlerRaises(l)
  <2>1. PICK v \in Verdicts : Ends(l, v, Tried(snap[l]))
    BY <1>1, <1>7, TriedType DEF HandlerRaises
  <2> QED
    BY <1>1, <1>7, <2>1, TriedType, EndsTypeOK
    DEF HandlerRaises, TypeOK, table, boot, client, faults
<1> QED
  BY <1>2, <1>3, <1>4, <1>5, <1>6, <1>7 DEF HandlerEnds

LEMMA ThreadTypeOK ==
  ASSUME TypeOK, Custody,
         NEW l \in Lanes,
         ThreadStep(l)
  PROVE  TypeOK'
<1> USE DEF ThreadStates, Owning, Handling
<1>0. CASE Revive(l)
  BY <1>0 DEF Revive, TypeOK, table, boot, client, faults
<1>1. CASE HandlerEnds(l)
  BY <1>1, HandlerTypeOK
<1>2. CASE RecordSpend(l)
  <2>1. held[l] \in Jobs /\ spent[held[l]] \in Int
    BY <1>2 DEF RecordSpend, Custody, TypeOK
  <2> QED
    BY <1>2, <2>1 DEF RecordSpend, TypeOK, boot, client, faults
<1>3. CASE UpdateRead(l)
  BY <1>3 DEF UpdateRead, TypeOK, table, boot, client, faults
<1>4. CASE UpdateCommit(l)
  <2>1. snap[l] \in Options /\ verdict[l] \in Verdicts
    BY DEF TypeOK
  <2>2. /\ status' \in [Jobs -> Statuses]
        /\ options' \in [Jobs -> Options]
        /\ due' \in [Jobs -> BOOLEAN]
        /\ why' \in [Jobs -> {"none"} \cup FailKinds]
    <3>1. CASE UNCHANGED <<status, options, due, why>>
      BY <3>1 DEF TypeOK
    <3>2. CASE WriteRow(held[l], verdict[l], snap[l])
      <4>1. status' \in [Jobs -> Statuses] /\ due' \in [Jobs -> BOOLEAN]
        BY <3>2 DEF WriteRow, TypeOK, Statuses, Active, Finished
      <4>2. options' \in [Jobs -> Options]
        BY <2>1, <3>2 DEF WriteRow, TypeOK
      <4>3. why' \in [Jobs -> {"none"} \cup FailKinds]
        BY <3>2 DEF WriteRow, TypeOK
      <4> QED
        BY <4>1, <4>2, <4>3
    <3> QED
      BY <1>4, <3>1, <3>2 DEF UpdateCommit
  <2>3. pc' \in [Lanes -> ThreadStates]
    BY <1>4 DEF UpdateCommit, AfterUpdate, TypeOK
  <2> QED
    BY <1>4, <2>2, <2>3 DEF UpdateCommit, TypeOK, boot, client, faults
<1>5. CASE FailExperiment(l)
  BY <1>5 DEF FailExperiment, FailRunningOn, TypeOK, table, boot, client, faults
<1>6. CASE WorkerTells(l)
  BY <1>6
  DEF WorkerTells, Rest, Announce, NoOptions, Options, TypeOK, Verdicts, table, boot,
      client, faults
<1> QED
  BY <1>0, <1>1, <1>2, <1>3, <1>4, <1>5, <1>6 DEF ThreadStep

LEMMA BaseFailsTypeOK ==
  ASSUME TypeOK,
         NEW l \in Lanes,
         BaseFails(l)
  PROVE  TypeOK'
<1>1. /\ pc' \in [Lanes -> ThreadStates]
      /\ held' \in [Lanes -> Jobs \cup {None}]
      /\ sawCancel' \in [Lanes -> BOOLEAN]
  BY DEF BaseFails, Rest, TypeOK, ThreadStates, Owning, Handling
<1>2. /\ snap' \in [Lanes -> Options]
      /\ verdict' \in [Lanes -> Verdicts]
  <2>1. /\ snap[l] \in Options
        /\ Tried(snap[l]) \in Options
        /\ RetryOf(snap[l]) \in Verdicts
    BY TriedType DEF TypeOK
  <2>2. NoOptions \in Options /\ "none" \in Verdicts
    BY DEF NoOptions, Options, Verdicts
  <2> QED
    BY <2>1, <2>2 DEF BaseFails, Rest, TypeOK
<1> QED
  BY <1>1, <1>2 DEF BaseFails, TypeOK, table, boot, client

LEMMA StutterTypeOK ==
  ASSUME TypeOK, UNCHANGED vars
  PROVE  TypeOK'
  BY DEF TypeOK, vars, table, thread, boot, client, faults

LEMMA NextTypeOK ==
  ASSUME TypeOK, Custody, [Next]_vars
  PROVE  TypeOK'
  BY DoorsTypeOK, ClientTypeOK, BootTypeOK, ClaimTypeOK, ThreadTypeOK,
     BaseFailsTypeOK, StutterTypeOK DEF Next

-----------------------------------------------------------------------------
(* Who may write a row. *)

LEMMA InitCustody == Init => Custody
  BY DEF Init, Custody, Owning, Handling

(* Two threads never have the same job: each has only jobs of its own lane. *)
LEMMA HeldApart ==
  ASSUME TypeOK, Custody,
         NEW l \in Lanes, NEW m \in Lanes,
         held[l] # None, l # m
  PROVE  held[m] # held[l]
  BY DEF Custody

(* A step that changes no thread, no boot and no client, and writes only    *)
(* rows that no thread and no boot has.                                     *)
LEMMA TableOnlyCustody ==
  ASSUME TypeOK, Custody,
         UNCHANGED <<thread, boot, client>>,
         \A k \in Jobs : status'[k] # status[k] =>
           /\ status[k] \notin {"running", "cancelled"}
           /\ status'[k] # "absent"
  PROVE  Custody'
<1>1. \A k \in Jobs : /\ status[k] \in {"running", "cancelled"} => status'[k] = status[k]
                      /\ status[k] # "absent" => status'[k] # "absent"
  OBVIOUS
<1>2. \A l \in Lanes : pc[l] \in Owning => held[l] \in Jobs
  BY DEF Custody, Owning, Handling
<1>3. \A l \in Lanes : pc[l] \in Owning => status'[held[l]] \in {"running", "cancelled"}
  BY <1>1, <1>2 DEF Custody
<1>4. \A j \in stale : status'[j] \in {"running", "cancelled"}
  BY <1>1 DEF Custody, TypeOK
<1>5. \A c \in Clients : \A j \in rows[c] : status'[j] # "absent"
  BY <1>1 DEF Custody, TypeOK
<1> QED
  BY <1>3, <1>4, <1>5 DEF Custody, thread, boot, client

LEMMA DoorsCustody ==
  ASSUME TypeOK, Custody,
         NEW j \in Jobs,
         Enqueue(j) \/ BackoffEnds(j) \/ Pause(j) \/ Resume(j)
  PROVE  Custody'
<1>1. UNCHANGED <<thread, boot, client>>
  BY DEF Enqueue, BackoffEnds, Pause, Resume, Move
<1>2. \A k \in Jobs : status'[k] # status[k] =>
        status[k] \notin {"running", "cancelled"} /\ status'[k] # "absent"
  BY DEF Enqueue, BackoffEnds, Pause, Resume, Move, TypeOK
<1> QED
  BY <1>1, <1>2, TableOnlyCustody

LEMMA ClientCustody ==
  ASSUME TypeOK, Custody,
         NEW c \in Clients,
         ClientStep(c)
  PROVE  Custody'
<1>1. ASSUME NEW ids \in SUBSET Jobs, CancelRead(c, ids)
      PROVE  Custody'
  <2> DEFINE chosen == {j \in ids : status[j] \in Active}
             hit == chosen \cup TheirJudges(chosen)
  <2>1. \A j \in hit : status[j] # "absent"
    BY DEF TheirJudges, Active
  <2>2. rows' = [rows EXCEPT ![c] = hit] /\ UNCHANGED <<table, thread, boot>>
    BY <1>1 DEF CancelRead
  <2> HIDE DEF hit
  <2> QED
    BY <2>1, <2>2 DEF Custody, TypeOK, table, thread, boot
<1>2. CASE CancelCommit(c)
  <2>1. /\ status' = [j \in Jobs |-> IF j \in rows[c] THEN "cancelled" ELSE status[j]]
        /\ UNCHANGED <<thread, boot, rows>>
    BY <1>2 DEF CancelCommit
  <2>2. \A l \in Lanes : pc[l] \in Owning => held[l] \in Jobs
    BY DEF Custody, Owning, Handling
  <2> QED
    BY <2>1, <2>2 DEF Custody, TypeOK, thread, boot
<1>3. CASE CancelTells(c)
  BY <1>3 DEF CancelTells, Custody, TypeOK, table, thread, boot
<1> QED
  BY <1>1, <1>2, <1>3 DEF ClientStep

LEMMA BootCustody ==
  ASSUME TypeOK, Custody,
         BootStep \/ Crash
  PROVE  Custody'
<1>1. CASE ReclaimRead
  <2>1. \A l \in Lanes : pc[l] = "idle"
    BY <1>1 DEF ReclaimRead, Custody
  <2> QED
    BY <1>1, <2>1 DEF ReclaimRead, Custody, Owning, Handling, table, thread, client
<1>2. CASE ReclaimCommit
  <2>1. \A l \in Lanes : pc[l] = "idle"
    BY <1>2 DEF ReclaimCommit, Custody
  <2>2. \A j \in Jobs : status[j] # "absent" => status'[j] # "absent"
    BY <1>2 DEF ReclaimCommit
  <2> QED
    BY <1>2, <2>1, <2>2
    DEF ReclaimCommit, Custody, TypeOK, Owning, Handling, thread, client
<1>3. CASE ReclaimTells
  BY <1>3 DEF ReclaimTells, Custody, Owning, Handling, table, thread, client
<1>4. CASE Crash
  BY <1>4 DEF Crash, Custody, Owning, Handling, table, client
<1> QED
  BY <1>1, <1>2, <1>3, <1>4 DEF BootStep

LEMMA ClaimCustody ==
  ASSUME TypeOK, Custody,
         NEW l \in Lanes, NEW j \in Jobs,
         Claim(l, j)
  PROVE  Custody'
<1>1. /\ worker = "up" /\ LaneOf[j] = l /\ status[j] = "new"
      /\ status' = [status EXCEPT ![j] = "running"]
      /\ pc' = [pc EXCEPT ![l] = "handling"]
      /\ held' = [held EXCEPT ![l] = j]
      /\ UNCHANGED <<boot, client>>
  BY DEF Claim
<1>2. stale = {}
  BY <1>1 DEF Custody
<1>3. ASSUME NEW m \in Lanes
      PROVE  /\ pc'[m] # "idle" => worker' = "up" /\ held'[m] \in Jobs
             /\ held'[m] # None => LaneOf[held'[m]] = m
             /\ pc'[m] \in Owning => status'[held'[m]] \in {"running", "cancelled"}
  <2>1. CASE m = l
    BY <1>1, <2>1 DEF TypeOK, boot
  <2>2. CASE m # l
    <3>1. pc'[m] = pc[m] /\ held'[m] = held[m] /\ worker' = worker
      BY <1>1, <2>2 DEF TypeOK, boot
    <3>2. pc[m] \in Owning => held[m] \in Jobs
      BY DEF Custody, Owning, Handling
    <3> QED
      BY <1>1, <3>1, <3>2 DEF TypeOK, Custody
  <2> QED
    BY <2>1, <2>2
<1>4. \A c \in Clients : \A k \in rows'[c] : status'[k] # "absent"
  BY <1>1 DEF Custody, TypeOK, client
<1> QED
  BY <1>1, <1>2, <1>3, <1>4 DEF Custody, boot

(* The thread steps on without leaving its job. *)
LEMMA SamePlaceCustody ==
  ASSUME TypeOK, Custody,
         NEW l \in Lanes,
         pc[l] # "idle", pc'[l] \in Owning => pc[l] \in Owning,
         \A m \in Lanes \ {l} : pc'[m] = pc[m],
         UNCHANGED <<held, boot, client>>,
         \A k \in Jobs : status'[k] # status[k] =>
           /\ status'[k] # "absent"
           /\ status[k] \in {"running", "cancelled"} =>
                k = held[l] /\ pc'[l] \notin Owning
  PROVE  Custody'
<1>1. held[l] \in Jobs /\ worker = "up" /\ stale = {} /\ held[l] # None
  BY TableAssumption DEF Custody
<1>2. ASSUME NEW m \in Lanes
      PROVE  /\ pc'[m] # "idle" => worker = "up" /\ held[m] \in Jobs
             /\ pc'[m] \in Owning => status'[held[m]] \in {"running", "cancelled"}
  <2>1. pc'[m] # "idle" => held[m] \in Jobs /\ worker = "up"
    BY <1>1 DEF Custody
  <2>2. pc'[m] \in Owning => pc[m] \in Owning /\ held[m] \in Jobs
    BY <1>1, <2>1 DEF Owning, Handling
  <2>3. CASE m = l
    BY <2>1, <2>2, <2>3 DEF Custody
  <2>4. CASE m # l
    <3>1. held[m] # held[l]
      BY <1>1, <2>4, HeldApart
    <3> QED
      BY <2>1, <2>2, <3>1 DEF Custody
  <2> QED
    BY <2>3, <2>4
<1>3. \A c \in Clients : \A k \in rows[c] : k \in Jobs /\ status'[k] # "absent"
  BY DEF Custody, TypeOK
<1> QED
  BY <1>1, <1>2, <1>3 DEF Custody, boot, client

LEMMA EndsPlace ==
  ASSUME TypeOK, Custody,
         NEW l \in Lanes, NEW v, NEW o,
         Ends(l, v, o)
  PROVE  /\ pc[l] \in Handling /\ pc'[l] = "spending"
         /\ \A m \in Lanes \ {l} : pc'[m] = pc[m]
         /\ held' = held
         /\ held[l] \in Jobs
  BY DEF Ends, Handling, TypeOK, Custody

(* Nothing a handler does on its way out takes a row that is being worked on. *)
LEMMA HandlerWrites ==
  ASSUME TypeOK, Custody,
         NEW l \in Lanes,
         HandlerEnds(l)
  PROVE  /\ \E v, o : Ends(l, v, o)
         /\ \A k \in Jobs : status'[k] # status[k] =>
              status[k] = "absent" /\ status'[k] = "new"
         /\ UNCHANGED <<options, due, why, spent, boot, client, announced, claims,
                        faults>>
<1>1. ASSUME NEW d \in Delays, HandlerDefers(l, d)
      PROVE  \E v, o : Ends(l, v, o)
  BY <1>1 DEF HandlerDefers
<1>2. \E v, o : Ends(l, v, o)
  BY <1>1 DEF HandlerEnds, HandlerRefused, EvalRunDone, JudgeDone, OtherDone,
              HandlerRaises
<1>3. \A k \in Jobs : status'[k] # status[k] =>
        status[k] = "absent" /\ status'[k] = "new"
  <2>1. CASE EvalRunDone(l)
    BY TableAssumption, <2>1 DEF EvalRunDone, QueuesJudge, TypeOK, table
  <2>2. CASE JudgeDone(l)
    BY TableAssumption, <2>2 DEF JudgeDone, QueuesJudge, TypeOK, table
  <2>3. CASE \/ HandlerRefused(l) \/ OtherDone(l) \/ HandlerRaises(l)
             \/ \E d \in Delays : HandlerDefers(l, d)
    BY <2>3 DEF HandlerRefused, OtherDone, HandlerDefers, HandlerRaises, table
  <2> QED
    BY <2>1, <2>2, <2>3 DEF HandlerEnds
<1>4. UNCHANGED <<options, due, why, spent, boot, client, announced, claims, faults>>
  BY DEF HandlerEnds, HandlerRefused, EvalRunDone, JudgeDone, OtherDone, HandlerDefers,
         HandlerRaises, table
<1> QED
  BY <1>2, <1>3, <1>4

LEMMA ThreadCustody ==
  ASSUME TypeOK, Custody,
         NEW l \in Lanes,
         ThreadStep(l)
  PROVE  Custody'
<1>0. CASE Revive(l)
  BY <1>0, SamePlaceCustody DEF Revive, Owning, Handling, TypeOK, table
<1>1. CASE HandlerEnds(l)
  <2>1. PICK v, o : Ends(l, v, o)
    BY <1>1, HandlerWrites
  <2>2. /\ pc[l] \in Handling /\ pc'[l] = "spending"
        /\ \A m \in Lanes \ {l} : pc'[m] = pc[m]
        /\ held' = held
    BY <2>1, EndsPlace
  <2>3. /\ \A k \in Jobs : status'[k] # status[k] =>
             status[k] = "absent" /\ status'[k] = "new"
        /\ UNCHANGED <<boot, client>>
    BY <1>1, HandlerWrites
  <2> QED
    BY <2>2, <2>3, SamePlaceCustody DEF Owning, Handling
<1>2. CASE RecordSpend(l)
  BY <1>2, SamePlaceCustody DEF RecordSpend, Owning, Handling, TypeOK
<1>3. CASE UpdateRead(l)
  BY <1>3, SamePlaceCustody DEF UpdateRead, Owning, Handling, TypeOK, table
<1>4. CASE UpdateCommit(l)
  <2>1. /\ pc[l] = "updating" /\ pc'[l] \notin Owning
        /\ \A m \in Lanes \ {l} : pc'[m] = pc[m]
        /\ UNCHANGED <<held, boot, client>>
    BY <1>4 DEF UpdateCommit, AfterUpdate, Owning, Handling, TypeOK
  <2>2. \A k \in Jobs : status'[k] # status[k] => k = held[l] /\ status'[k] # "absent"
    BY <1>4 DEF UpdateCommit, WriteRow, TypeOK
  <2> QED
    BY <2>1, <2>2, SamePlaceCustody
<1>5. CASE FailExperiment(l)
  BY <1>5, SamePlaceCustody DEF FailExperiment, Owning, Handling, TypeOK, table
<1>6. CASE WorkerTells(l)
  BY <1>6 DEF WorkerTells, Rest, Owning, Handling, Custody, TypeOK, table, boot, client
<1> QED
  BY <1>0, <1>1, <1>2, <1>3, <1>4, <1>5, <1>6 DEF ThreadStep

LEMMA BaseFailsCustody ==
  ASSUME TypeOK, Custody,
         NEW l \in Lanes,
         BaseFails(l)
  PROVE  Custody'
<1>1. UNCHANGED <<table, boot, client>>
  BY DEF BaseFails
<1>2. CASE pc[l] = "announcing" /\ Rest(l)
  BY <1>1, <1>2 DEF Rest, Owning, Handling, Custody, TypeOK, table, boot, client
<1>3. CASE pc[l] # "announcing"
  <2>1. /\ pc[l] # "idle" /\ (pc'[l] \in Owning => pc[l] \in Owning)
        /\ \A m \in Lanes \ {l} : pc'[m] = pc[m]
        /\ held' = held
    BY <1>3 DEF BaseFails, Owning, Handling, TypeOK
  <2> QED
    BY <1>1, <2>1, SamePlaceCustody DEF table
<1> QED
  BY <1>2, <1>3 DEF BaseFails

LEMMA NextCustody ==
  ASSUME TypeOK, Custody, [Next]_vars
  PROVE  Custody'
<1>1. CASE UNCHANGED vars
  BY <1>1 DEF Custody, vars, table, thread, boot, client
<1> QED
  BY <1>1, DoorsCustody, ClientCustody, BootCustody, ClaimCustody, ThreadCustody,
     BaseFailsCustody DEF Next

-----------------------------------------------------------------------------
(* What a claim costs, and what there is to pay with. *)

LEMMA InitBudget == Init => Budget
  BY BoundsAssumption DEF Init, Budget, Paid, NoOptions, Owning, Handling

LEMMA OptionsType ==
  ASSUME TypeOK,
         NEW j \in Jobs
  PROVE  /\ options[j].attempts \in Nat
         /\ options[j].deferred \in Nat
         /\ options[j].reclaims \in Nat
         /\ claims[j] \in Nat
  BY DEF TypeOK, Options

(* A row that has not ended has a reclaim left. *)
LEMMA NotWornOut ==
  ASSUME TypeOK, Budget,
         NEW j \in Jobs, status[j] \notin Finished
  PROVE  options[j].reclaims <= MaxReclaims
<1>1. Paid(j)
  BY DEF Budget
<1>2. options[j].reclaims \in Nat
  BY OptionsType
<1> QED
  BY <1>1, <1>2, BoundsAssumption DEF Paid

(* A row keeps its account when nothing it counts is written and it does    *)
(* not come back into the line, nor leaves the end it was given.            *)
LEMMA SamePaid ==
  ASSUME NEW j \in Jobs, Paid(j),
         options'[j] = options[j], claims'[j] = claims[j],
         status'[j] \in {"absent", "new", "paused"} =>
           status[j] \in {"absent", "new", "paused"},
         status[j] \in Finished => status'[j] \in Finished
  PROVE  Paid(j)'
  BY DEF Paid

(* The threads keep their accounts when no row they have is written. *)
LEMMA TableOnlyBudget ==
  ASSUME TypeOK, Custody, Budget,
         UNCHANGED <<options, claims, thread, stale>>,
         \A j \in Jobs : /\ status'[j] \in {"absent", "new", "paused"} =>
                              status[j] \in {"absent", "new", "paused"}
                         /\ status[j] \in Finished => status'[j] \in Finished
  PROVE  Budget'
<1>1. \A j \in Jobs : Paid(j)'
  BY SamePaid DEF Budget
<1> QED
  BY <1>1 DEF Budget, CopyIsFresh, Handling, thread

LEMMA DoorsBudget ==
  ASSUME TypeOK, Custody, Budget,
         NEW j \in Jobs,
         Enqueue(j) \/ BackoffEnds(j) \/ Pause(j) \/ Resume(j)
  PROVE  Budget'
<1>1. UNCHANGED <<options, claims, thread, stale>>
  BY DEF Enqueue, BackoffEnds, Pause, Resume, Move, boot
<1>2. \A k \in Jobs : /\ status'[k] \in {"absent", "new", "paused"} =>
                           status[k] \in {"absent", "new", "paused"}
                      /\ status[k] \in Finished => status'[k] \in Finished
  BY DEF Enqueue, BackoffEnds, Pause, Resume, Move, TypeOK, Finished
<1> QED
  BY <1>1, <1>2, TableOnlyBudget

LEMMA ClientBudget ==
  ASSUME TypeOK, Custody, Budget,
         NEW c \in Clients,
         ClientStep(c)
  PROVE  Budget'
<1>1. UNCHANGED <<options, claims, thread, stale>>
  BY DEF ClientStep, CancelRead, CancelCommit, CancelTells, table, boot
<1>2. \A k \in Jobs : /\ status'[k] \in {"absent", "new", "paused"} =>
                           status[k] \in {"absent", "new", "paused"}
                      /\ status[k] \in Finished => status'[k] \in Finished
  BY DEF ClientStep, CancelRead, CancelCommit, CancelTells, Finished, table
<1> QED
  BY <1>1, <1>2, TableOnlyBudget

(* A restart pays for the turn it takes back, and the last one ends the job. *)
LEMMA ReclaimPaid ==
  ASSUME TypeOK, Custody, Budget, ReclaimCommit,
         NEW j \in Jobs
  PROVE  Paid(j)'
<1>1. CASE j \in stale
  <2>1. /\ options'[j] = Reclaimed(options[j])
        /\ status'[j] = IF j \in WornOut THEN "error" ELSE "new"
        /\ claims'[j] = claims[j]
    BY <1>1 DEF ReclaimCommit, WornOut
  <2>2. j \in WornOut <=> options'[j].reclaims > MaxReclaims
    BY <1>1, <2>1 DEF WornOut
  <2>3. options[j] \in Options
    BY DEF TypeOK
  <2>4. /\ options'[j].attempts = options[j].attempts + 1
        /\ options'[j].deferred = options[j].deferred
        /\ options'[j].reclaims = options[j].reclaims + 1
    BY <2>1, <2>3, ReclaimedType
  <2>5. options[j].reclaims <= MaxReclaims /\ Paid(j)
    BY <1>1 DEF Budget
  <2>6. /\ options[j].attempts \in Nat /\ options[j].deferred \in Nat
        /\ options[j].reclaims \in Nat /\ claims[j] \in Nat
    BY OptionsType
  <2> QED
    BY <2>1, <2>2, <2>4, <2>5, <2>6, BoundsAssumption DEF Paid, Finished
<1>2. CASE j \notin stale
  BY <1>2, SamePaid DEF ReclaimCommit, WornOut, TypeOK, Budget
<1> QED
  BY <1>1, <1>2

LEMMA BootBudget ==
  ASSUME TypeOK, Custody, Budget,
         BootStep \/ Crash
  PROVE  Budget'
<1>1. CASE ReclaimRead
  <2>1. \A j \in stale' : status[j] = "running" /\ j \in Jobs
    BY <1>1 DEF ReclaimRead
  <2>2. \A j \in stale' : options[j].reclaims <= MaxReclaims
    BY <2>1, NotWornOut DEF Finished
  <2>3. \A j \in Jobs : Paid(j)'
    BY <1>1, SamePaid DEF ReclaimRead, Budget, table
  <2> QED
    BY <1>1, <2>2, <2>3 DEF ReclaimRead, Budget, CopyIsFresh, Handling, table, thread
<1>2. CASE ReclaimCommit
  <2>1. \A l \in Lanes : pc'[l] = "idle"
    BY <1>2 DEF ReclaimCommit, Custody, thread
  <2>2. stale' = {}
    BY <1>2 DEF ReclaimCommit
  <2> QED
    BY <1>2, <2>1, <2>2, ReclaimPaid DEF Budget, Owning, Handling
<1>3. CASE ReclaimTells
  BY <1>3, TableOnlyBudget DEF ReclaimTells, table
<1>4. CASE Crash
  <2>1. \A j \in Jobs : Paid(j)'
    BY <1>4, SamePaid DEF Crash, Budget, table
  <2> QED
    BY <1>4, <2>1 DEF Crash, Budget, Owning, Handling
<1> QED
  BY <1>1, <1>2, <1>3, <1>4 DEF BootStep

LEMMA ClaimBudget ==
  ASSUME TypeOK, Custody, Budget,
         NEW l \in Lanes, NEW j \in Jobs,
         Claim(l, j)
  PROVE  Budget'
<1>1. /\ worker = "up" /\ pc[l] = "idle" /\ status[j] = "new"
      /\ status' = [status EXCEPT ![j] = "running"]
      /\ claims' = [claims EXCEPT ![j] = claims[j] + 1]
      /\ pc' = [pc EXCEPT ![l] = "handling"]
      /\ held' = [held EXCEPT ![l] = j]
      /\ snap' = [snap EXCEPT ![l] = options[j]]
      /\ UNCHANGED <<options, verdict, boot>>
  BY DEF Claim
<1>2. options[j].reclaims <= MaxReclaims
  BY <1>1, NotWornOut DEF Finished
<1>3. ASSUME NEW k \in Jobs
      PROVE  Paid(k)'
  <2>1. CASE k = j
    <3>1. /\ status'[j] = "running" /\ claims'[j] = claims[j] + 1
          /\ options'[j] = options[j]
      BY <1>1 DEF TypeOK
    <3>2. Paid(j)
      BY DEF Budget
    <3>3. /\ options[j].attempts \in Nat /\ options[j].deferred \in Nat
          /\ options[j].reclaims \in Nat /\ claims[j] \in Nat
      BY OptionsType
    <3> QED
      BY <1>1, <1>2, <2>1, <3>1, <3>2, <3>3, BoundsAssumption DEF Paid
  <2>2. CASE k # j
    BY <1>1, <2>2, SamePaid DEF TypeOK, Budget
  <2> QED
    BY <2>1, <2>2
<1>4. ASSUME NEW m \in Lanes, pc'[m] \in Owning
      PROVE  CopyIsFresh(m)' /\ options'[held'[m]].reclaims <= MaxReclaims
  <2>1. CASE m = l
    <3>1. pc'[m] = "handling" /\ held'[m] = j /\ snap'[m] = options'[j]
      BY <1>1, <2>1 DEF TypeOK
    <3> QED
      BY <1>1, <1>2, <3>1 DEF CopyIsFresh, Handling
  <2>2. CASE m # l
    <3>1. /\ pc'[m] = pc[m] /\ held'[m] = held[m] /\ snap'[m] = snap[m]
          /\ verdict'[m] = verdict[m] /\ options' = options
      BY <1>1, <2>2 DEF TypeOK
    <3> QED
      BY <1>4, <3>1 DEF CopyIsFresh, Handling, Budget
  <2> QED
    BY <2>1, <2>2
<1> QED
  BY <1>1, <1>3, <1>4 DEF Budget, boot

(* The thread l moves, the others and the rows they have stay. *)
LEMMA OthersFresh ==
  ASSUME TypeOK, Custody, Budget,
         NEW l \in Lanes, NEW m \in Lanes \ {l},
         held[l] \in Jobs,
         pc'[m] = pc[m], held'[m] = held[m], snap'[m] = snap[m],
         verdict'[m] = verdict[m],
         \A k \in Jobs \ {held[l]} : options'[k] = options[k],
         pc'[m] \in Owning
  PROVE  CopyIsFresh(m)' /\ options'[held'[m]].reclaims <= MaxReclaims
<1>1. held[m] \in Jobs
  BY DEF Custody, Owning, Handling
<1>2. held[m] # held[l]
  BY HeldApart, TableAssumption
<1>3. options'[held'[m]] = options[held[m]]
  BY <1>1, <1>2
<1>4. CopyIsFresh(m) /\ options[held[m]].reclaims <= MaxReclaims
  BY DEF Budget
<1>5. CopyIsFresh(m)'
  BY <1>3, <1>4 DEF CopyIsFresh, Handling
<1> QED
  BY <1>3, <1>4, <1>5

(* The thread moves on with the same copy and verdict, or lets go. *)
LEMMA SameCopyBudget ==
  ASSUME TypeOK, Custody, Budget,
         NEW l \in Lanes,
         pc[l] # "idle",
         pc'[l] \in Owning => /\ pc[l] \in Owning
                             /\ (pc'[l] \in Handling) = (pc[l] \in Handling)
                             /\ UNCHANGED <<held, snap, verdict>>,
         \A m \in Lanes \ {l} : /\ pc'[m] = pc[m]
                               /\ held'[m] = held[m]
                               /\ snap'[m] = snap[m]
                               /\ verdict'[m] = verdict[m],
         UNCHANGED <<options, claims, stale, status>>
  PROVE  Budget'
<1>1. \A j \in Jobs : Paid(j)'
  BY SamePaid DEF Budget
<1>2. ASSUME NEW m \in Lanes, pc'[m] \in Owning
      PROVE  CopyIsFresh(m)' /\ options'[held'[m]].reclaims <= MaxReclaims
  <2>1. CASE m = l
    <3>1. /\ CopyIsFresh(l) /\ options[held[l]].reclaims <= MaxReclaims
          /\ (pc'[l] \in Handling) = (pc[l] \in Handling)
          /\ UNCHANGED <<held, snap, verdict>>
      <4>1. pc'[l] \in Owning
        BY <1>2, <2>1
      <4> QED
        BY <4>1 DEF Budget
    <3>2. CopyIsFresh(l)'
      BY <3>1 DEF CopyIsFresh
    <3> QED
      BY <2>1, <3>1, <3>2
  <2>2. CASE m # l
    BY <1>2, <2>2, OthersFresh DEF Custody
  <2> QED
    BY <2>1, <2>2
<1> QED
  BY <1>1, <1>2 DEF Budget

(* What a thread that is handling may end with. *)
LEMMA EndsFresh ==
  ASSUME TypeOK, Custody, Budget,
         NEW l \in Lanes,
         HandlerEnds(l)
  PROVE  /\ pc'[l] = "spending"
         /\ UNCHANGED <<held, options>>
         /\ CopyIsFresh(l)'
<1>1. /\ UNCHANGED options
      /\ \E v, o : Ends(l, v, o)
  BY HandlerWrites
<1>2. pc[l] \in Handling /\ pc'[l] = "spending" /\ held' = held /\ held[l] \in Jobs
  BY <1>1, EndsPlace
<1>3. snap[l] = options[held[l]] /\ snap[l] \in Options
  BY <1>2 DEF Budget, CopyIsFresh, Owning, Handling, TypeOK
<1>4. ASSUME NEW v, NEW o, Ends(l, v, o)
      PROVE  verdict'[l] = v /\ snap'[l] = o
  BY <1>4 DEF Ends, TypeOK
<1>5. CASE HandlerRefused(l) \/ EvalRunDone(l) \/ JudgeDone(l) \/ OtherDone(l)
  <2>1. (Ends(l, "refused", snap[l]) \/ Ends(l, "done", snap[l]))
    BY <1>5 DEF HandlerRefused, EvalRunDone, JudgeDone, OtherDone
  <2>2. snap'[l] = options[held[l]] /\ verdict'[l] \in {"refused", "done"}
    BY <1>3, <1>4, <2>1
  <2> QED
    BY <1>1, <1>2, <2>2 DEF CopyIsFresh, Handling
<1>6. ASSUME NEW d \in Delays, HandlerDefers(l, d)
      PROVE  CopyIsFresh(l)'
  <2> DEFINE waited == snap[l].deferred + d
  <2>1. /\ snap'[l] = [snap[l] EXCEPT !.deferred = waited]
        /\ verdict'[l] = IF waited > MaxDeferred THEN "deferred_out" ELSE "defer"
    BY <1>4, <1>6 DEF HandlerDefers
  <2>2. /\ snap[l].deferred \in Nat /\ d \in Nat \ {0}
        /\ snap'[l].deferred = waited
    BY <1>3, <2>1, BoundsAssumption DEF Options
  <2>3. /\ snap'[l] = [options[held[l]] EXCEPT !.deferred = snap'[l].deferred]
        /\ options[held[l]].deferred < snap'[l].deferred
    BY <1>3, <2>1, <2>2
  <2>4. verdict'[l] = "defer" => snap'[l].deferred <= MaxDeferred
    BY <2>1, <2>2, BoundsAssumption
  <2>5. verdict'[l] \in {"defer", "deferred_out"}
    BY <2>1
  <2> HIDE DEF waited
  <2> QED
    BY <1>1, <1>2, <2>3, <2>4, <2>5 DEF CopyIsFresh, Handling
<1>7. CASE HandlerRaises(l)
  <2>1. /\ snap'[l] = Tried(snap[l])
        /\ \/ verdict'[l] = RetryOf(snap[l])
           \/ verdict'[l] = "final"
    BY <1>4, <1>7 DEF HandlerRaises
  <2>2. /\ verdict'[l] \in {"retry", "exhausted", "final"}
        /\ verdict'[l] = "retry" => snap'[l].attempts < MaxAttempts
    BY <2>1 DEF RetryOf
  <2>3. snap'[l] = Tried(options[held[l]])
    BY <1>3, <2>1
  <2> QED
    BY <1>1, <1>2, <2>2, <2>3 DEF CopyIsFresh, Handling
<1> QED
  BY <1>1, <1>2, <1>5, <1>6, <1>7 DEF HandlerEnds

LEMMA HandlerBudget ==
  ASSUME TypeOK, Custody, Budget,
         NEW l \in Lanes,
         HandlerEnds(l)
  PROVE  Budget'
<1>1. /\ \A k \in Jobs : status'[k] # status[k] =>
           status[k] = "absent" /\ status'[k] = "new"
      /\ UNCHANGED <<options, claims, stale>>
      /\ \E v, o : Ends(l, v, o)
  BY HandlerWrites DEF boot
<1>2. \A j \in Jobs : Paid(j)'
  BY <1>1, SamePaid DEF Budget, Finished
<1>3. ASSUME NEW m \in Lanes, pc'[m] \in Owning
      PROVE  CopyIsFresh(m)' /\ options'[held'[m]].reclaims <= MaxReclaims
  <2>1. CASE m = l
    <3>1. pc[l] \in Handling
      BY <1>1 DEF Ends
    <3>2. options[held[l]].reclaims <= MaxReclaims
      BY <3>1 DEF Budget, Owning, Handling
    <3> QED
      BY <2>1, <3>2, EndsFresh
  <2>2. CASE m # l
    <3>1. /\ pc'[m] = pc[m] /\ held'[m] = held[m] /\ snap'[m] = snap[m]
          /\ verdict'[m] = verdict[m] /\ held[l] \in Jobs
      BY <1>1, <2>2 DEF Ends, Handling, TypeOK, Custody
    <3> QED
      BY <1>1, <1>3, <2>2, <3>1, OthersFresh
  <2> QED
    BY <2>1, <2>2
<1> QED
  BY <1>1, <1>2, <1>3 DEF Budget

(* The row a thread gives back has its turn paid for. *)
LEMMA UpdatePaid ==
  ASSUME TypeOK, Custody, Budget,
         NEW l \in Lanes,
         UpdateCommit(l),
         NEW j \in Jobs
  PROVE  Paid(j)'
<1>1. /\ pc[l] = "updating" /\ claims' = claims /\ held[l] \in Jobs
      /\ status[held[l]] \in {"running", "cancelled"}
  BY DEF UpdateCommit, Custody, Owning, Handling
<1>2. CASE sawCancel[l] \/ j # held[l]
  BY <1>1, <1>2, SamePaid DEF UpdateCommit, WriteRow, TypeOK, Budget
<1>3. CASE ~sawCancel[l] /\ j = held[l]
  <2> DEFINE o == options[j]
  <2>1. WriteRow(j, verdict[l], snap[l])
    BY <1>3 DEF UpdateCommit
  <2>2. CopyIsFresh(l) /\ o.reclaims <= MaxReclaims /\ Paid(j)
    BY <1>1, <1>3 DEF Budget, Owning, Handling
  <2>3. o \in Options /\ snap[l] \in Options /\ claims[j] \in Nat
    BY DEF TypeOK
  <2>4. CASE verdict[l] = "retry"
    <3>1. snap[l] = Tried(o) /\ snap[l].attempts < MaxAttempts
      BY <1>1, <1>3, <2>2, <2>4 DEF CopyIsFresh, Handling
    <3>2. status'[j] = "new" /\ options'[j] = snap[l]
      BY <2>1, <2>4 DEF WriteRow, GivesBack, TypeOK
    <3>3. /\ snap[l].attempts = o.attempts + 1
          /\ snap[l].deferred = o.deferred
          /\ snap[l].reclaims = o.reclaims
      BY <2>3, <3>1 DEF Tried, Options
    <3> QED
      BY <1>1, <2>2, <2>3, <3>1, <3>2, <3>3, BoundsAssumption DEF Paid, Options
  <2>5. CASE verdict[l] = "defer"
    <3>1. /\ snap[l] = [o EXCEPT !.deferred = snap[l].deferred]
          /\ o.deferred < snap[l].deferred
          /\ snap[l].deferred <= MaxDeferred
      BY <1>1, <1>3, <2>2, <2>5 DEF CopyIsFresh, Handling
    <3>2. status'[j] = "new" /\ options'[j] = snap[l]
      BY <2>1, <2>5 DEF WriteRow, GivesBack, TypeOK
    <3>3. snap[l].attempts = o.attempts /\ snap[l].reclaims = o.reclaims
      BY <2>3, <3>1 DEF Options
    <3> QED
      BY <1>1, <2>2, <2>3, <3>1, <3>2, <3>3, BoundsAssumption DEF Paid, Options
  <2>6. CASE verdict[l] \notin GivesBack
    <3>1. status'[j] \in {"done", "error"} /\ options'[j] = options[j]
      BY <2>1, <2>6 DEF WriteRow, TypeOK
    <3> QED
      BY <1>1, <2>2, <3>1 DEF Paid, Finished
  <2> QED
    BY <2>4, <2>5, <2>6 DEF GivesBack
<1> QED
  BY <1>2, <1>3

LEMMA UpdateBudget ==
  ASSUME TypeOK, Custody, Budget,
         NEW l \in Lanes,
         UpdateCommit(l)
  PROVE  Budget'
<1>1. /\ pc[l] = "updating" /\ pc'[l] \notin Owning /\ held[l] \in Jobs
      /\ worker = "up" /\ UNCHANGED <<held, snap, verdict, stale>>
  BY DEF UpdateCommit, AfterUpdate, Custody, Owning, Handling, TypeOK, boot
<1>2. stale' = {}
  BY <1>1 DEF Custody
<1>3. \A k \in Jobs \ {held[l]} : options'[k] = options[k]
  BY DEF UpdateCommit, WriteRow, TypeOK
<1>4. ASSUME NEW m \in Lanes, pc'[m] \in Owning
      PROVE  CopyIsFresh(m)' /\ options'[held'[m]].reclaims <= MaxReclaims
  <2>1. m # l /\ pc'[m] = pc[m]
    BY <1>1, <1>4 DEF UpdateCommit, TypeOK
  <2> QED
    BY <1>1, <1>3, <1>4, <2>1, OthersFresh
<1>5. \A j \in Jobs : Paid(j)'
  BY UpdatePaid
<1> QED
  BY <1>2, <1>4, <1>5 DEF Budget

LEMMA ThreadBudget ==
  ASSUME TypeOK, Custody, Budget,
         NEW l \in Lanes,
         ThreadStep(l)
  PROVE  Budget'
<1>1. CASE RecordSpend(l)
  BY <1>1, SameCopyBudget DEF RecordSpend, Owning, Handling, TypeOK, boot
<1>2. CASE UpdateRead(l)
  BY <1>2, SameCopyBudget DEF UpdateRead, Owning, Handling, TypeOK, table, boot
<1>3. CASE FailExperiment(l)
  BY <1>3, SameCopyBudget DEF FailExperiment, Owning, Handling, TypeOK, table, boot
<1>4. CASE WorkerTells(l)
  BY <1>4, SameCopyBudget DEF WorkerTells, Rest, Owning, Handling, TypeOK, table, boot
<1>5. CASE Revive(l)
  BY <1>5, SameCopyBudget DEF Revive, Owning, Handling, TypeOK, table, boot
<1> QED
  BY <1>1, <1>2, <1>3, <1>4, <1>5, HandlerBudget, UpdateBudget DEF ThreadStep

(* A complete that raises becomes a failed attempt of the same options. *)
LEMMA BaseFailsBudget ==
  ASSUME TypeOK, Custody, Budget,
         NEW l \in Lanes,
         BaseFails(l)
  PROVE  Budget'
<1>1. UNCHANGED <<options, claims, stale, status>>
  BY DEF BaseFails, table, boot
<1>2. CASE /\ pc[l] \in {"spent", "updating"} /\ verdict[l] = "done"
           /\ pc' = [pc EXCEPT ![l] = "spending"]
           /\ verdict' = [verdict EXCEPT ![l] = RetryOf(snap[l])]
           /\ snap' = [snap EXCEPT ![l] = Tried(snap[l])]
           /\ UNCHANGED <<held, sawCancel>>
  <2>1. snap[l] = options[held[l]] /\ options[held[l]].reclaims <= MaxReclaims
    BY <1>2 DEF Budget, CopyIsFresh, Owning, Handling
  <2>2. /\ pc'[l] = "spending" /\ snap'[l] = Tried(options'[held'[l]])
        /\ verdict'[l] = RetryOf(options[held[l]])
    BY <1>1, <1>2, <2>1 DEF TypeOK
  <2>3. /\ verdict'[l] \in {"retry", "exhausted"}
        /\ verdict'[l] = "retry" => snap'[l].attempts < MaxAttempts
    BY <1>1, <1>2, <2>2 DEF RetryOf
  <2>4. CopyIsFresh(l)'
    BY <2>2, <2>3 DEF CopyIsFresh, Handling
  <2>5. \A j \in Jobs : Paid(j)'
    BY <1>1, SamePaid DEF Budget
  <2>6. ASSUME NEW m \in Lanes \ {l}, pc'[m] \in Owning
        PROVE  CopyIsFresh(m)' /\ options'[held'[m]].reclaims <= MaxReclaims
    <3>1. /\ pc'[m] = pc[m] /\ held'[m] = held[m] /\ snap'[m] = snap[m]
          /\ verdict'[m] = verdict[m] /\ held[l] \in Jobs
      BY <1>2 DEF TypeOK, Custody
    <3> QED
      BY <1>1, <2>6, <3>1, OthersFresh
  <2> QED
    BY <1>1, <1>2, <2>1, <2>4, <2>5, <2>6 DEF Budget
<1>3. CASE pc[l] = "announcing" /\ Rest(l)
  BY <1>1, <1>3, SameCopyBudget DEF Rest, Owning, Handling, TypeOK
<1>4. CASE /\ pc[l] = "spending" /\ verdict[l] # "refused"
           /\ pc' = [pc EXCEPT ![l] = "spent"]
           /\ UNCHANGED <<held, snap, verdict, sawCancel>>
  BY <1>1, <1>4, SameCopyBudget DEF Owning, Handling, TypeOK
<1>5. CASE /\ pc[l] # "idle"
           /\ pc' = [pc EXCEPT ![l] = "announcing"]
           /\ UNCHANGED <<held, snap, verdict, sawCancel>>
  BY <1>1, <1>5, SameCopyBudget DEF Owning, Handling, TypeOK
<1> QED
  BY <1>2, <1>3, <1>4, <1>5 DEF BaseFails

LEMMA NextBudget ==
  ASSUME TypeOK, Custody, Budget, [Next]_vars
  PROVE  Budget'
<1>1. CASE UNCHANGED vars
  BY <1>1, TableOnlyBudget DEF vars, table, boot
<1> QED
  BY <1>1, DoorsBudget, ClientBudget, BootBudget, ClaimBudget, ThreadBudget,
     BaseFailsBudget DEF Next

-----------------------------------------------------------------------------
(* The invariant, and what follows from it. *)

(* The invariant the theorems below rest on holds of every behaviour.       *)
THEOREM Inductive == Spec => []IInv
<1>1. Init => IInv
  BY InitTypeOK, InitCustody, InitBudget DEF IInv
<1>2. IInv /\ [Next]_vars => IInv'
  BY NextTypeOK, NextCustody, NextBudget DEF IInv
<1> QED
  BY <1>1, <1>2, PTL DEF Spec

(* Every state of the table, the worker and the clients is well-formed.     *)
THEOREM TypeCorrect == Spec => []TypeOK
<1>1. IInv => TypeOK
  BY DEF IInv
<1> QED
  BY <1>1, Inductive, PTL

(* From the claim to the last write a row stays its thread's: no pause, no  *)
(* boot and no other lane takes it, whatever the number of lanes, jobs and  *)
(* crashes.                                                                 *)
THEOREM Ownership == Spec => []HandlerOwnsRow
<1>1. ASSUME IInv, NEW l \in Lanes, pc[l] \in Owning
      PROVE  /\ status[held[l]] \in {"running", "cancelled"}
             /\ held[l] \notin stale
             /\ \A m \in Lanes \ {l} : held[m] # held[l]
  <2>1. pc[l] # "idle" /\ held[l] # None
    BY <1>1, TableAssumption DEF IInv, Custody, Owning, Handling
  <2>2. stale = {}
    BY <2>1, <1>1 DEF IInv, Custody
  <2>3. \A m \in Lanes \ {l} : held[m] # held[l]
    BY <2>1, <1>1, HeldApart DEF IInv
  <2> QED
    BY <1>1, <2>2, <2>3 DEF IInv, Custody
<1>2. IInv => HandlerOwnsRow
  BY <1>1 DEF HandlerOwnsRow
<1> QED
  BY <1>2, Inductive, PTL

LEMMA BoundedByInvariant == IInv => ClaimsBounded
<1>1. ASSUME IInv, NEW j \in Jobs
      PROVE  claims[j] <= MaxTurns
  <2>1. Paid(j)
    BY <1>1 DEF IInv, Budget
  <2>2. /\ options[j].attempts \in Nat /\ options[j].deferred \in Nat
        /\ options[j].reclaims \in Nat /\ claims[j] \in Nat
    BY <1>1, OptionsType DEF IInv
  <2> QED
    BY <2>1, <2>2, BoundsAssumption DEF Paid, MaxTurns
<1> QED
  BY <1>1 DEF ClaimsBounded

(* No mix of failures, deferrals, crashes and cancels begins a job more     *)
(* often than its three ceilings allow together.                            *)
THEOREM ClaimsAreBounded == Spec => []ClaimsBounded
  BY BoundedByInvariant, Inductive, PTL

-----------------------------------------------------------------------------
(* What a step may do to a row that is neither a thread's nor a boot's.     *)

(* Only a thread that read the row before the cancel, or a boot that did,   *)
(* takes a cancelled row back.                                              *)
THEOREM CancelsStand == Spec => CancelStands
<1> DEFINE Stands == \A j \in Jobs :
             status[j] = "cancelled" /\ ~Racing(j) => status'[j] = "cancelled"
<1>1. ASSUME IInv, Next
      PROVE  Stands
  <2> USE <1>1 DEF IInv
  <2>1. CASE \E j \in Jobs : Enqueue(j) \/ BackoffEnds(j) \/ Pause(j) \/ Resume(j)
    BY <2>1 DEF Enqueue, BackoffEnds, Pause, Resume, Move, TypeOK
  <2>2. CASE \E c \in Clients : ClientStep(c)
    BY <2>2 DEF ClientStep, CancelRead, CancelCommit, CancelTells, table
  <2>3. CASE BootStep
    <3>1. \A j \in Jobs : ~Racing(j) => j \notin stale
      BY DEF Racing
    <3> QED
      BY <2>3, <3>1
      DEF BootStep, ReclaimRead, ReclaimCommit, ReclaimTells, WornOut, table
  <2>4. CASE Crash
    BY <2>4 DEF Crash, table
  <2>5. CASE \E l \in Lanes, j \in Jobs : Claim(l, j)
    BY <2>5 DEF Claim, TypeOK
  <2>6. ASSUME NEW l \in Lanes, ThreadStep(l)
        PROVE  Stands
    <3>1. CASE HandlerEnds(l)
      BY <3>1, HandlerWrites
    <3>2. CASE UpdateCommit(l)
      <4>1. \A j \in Jobs : ~Racing(j) => sawCancel[l] \/ j # held[l]
        BY <3>2 DEF Racing, UpdateCommit
      <4> QED
        BY <3>2, <4>1 DEF UpdateCommit, WriteRow, TypeOK
    <3>3. CASE status' = status
      BY <3>3
    <3> QED
      BY <2>6, <3>1, <3>2, <3>3
      DEF ThreadStep, Revive, RecordSpend, UpdateRead, FailExperiment, WorkerTells, table
  <2>7. CASE \E l \in Lanes : BaseFails(l)
    BY <2>7 DEF BaseFails, table
  <2> HIDE DEF Stands
  <2> QED
    BY <2>1, <2>2, <2>3, <2>4, <2>5, <2>6, <2>7 DEF Next
<1>2. ASSUME UNCHANGED vars
      PROVE  Stands
  BY <1>2 DEF vars, table
<1>3. IInv /\ [Next]_vars => [Stands]_vars
  BY <1>1, <1>2
<1> QED
  BY <1>3, Inductive, PTL DEF Spec, CancelStands

(* A retry, a deferral and a restart write the options back from a copy;    *)
(* no interleaving lets one of them hand a used-up budget out again.        *)
THEOREM TriesGrow == Spec => TriesOnlyGrow
<1> DEFINE Grows(j) == /\ options'[j].attempts >= options[j].attempts
                       /\ options'[j].deferred >= options[j].deferred
                       /\ options'[j].reclaims >= options[j].reclaims
<1>1. ASSUME IInv, NEW j \in Jobs, options'[j] = options[j]
      PROVE  Grows(j)
  BY <1>1, OptionsType DEF IInv
<1>2. ASSUME IInv, NEW j \in Jobs, NEW l \in Lanes, UpdateCommit(l)
      PROVE  Grows(j)
  <2>1. CASE sawCancel[l] \/ j # held[l] \/ verdict[l] \notin GivesBack
    BY <1>1, <1>2, <2>1 DEF UpdateCommit, WriteRow, IInv, TypeOK
  <2>2. CASE ~sawCancel[l] /\ j = held[l] /\ verdict[l] \in GivesBack
    <3>1. pc[l] = "updating" /\ options'[j] = snap[l]
      BY <1>2, <2>2 DEF UpdateCommit, WriteRow, IInv, TypeOK
    <3>2. CopyIsFresh(l)
      BY <1>2, <3>1 DEF IInv, Budget, Owning, Handling
    <3>3. options[j] \in Options /\ snap[l] \in Options
      BY <1>2 DEF IInv, TypeOK
    <3>4. CASE verdict[l] = "retry"
      <4>1. snap[l] = Tried(options[j])
        BY <2>2, <3>1, <3>2, <3>4 DEF CopyIsFresh, Handling
      <4> QED
        BY <3>1, <3>3, <4>1 DEF Tried, Options
    <3>5. CASE verdict[l] = "defer"
      <4>1. /\ snap[l] = [options[j] EXCEPT !.deferred = snap[l].deferred]
            /\ options[j].deferred < snap[l].deferred
        BY <2>2, <3>1, <3>2, <3>5 DEF CopyIsFresh, Handling
      <4> QED
        BY <3>1, <3>3, <4>1 DEF Options
    <3> QED
      BY <2>2, <3>4, <3>5 DEF GivesBack
  <2> QED
    BY <2>1, <2>2
<1>3. ASSUME IInv, NEW j \in Jobs, ReclaimCommit
      PROVE  Grows(j)
  <2>1. options[j] \in Options
    BY <1>3 DEF IInv, TypeOK
  <2>2. options'[j] = Reclaimed(options[j]) \/ options'[j] = options[j]
    BY <1>3 DEF ReclaimCommit
  <2> QED
    BY <1>1, <1>3, <2>1, <2>2, ReclaimedType DEF Options
<1>4. ASSUME IInv, [Next]_vars, NEW j \in Jobs
      PROVE  Grows(j)
  <2>1. \/ options' = options
        \/ ReclaimCommit
        \/ \E l \in Lanes : UpdateCommit(l)
    <3>1. ASSUME NEW l \in Lanes, HandlerEnds(l)
          PROVE  options' = options
      BY <1>4, <3>1, HandlerWrites DEF IInv
    <3> QED
      BY <1>4, <3>1
      DEF Next, vars, table, Enqueue, BackoffEnds, Pause, Resume, Move, ClientStep,
          CancelRead, CancelCommit, CancelTells, BootStep, ReclaimRead, ReclaimTells,
          Claim, ThreadStep, Revive, RecordSpend, UpdateRead, FailExperiment, WorkerTells,
          BaseFails, Crash
  <2> QED
    BY <1>1, <1>2, <1>3, <1>4, <2>1
<1>5. IInv /\ [Next]_vars =>
        [\A j \in Jobs : /\ options'[j].attempts >= options[j].attempts
                         /\ options'[j].deferred >= options[j].deferred
                         /\ options'[j].reclaims >= options[j].reclaims]_vars
  BY <1>4
<1> QED
  BY <1>5, Inductive, PTL DEF Spec, TriesOnlyGrow

-----------------------------------------------------------------------------
(* The queue keeps the promise of JobLifecycle. *)

Taken(j) == status[j] = "running" \/ j \in stale \/ \E l \in Lanes : Works(l, j)

(* One step of one row: what its status may become, from whom, and at what  *)
(* cost.                                                                    *)
RowStep(j) ==
  /\ \/ status'[j] = status[j]
     \/ status[j] = "absent" /\ status'[j] = "new"
     \/ status[j] = "new" /\ status'[j] \in {"paused", "running"}
     \/ status[j] = "paused" /\ status'[j] = "new"
     \/ status[j] # "absent" /\ status'[j] = "cancelled"
     \/ Taken(j) /\ status'[j] \in {"new", "done", "error"}
  /\ Taken(j)' => Taken(j) \/ (status[j] = "new" /\ status'[j] = "running")
  /\ claims'[j] = IF status[j] = "new" /\ status'[j] = "running"
                  THEN claims[j] + 1 ELSE claims[j]

LEMMA TakenStatus ==
  ASSUME Custody,
         NEW j \in Jobs, Taken(j)
  PROVE  status[j] \in {"running", "cancelled"}
  BY DEF Custody, Taken, Works

(* A step that gives no thread and no boot a row. *)
LEMMA NotTakenAnew ==
  ASSUME NEW j \in Jobs,
         Taken(j)',
         \A k \in stale' : k \in stale \/ status[k] = "running",
         \A l \in Lanes : Works(l, j)' => Works(l, j),
         status'[j] = "running" => status[j] = "running"
  PROVE  Taken(j)
  BY DEF Taken

LEMMA ThreadRowStep ==
  ASSUME TypeOK, Custody,
         NEW l \in Lanes, NEW j \in Jobs,
         ThreadStep(l) \/ BaseFails(l)
  PROVE  RowStep(j)
<1>1. ASSUME HandlerEnds(l)
      PROVE  /\ \A m \in Lanes : Works(m, j)' => Works(m, j)
             /\ status'[j] # status[j] => status[j] = "absent" /\ status'[j] = "new"
             /\ stale' = stale /\ claims' = claims
  <2>1. PICK v, o : Ends(l, v, o)
    BY <1>1, HandlerWrites
  <2>2. \A m \in Lanes : Works(m, j)' => Works(m, j)
    BY <2>1 DEF Works, Ends, Owning, Handling, TypeOK
  <2> QED
    BY <1>1, <2>2, HandlerWrites DEF boot
<1>2. ASSUME UpdateCommit(l)
      PROVE  /\ \A m \in Lanes : Works(m, j)' => Works(m, j)
             /\ status'[j] # status[j] =>
                  Taken(j) /\ status'[j] \in {"new", "done", "error"}
             /\ stale' = stale /\ claims' = claims
  <2>1. \A m \in Lanes : Works(m, j)' => Works(m, j)
    BY <1>2 DEF Works, UpdateCommit, AfterUpdate, Owning, Handling, TypeOK
  <2>2. status'[j] # status[j] => j = held[l] /\ status'[j] \in {"new", "done", "error"}
    BY <1>2 DEF UpdateCommit, WriteRow, TypeOK
  <2>3. j = held[l] => Taken(j)
    BY <1>2 DEF Taken, Works, UpdateCommit, Owning, Handling
  <2> QED
    BY <1>2, <2>1, <2>2, <2>3 DEF UpdateCommit, boot
<1>3. ASSUME Revive(l) \/ RecordSpend(l) \/ UpdateRead(l) \/ FailExperiment(l)
               \/ WorkerTells(l) \/ BaseFails(l)
      PROVE  /\ \A m \in Lanes : Works(m, j)' => Works(m, j)
             /\ status' = status /\ stale' = stale /\ claims' = claims
  BY <1>3 DEF Works, Revive, RecordSpend, UpdateRead, FailExperiment, WorkerTells,
              BaseFails, Rest, Owning, Handling, TypeOK, table, boot
<1>4. /\ \A m \in Lanes : Works(m, j)' => Works(m, j)
      /\ \/ status'[j] = status[j]
         \/ status[j] = "absent" /\ status'[j] = "new"
         \/ Taken(j) /\ status'[j] \in {"new", "done", "error"}
      /\ stale' = stale /\ claims' = claims
  BY <1>1, <1>2, <1>3 DEF ThreadStep
<1>5. Taken(j)' => Taken(j)
  BY <1>4, NotTakenAnew
<1>6. ~(status[j] = "new" /\ status'[j] = "running")
  BY <1>4
<1> QED
  BY <1>4, <1>5, <1>6 DEF RowStep

LEMMA NextRowStep ==
  ASSUME IInv, [Next]_vars, NEW j \in Jobs
  PROVE  RowStep(j)
<1> USE DEF IInv
<1>1. CASE \E k \in Jobs : Enqueue(k) \/ BackoffEnds(k) \/ Pause(k) \/ Resume(k)
  <2>1. /\ \/ status'[j] = status[j]
           \/ status[j] = "absent" /\ status'[j] = "new"
           \/ status[j] = "new" /\ status'[j] = "paused"
           \/ status[j] = "paused" /\ status'[j] = "new"
        /\ UNCHANGED <<thread, stale, claims>>
    BY <1>1 DEF Enqueue, BackoffEnds, Pause, Resume, Move, TypeOK, boot
  <2>2. Taken(j)' => Taken(j)
    BY <2>1 DEF Taken, Works, thread
  <2> QED
    BY <2>1, <2>2 DEF RowStep
<1>2. CASE \E c \in Clients : ClientStep(c)
  <2>1. /\ \/ status'[j] = status[j]
           \/ status[j] # "absent" /\ status'[j] = "cancelled"
        /\ UNCHANGED <<thread, stale, claims>>
    BY <1>2
    DEF ClientStep, CancelRead, CancelCommit, CancelTells, Custody, TypeOK, table, boot
  <2>2. Taken(j)' => Taken(j)
    BY <2>1 DEF Taken, Works, thread
  <2> QED
    BY <2>1, <2>2 DEF RowStep
<1>3. CASE BootStep \/ Crash
  <2>1. /\ \/ status'[j] = status[j]
           \/ j \in stale /\ status'[j] \in {"new", "error"}
        /\ \A k \in stale' : k \in stale \/ status[k] = "running"
        /\ claims' = claims
        /\ thread' = thread \/ \A l \in Lanes : pc'[l] = "idle"
    BY <1>3
    DEF BootStep, ReclaimRead, ReclaimCommit, ReclaimTells, WornOut, Crash, TypeOK, table
  <2>2. \A l \in Lanes : Works(l, j)' => Works(l, j)
    BY <2>1 DEF Works, Owning, Handling, thread
  <2>3. Taken(j)' => Taken(j)
    BY <2>1, <2>2, NotTakenAnew
  <2> QED
    BY <2>1, <2>3 DEF RowStep, Taken
<1>4. ASSUME NEW l \in Lanes, NEW k \in Jobs, Claim(l, k)
      PROVE  RowStep(j)
  <2>1. /\ status[k] = "new"
        /\ status' = [status EXCEPT ![k] = "running"]
        /\ claims' = [claims EXCEPT ![k] = claims[k] + 1]
        /\ pc' = [pc EXCEPT ![l] = "handling"]
        /\ held' = [held EXCEPT ![l] = k]
        /\ stale' = stale
    BY <1>4 DEF Claim, boot
  <2>2. CASE j = k
    BY <2>1, <2>2 DEF RowStep, TypeOK
  <2>3. CASE j # k
    <3>1. /\ status'[j] = status[j] /\ claims'[j] = claims[j]
          /\ \A m \in Lanes : Works(m, j)' => Works(m, j)
      BY <2>1, <2>3 DEF Works, TypeOK
    <3>2. Taken(j)' => Taken(j)
      BY <2>1, <3>1, NotTakenAnew
    <3> QED
      BY <3>1, <3>2 DEF RowStep
  <2> QED
    BY <2>2, <2>3
<1>5. ASSUME NEW l \in Lanes, ThreadStep(l) \/ BaseFails(l)
      PROVE  RowStep(j)
  BY <1>5, ThreadRowStep
<1>6. CASE UNCHANGED vars
  BY <1>6 DEF RowStep, Taken, Works, vars, table, thread, boot
<1> QED
  BY <1>1, <1>2, <1>3, <1>4, <1>5, <1>6 DEF Next

(* What the row's step is to somebody who sees only its phase. *)
LEMMA PhaseStep ==
  ASSUME Custody, Custody', TypeOK, TypeOK', NEW j \in Jobs, RowStep(j)
  PROVE  /\ \/ Phase(j)' = Phase(j)
            \/ <<Phase(j), Phase(j)'>> \in Lifecycle!Arrows
         /\ Phase(j)' \in Lifecycle!Phases
         /\ claims'[j] = claims[j] +
              (IF Phase(j) = "waiting" /\ Phase(j)' = "taken" THEN 1 ELSE 0)
<1>1. status[j] \in Statuses /\ status'[j] \in Statuses /\ claims[j] \in Nat
  BY DEF TypeOK
<1>2. Taken(j) => status[j] \in {"running", "cancelled"}
  BY TakenStatus
<1>3. Taken(j)' => status'[j] \in {"running", "cancelled"}
  BY DEF Custody, Taken, Works
<1>4. Phase(j) = IF status[j] = "absent" THEN "absent"
                 ELSE IF Taken(j) THEN "taken"
                 ELSE IF status[j] = "new" THEN "waiting"
                 ELSE IF status[j] = "paused" THEN "held" ELSE "ended"
  BY DEF Phase, Taken
<1>5. Phase(j)' = IF status'[j] = "absent" THEN "absent"
                  ELSE IF Taken(j)' THEN "taken"
                  ELSE IF status'[j] = "new" THEN "waiting"
                  ELSE IF status'[j] = "paused" THEN "held" ELSE "ended"
  BY DEF Phase, Taken
<1>6. (status[j] = "running" => Taken(j)) /\ (status'[j] = "running" => Taken(j)')
  BY DEF Taken
<1>7. CASE status'[j] = status[j]
  BY <1>1, <1>2, <1>3, <1>4, <1>5, <1>6, <1>7
  DEF RowStep, Lifecycle!Arrows, Lifecycle!Phases, Statuses, Active, Finished
<1>8. CASE status[j] \in {"absent", "new", "paused"} /\ status'[j] # status[j]
  <2>1. ~Taken(j)
    BY <1>2, <1>8
  <2>2. status'[j] \in {"new", "paused", "running", "cancelled"}
    BY <1>8, <2>1 DEF RowStep
  <2>3. /\ Phase(j) = IF status[j] = "absent" THEN "absent"
                      ELSE IF status[j] = "new" THEN "waiting" ELSE "held"
        /\ Phase(j)' = IF status'[j] = "new" THEN "waiting"
                       ELSE IF status'[j] = "paused" THEN "held"
                       ELSE IF Taken(j)' THEN "taken" ELSE "ended"
    BY <1>3, <1>4, <1>5, <1>6, <1>8, <2>1, <2>2
  <2>4. status'[j] = "cancelled" => ~Taken(j)'
    BY <1>8, <2>1, <2>2 DEF RowStep
  <2> QED
    BY <1>1, <1>6, <1>8, <2>1, <2>2, <2>3
    DEF RowStep, Lifecycle!Arrows, Lifecycle!Phases
<1>9. CASE status[j] \in {"running", "done", "error", "cancelled"}
           /\ status'[j] # status[j]
  <2>1. \/ status'[j] = "cancelled"
        \/ Taken(j) /\ status'[j] \in {"new", "done", "error"}
    BY <1>9 DEF RowStep
  <2>2. /\ Phase(j) = IF Taken(j) THEN "taken" ELSE "ended"
        /\ Phase(j)' \in {"waiting", "taken", "ended"}
        /\ Phase(j)' # "ended" => Taken(j)
    BY <1>1, <1>2, <1>3, <1>4, <1>5, <1>6, <1>9, <2>1 DEF RowStep
  <2> QED
    BY <1>1, <1>9, <2>2 DEF RowStep, Lifecycle!Arrows, Lifecycle!Phases
<1> QED
  BY <1>1, <1>7, <1>8, <1>9 DEF Statuses, Active, Finished

(* Whoever touches the row and in whatever order: work on a job begins only *)
(* from the line, at most MaxTurns times, and an ended job never comes back.*)
THEOREM Implements == Spec => KeepsLifecycle
<1> DEFINE phase == [j \in Jobs |-> Phase(j)]
<1>1. Init => Lifecycle!Init
  <2> SUFFICES ASSUME Init PROVE Lifecycle!Init
    OBVIOUS
  <2>1. \A j \in Jobs : Phase(j) \in {"absent", "waiting"}
    BY DEF Init, Phase, Works, Owning, Handling
  <2> QED
    BY <2>1 DEF Init, Lifecycle!Init
<1>2. ASSUME IInv, IInv', [Next]_vars
      PROVE  Lifecycle!Next
  <2>1. \A j \in Jobs :
          /\ \/ Phase(j)' = Phase(j)
             \/ <<Phase(j), Phase(j)'>> \in Lifecycle!Arrows
          /\ Phase(j)' \in Lifecycle!Phases
          /\ claims'[j] = claims[j] +
               (IF Phase(j) = "waiting" /\ Phase(j)' = "taken" THEN 1 ELSE 0)
    BY <1>2, NextRowStep, PhaseStep DEF IInv
  <2>2. \A j \in Jobs : claims'[j] <= MaxTurns
    <3>1. IInv' => ClaimsBounded'
      BY BoundedByInvariant, PTL
    <3> QED
      BY <1>2, <3>1 DEF ClaimsBounded, MaxTurns
  <2>3. claims' \in [Jobs -> Nat]
    BY <1>2 DEF IInv, TypeOK
  <2> QED
    BY <2>1, <2>2, <2>3 DEF Lifecycle!Next, Lifecycle!Cost
<1>3. Lifecycle!Init /\ [][Lifecycle!Next]_<<phase, claims>> => Lifecycle!Spec
  BY DEF Lifecycle!Spec
<1> QED
  BY <1>1, <1>2, <1>3, Inductive, PTL DEF Spec, KeepsLifecycle

-----------------------------------------------------------------------------
(* What the end of a job tells: its notice, its spend, and the experiment  *)
(* that waits on it.  Where no process and no base failed, a running       *)
(* experiment has a job that still owes it an end, and that job is a judge *)
(* once the run has one.                                                   *)

(* A NULL spend never comes back, and a thread writes its row after the spend. *)
SpendIsFirst ==
  /\ \A j \in Jobs : spent[j] >= Null
  /\ outages = 0 =>
       /\ \A j \in Jobs : status[j] = "done" => spent[j] # Null
       /\ \A l \in Lanes : pc[l] \in {"spent", "updating"} => spent[held[l]] # Null

Calm == crashes = 0 /\ outages = 0

(* the first boot finds nothing to take back *)
FirstBoot == stale = {} /\ died = {} /\ (worker # "up" => \A j \in Jobs : status[j] # "running")

Tells(j) == announced[j] \/ \E l \in Lanes : held[l] = j /\ pc[l] \in {"failing", "announcing"}
EndsAreTold == \A j \in Jobs : status[j] \in {"done", "error"} => Tells(j)

(* a refused job is over; a cancel that was seen stays *)
RefusedIsOver ==
  /\ \A j \in Jobs : why[j] = "refused" => status[j] \in {"error", "cancelled"}
  /\ \A l \in Lanes : pc[l] \in Owning => why[held[l]] # "refused"
SeenCancelStays == \A l \in Lanes : pc[l] = "updating" /\ sawCancel[l] => status[held[l]] = "cancelled"

(* a cancel fails the experiment, and only a rejudge comes back from that *)
CancelFails ==
  \A j \in ExperimentJobs : status[j] = "cancelled" /\ RunOf[j] \in Runs \ Rejudged => experiment[RunOf[j]] # "running"

(* what still owes the experiment of its run an end *)
Owes(l) ==
  \/ pc[l] \in Handling \/ pc[l] = "failing"
  \/ pc[l] \in {"spending", "spent", "updating"} /\ verdict[l] \notin {"none", "done"}
Carries(j) ==
  \/ status[j] \in {"new", "paused"}
  \/ \E l \in Lanes : held[l] = j /\ Owes(l)
  \/ why[j] = "refused"
  \/ RunOf[j] \in Rejudged /\ status[j] = "cancelled" /\ ~Racing(j)
Waited(r) ==
  experiment[r] = "running" =>
    \E j \in ExperimentJobs :
      /\ RunOf[j] = r /\ Carries(j)
      /\ j \in Judges \/ \A k \in Judges : RunOf[k] = r => status[k] = "absent"

CalmInv ==
  Calm => /\ FirstBoot /\ EndsAreTold /\ RefusedIsOver /\ SeenCancelStays /\ CancelFails
          /\ \A r \in Runs : Waited(r)
EndInv == SpendIsFirst /\ CalmInv

-----------------------------------------------------------------------------
LEMMA InitEndInv == Init => EndInv
<1> SUFFICES ASSUME Init
             PROVE  EndInv
  OBVIOUS
<1>1. SpendIsFirst
  BY DEF Init, SpendIsFirst, Null
<1>0. ExperimentJobs \subseteq Jobs
  BY TableAssumption DEF ExperimentJobs
<1>2. FirstBoot /\ EndsAreTold /\ RefusedIsOver /\ SeenCancelStays /\ CancelFails
  BY <1>0 DEF Init, FirstBoot, EndsAreTold, RefusedIsOver, SeenCancelStays, CancelFails, Owning, Handling
<1>3. ASSUME NEW r \in Runs
      PROVE  Waited(r)
  <2>1. PICK j \in Queued : RunOf[j] = r
    BY WaitAssumption
  <2>2. j \in ExperimentJobs /\ j \in Jobs /\ status[j] = "new"
    BY <2>1, TableAssumption DEF Init, ExperimentJobs
  <2>3. j \in Judges \/ \A k \in Judges : RunOf[k] = r => status[k] = "absent"
    BY <2>1, TableAssumption DEF Init
  <2> QED
    BY <2>1, <2>2, <2>3 DEF Waited, Carries
<1> QED
  BY <1>1, <1>2, <1>3 DEF EndInv, CalmInv

-----------------------------------------------------------------------------
(* The spend. *)

LEMMA NextSpend ==
  ASSUME IInv, SpendIsFirst, [Next]_vars
  PROVE  SpendIsFirst'
<1> USE DEF IInv, TypeOK, SpendIsFirst, Null
<1>1. CASE \E j \in Jobs : Enqueue(j) \/ BackoffEnds(j) \/ Pause(j) \/ Resume(j)
  BY <1>1 DEF Enqueue, BackoffEnds, Pause, Resume, Move, thread, faults
<1>2. CASE \E c \in Clients : ClientStep(c)
  <2>1. ASSUME NEW c \in Clients, CancelCommit(c)
        PROVE  SpendIsFirst'
    <3>1. \A j \in Jobs : spent'[j] \in {spent[j], 0} /\ (status'[j] = "done" => status[j] = "done")
      BY <2>1 DEF CancelCommit
    <3>2. outages' = 0 => outages = 0
      BY <2>1 DEF CancelCommit
    <3>3. \A l \in Lanes : pc[l] \in {"spent", "updating"} => held[l] \in Jobs
      BY DEF Custody
    <3> QED
      BY <2>1, <3>1, <3>2, <3>3 DEF CancelCommit, thread
  <2> QED
    BY <1>2, <2>1 DEF ClientStep, CancelRead, CancelTells, table, thread, faults
<1>3. CASE BootStep \/ Crash
  BY <1>3 DEF BootStep, ReclaimRead, ReclaimCommit, ReclaimTells, Crash, table, thread, faults
<1>4. ASSUME NEW l \in Lanes, NEW j \in Jobs, Claim(l, j)
      PROVE  SpendIsFirst'
  BY <1>4 DEF Claim, faults
<1>5. ASSUME NEW l \in Lanes, ThreadStep(l)
      PROVE  SpendIsFirst'
  <2>0. \A m \in Lanes : pc[m] # "idle" => held[m] \in Jobs
    BY DEF Custody
  <2>1. CASE HandlerEnds(l)
    BY <2>1, HandlerWrites DEF Ends, faults
  <2>2. CASE RecordSpend(l)
    BY <2>0, <2>2 DEF RecordSpend, faults
  <2>3. CASE UpdateCommit(l)
    BY <2>0, <2>3 DEF UpdateCommit, WriteRow, AfterUpdate, faults
  <2>4. CASE Revive(l) \/ UpdateRead(l) \/ FailExperiment(l) \/ WorkerTells(l)
    BY <2>4 DEF Revive, UpdateRead, FailExperiment, WorkerTells, Rest, Handling, table, faults
  <2> QED
    BY <1>5, <2>1, <2>2, <2>3, <2>4 DEF ThreadStep
<1>6. ASSUME NEW l \in Lanes, BaseFails(l)
      PROVE  SpendIsFirst'
  BY <1>6 DEF BaseFails, table
<1>7. CASE UNCHANGED vars
  BY <1>7 DEF vars, table, thread, faults
<1> QED
  BY <1>1, <1>2, <1>3, <1>4, <1>5, <1>6, <1>7 DEF Next

-----------------------------------------------------------------------------
(* The notice and the experiment, where nothing failed. *)

CalmParts == FirstBoot /\ EndsAreTold /\ RefusedIsOver /\ SeenCancelStays /\ CancelFails /\ \A r \in Runs : Waited(r)

(* The jobs of a run that waits keep carrying it. *)
LEMMA WaitedKept ==
  ASSUME NEW r \in Runs, Waited(r), experiment'[r] = "running" => experiment[r] = "running",
         experiment'[r] = "running" => \A j \in ExperimentJobs : RunOf[j] = r => (Carries(j) => Carries(j)'),
         \A k \in Judges : RunOf[k] = r /\ status[k] = "absent" => status'[k] = "absent"
  PROVE  Waited(r)'
  BY DEF Waited

(* A step that leaves the threads, the boot and the experiments alone and writes only rows nobody took. *)
LEMMA TableOnlyCalm ==
  ASSUME IInv, CalmParts, UNCHANGED <<thread, boot, experiment, announced, why>>,
         \A k \in Jobs : status'[k] # status[k] =>
           /\ status[k] \in {"new", "paused"} \/ (status[k] = "absent" /\ (k \notin ExperimentJobs \/ RunOf[k] = NoRun))
           /\ status'[k] \in {"new", "paused"}
  PROVE  CalmParts'
<1> USE DEF IInv, TypeOK, CalmParts, thread, boot
<1>0. \A l \in Lanes : pc[l] # "idle" => held[l] \in Jobs
  BY DEF Custody
<1>1. FirstBoot' /\ EndsAreTold' /\ RefusedIsOver' /\ CancelFails'
  BY <1>0, TableAssumption DEF FirstBoot, EndsAreTold, Tells, RefusedIsOver, CancelFails, ExperimentJobs, Owning, Handling
<1>2. SeenCancelStays'
  BY <1>0 DEF SeenCancelStays
<1>3. ASSUME NEW r \in Runs
      PROVE  Waited(r)'
  <2>1. \A j \in ExperimentJobs : Carries(j) => Carries(j)'
    BY TableAssumption DEF Carries, Owes, Racing, ExperimentJobs
  <2>2. \A k \in Judges : RunOf[k] = r /\ status[k] = "absent" => status'[k] = "absent"
    BY TableAssumption DEF ExperimentJobs
  <2> QED
    BY <2>1, <2>2, WaitedKept
<1> QED
  BY <1>1, <1>2, <1>3

LEMMA DoorsCalm ==
  ASSUME IInv, CalmParts, NEW j \in Jobs, Enqueue(j) \/ BackoffEnds(j) \/ Pause(j) \/ Resume(j)
  PROVE  CalmParts'
<1>1. UNCHANGED <<thread, boot, experiment, announced, why>>
  BY DEF Enqueue, BackoffEnds, Pause, Resume, Move
<1>2. \A k \in Jobs : status'[k] # status[k] =>
           /\ status[k] \in {"new", "paused"} \/ (status[k] = "absent" /\ (k \notin ExperimentJobs \/ RunOf[k] = NoRun))
           /\ status'[k] \in {"new", "paused"}
  BY DEF Enqueue, BackoffEnds, Pause, Resume, Move, IInv, TypeOK
<1> QED
  BY <1>1, <1>2, TableOnlyCalm

LEMMA CancelCalm ==
  ASSUME IInv, CalmParts, Calm, Calm', NEW c \in Clients, CancelCommit(c)
  PROVE  CalmParts'
<1> USE DEF IInv, TypeOK, CalmParts, thread, boot
<1>1. /\ status' = [j \in Jobs |-> IF j \in rows[c] THEN "cancelled" ELSE status[j]]
      /\ FailRunningOn(StrandedBy(rows[c]))
      /\ UNCHANGED <<thread, boot, announced, why>>
  BY DEF CancelCommit, Calm
<1>2. \A l \in Lanes : pc[l] # "idle" => held[l] \in Jobs
  BY DEF Custody
<1>3. FirstBoot' /\ EndsAreTold'
  BY <1>1, <1>2 DEF FirstBoot, EndsAreTold, Tells
<1>4. RefusedIsOver' /\ SeenCancelStays'
  BY <1>1, <1>2 DEF RefusedIsOver, SeenCancelStays, Owning, Handling
<1>5. \A r \in Runs : experiment'[r] = "running" =>
        experiment[r] = "running" /\ \A j \in ExperimentJobs : RunOf[j] = r => j \notin rows[c]
  BY <1>1 DEF FailRunningOn, StrandedBy
<1>6. CancelFails'
  BY <1>1, <1>5, TableAssumption DEF CancelFails, ExperimentJobs
<1>7. ASSUME NEW r \in Runs, experiment'[r] = "running"
      PROVE  Waited(r)'
  <2>1. \A j \in ExperimentJobs : RunOf[j] = r => status'[j] = status[j]
    BY <1>1, <1>5, <1>7, TableAssumption DEF ExperimentJobs
  <2>2. \A j \in ExperimentJobs : RunOf[j] = r => (Carries(j) => Carries(j)')
    BY <1>1, <2>1 DEF Carries, Owes, Racing
  <2>3. \A k \in Judges : RunOf[k] = r /\ status[k] = "absent" => status'[k] = "absent"
    BY <2>1 DEF ExperimentJobs
  <2> QED
    BY <1>5, <1>7, <2>2, <2>3, WaitedKept
<1> QED
  BY <1>3, <1>4, <1>6, <1>7 DEF Waited

(* The boot: with no crash there is nothing to take back. *)
LEMMA BootCalm ==
  ASSUME IInv, CalmParts, BootStep
  PROVE  CalmParts'
<1> USE DEF IInv, TypeOK, CalmParts, thread
<1>1. /\ \A j \in Jobs : status'[j] = status[j] /\ why'[j] = why[j] /\ (announced[j] => announced'[j])
      /\ stale' = {} /\ died' = {} /\ worker # "up" /\ UNCHANGED <<thread, experiment>>
  BY DEF BootStep, ReclaimRead, ReclaimCommit, ReclaimTells, FirstBoot, WornOut, Announce, table
<1>2. \A l \in Lanes : pc[l] # "idle" => held[l] \in Jobs
  BY DEF Custody
<1>3. FirstBoot' /\ EndsAreTold' /\ RefusedIsOver' /\ SeenCancelStays' /\ CancelFails'
  BY <1>1, <1>2, TableAssumption
     DEF FirstBoot, EndsAreTold, Tells, RefusedIsOver, SeenCancelStays, CancelFails, Owning, Handling, ExperimentJobs
<1>4. ASSUME NEW r \in Runs
      PROVE  Waited(r)'
  <2>1. \A j \in ExperimentJobs : Carries(j) => Carries(j)'
    BY <1>1, TableAssumption DEF Carries, Owes, Racing, ExperimentJobs, FirstBoot
  <2>2. \A k \in Judges : RunOf[k] = r /\ status[k] = "absent" => status'[k] = "absent"
    BY <1>1, TableAssumption
  <2> QED
    BY <1>1, <2>1, <2>2, WaitedKept
<1> QED
  BY <1>3, <1>4

LEMMA ClaimCalm ==
  ASSUME IInv, CalmParts, NEW l \in Lanes, NEW j \in Jobs, Claim(l, j)
  PROVE  CalmParts'
<1> USE DEF IInv, TypeOK, CalmParts
<1>1. /\ worker = "up" /\ pc[l] = "idle" /\ status[j] = "new"
      /\ status' = [status EXCEPT ![j] = "running"]
      /\ pc' = [pc EXCEPT ![l] = "handling"] /\ held' = [held EXCEPT ![l] = j]
      /\ UNCHANGED <<why, experiment, verdict, sawCancel, boot, announced>>
  BY DEF Claim
<1>2. \A m \in Lanes : pc[m] # "idle" => held[m] \in Jobs
  BY DEF Custody
<1>3. FirstBoot' /\ EndsAreTold'
  BY <1>1 DEF FirstBoot, EndsAreTold, Tells, boot
<1>4. RefusedIsOver' /\ SeenCancelStays'
  BY <1>1, <1>2 DEF RefusedIsOver, SeenCancelStays, Owning, Handling
<1>5. CancelFails'
  BY <1>1, TableAssumption DEF CancelFails, ExperimentJobs
<1>6. ASSUME NEW r \in Runs
      PROVE  Waited(r)'
  <2>1. Carries(j)'
    BY <1>1 DEF Carries, Owes, Handling
  <2>2. ASSUME NEW k \in Jobs, k # j, Carries(k)
        PROVE  Carries(k)'
    <3>1. \A m \in Lanes : held[m] = k /\ Owes(m) => held'[m] = k /\ Owes(m)'
      BY <1>1 DEF Owes, Handling
    <3>2. Racing(k)' => Racing(k)
      BY <1>1, <2>2 DEF Racing, boot
    <3> QED
      BY <1>1, <2>2, <3>1, <3>2 DEF Carries
  <2>3. \A k \in Judges : RunOf[k] = r /\ status[k] = "absent" => status'[k] = "absent"
    BY <1>1, TableAssumption
  <2> QED
    BY <1>1, <2>1, <2>2, <2>3, WaitedKept, TableAssumption DEF ExperimentJobs
<1> QED
  BY <1>3, <1>4, <1>5, <1>6

-----------------------------------------------------------------------------
(* A thread's step. *)

LEMMA EndsExperiment ==
  ASSUME IInv, NEW l \in Lanes, HandlerEnds(l), NEW r \in Runs, experiment'[r] = "running"
  PROVE  experiment[r] = "running"
  BY DEF IInv, TypeOK, HandlerEnds, HandlerRefused, EvalRunDone, JudgeDone, OtherDone, HandlerDefers, HandlerRaises,
         FailRunningOn

LEMMA ThreadTells ==
  ASSUME IInv, CalmParts, NEW l \in Lanes, ThreadStep(l)
  PROVE  FirstBoot' /\ EndsAreTold' /\ RefusedIsOver' /\ SeenCancelStays' /\ CancelFails'
<1> USE DEF IInv, TypeOK, CalmParts
<1>0. /\ \A m \in Lanes : pc[m] # "idle" => held[m] \in Jobs /\ worker = "up"
      /\ ExperimentJobs \subseteq Jobs
  BY TableAssumption DEF Custody, ExperimentJobs
<1>1. CASE HandlerEnds(l)
  <2>1. PICK v, o : Ends(l, v, o)
    BY <1>1, HandlerWrites
  <2>2. /\ \A k \in Jobs : status'[k] # status[k] => status[k] = "absent" /\ status'[k] = "new"
        /\ UNCHANGED <<why, boot, announced>>
    BY <1>1, HandlerWrites
  <2>3. FirstBoot'
    BY <1>0, <2>1, <2>2 DEF FirstBoot, Ends, Handling, boot
  <2>4. EndsAreTold'
    BY <2>1, <2>2 DEF EndsAreTold, Tells, Ends, Handling
  <2>5. RefusedIsOver'
    BY <1>0, <2>1, <2>2 DEF RefusedIsOver, Ends, Handling, Owning
  <2>6. SeenCancelStays'
    BY <1>0, <2>1, <2>2 DEF SeenCancelStays, Ends, Handling
  <2>7. CancelFails'
    BY <1>0, <1>1, <2>2, EndsExperiment DEF CancelFails
  <2> QED
    BY <2>3, <2>4, <2>5, <2>6, <2>7
<1>2. CASE UpdateCommit(l)
  <2>1. pc[l] = "updating" /\ held[l] \in Jobs /\ worker = "up" /\ held[l] # None
    BY <1>0, <1>2, TableAssumption DEF UpdateCommit
  <2>2. \A m \in Lanes \ {l} : held[m] # held[l] /\ pc'[m] = pc[m]
    BY <1>2, <2>1, HeldApart DEF UpdateCommit
  <2>3. /\ \A k \in Jobs : k # held[l] => status'[k] = status[k] /\ why'[k] = why[k]
        /\ UNCHANGED <<held, sawCancel, announced, boot, experiment>> /\ pc'[l] \in {"failing", "announcing"}
        /\ status'[held[l]] \in {status[held[l]], "new", "done", "error"}
    BY <1>2 DEF UpdateCommit, WriteRow, AfterUpdate
  <2>4. why'[held[l]] = "refused" => status'[held[l]] = "error"
    BY <1>2, <2>1 DEF UpdateCommit, WriteRow, RefusedIsOver, Owning, GivesBack
  <2>5. FirstBoot' /\ EndsAreTold'
    BY <1>0, <2>1, <2>2, <2>3 DEF FirstBoot, EndsAreTold, Tells, boot
  <2>6. RefusedIsOver'
    BY <1>0, <2>2, <2>3, <2>4 DEF RefusedIsOver, Owning, Handling
  <2>7. SeenCancelStays' /\ CancelFails'
    BY <1>0, <2>2, <2>3 DEF SeenCancelStays, CancelFails
  <2> QED
    BY <2>5, <2>6, <2>7
<1>3. CASE WorkerTells(l)
  <2>1. /\ pc[l] = "announcing" /\ Announce({held[l]}) /\ UNCHANGED <<status, why, experiment, worker, stale, died>>
        /\ pc' = [pc EXCEPT ![l] = "idle"] /\ held' = [held EXCEPT ![l] = None]
        /\ sawCancel' = [sawCancel EXCEPT ![l] = FALSE]
    BY <1>3 DEF WorkerTells, Rest, table, boot
  <2>2. FirstBoot' /\ CancelFails'
    BY <2>1 DEF FirstBoot, CancelFails
  <2>3. EndsAreTold'
    <3>1. ASSUME NEW j \in Jobs, status[j] \in {"done", "error"}
          PROVE  announced'[j] \/ \E m \in Lanes : held'[m] = j /\ pc'[m] \in {"failing", "announcing"}
      <4>1. announced[j] => announced'[j]
        BY <2>1 DEF Announce
      <4>2. j = held[l] => announced'[j]
        BY <2>1, <3>1 DEF Announce, Finished
      <4>3. \A m \in Lanes : held[m] = j /\ j # held[l] => held'[m] = j /\ pc'[m] = pc[m]
        BY <2>1
      <4> QED
        BY <3>1, <4>1, <4>2, <4>3 DEF EndsAreTold, Tells
    <3> QED
      BY <2>1, <3>1 DEF EndsAreTold, Tells
  <2>4. RefusedIsOver' /\ SeenCancelStays'
    BY <1>0, <2>1 DEF RefusedIsOver, SeenCancelStays, Owning, Handling
  <2> QED
    BY <2>2, <2>3, <2>4
<1>4. CASE Revive(l)
  BY <1>0, <1>4 DEF Revive, FirstBoot, EndsAreTold, Tells, RefusedIsOver, SeenCancelStays, CancelFails,
         Owning, Handling, table, boot
<1>5. CASE RecordSpend(l) \/ UpdateRead(l)
  <2>1. /\ UNCHANGED <<status, why, experiment, worker, stale, died, announced, held>> /\ pc[l] \in {"spending", "spent"}
        /\ pc' = [pc EXCEPT ![l] = IF pc[l] = "spending" THEN "spent" ELSE "updating"]
        /\ \A m \in Lanes : sawCancel'[m] # sawCancel[m] => m = l
        /\ pc[l] = "spent" => sawCancel'[l] = (status[held[l]] = "cancelled")
    BY <1>5 DEF RecordSpend, UpdateRead, table, boot
  <2>2. FirstBoot' /\ CancelFails'
    BY <2>1 DEF FirstBoot, CancelFails
  <2>3. EndsAreTold'
    BY <2>1 DEF EndsAreTold, Tells
  <2>4. RefusedIsOver'
    BY <1>0, <2>1 DEF RefusedIsOver, Owning, Handling
  <2>5. SeenCancelStays'
    BY <1>0, <2>1 DEF SeenCancelStays
  <2> QED
    BY <2>2, <2>3, <2>4, <2>5
<1>6. CASE FailExperiment(l)
  BY <1>0, <1>6 DEF FailExperiment, FailRunningOn, FirstBoot, EndsAreTold, Tells, RefusedIsOver, SeenCancelStays,
         CancelFails, Owning, Handling, table, boot
<1> QED
  BY <1>1, <1>2, <1>3, <1>4, <1>5, <1>6 DEF ThreadStep

(* What a thread does to its own row is nothing to what another row owes. *)
LEMMA OthersCarry ==
  ASSUME NEW l \in Lanes, NEW j \in Jobs, j # held[l], Carries(j), held'[l] \in {held[l], None}, UNCHANGED stale,
         \A m \in Lanes \ {l} : /\ pc'[m] = pc[m] /\ held'[m] = held[m]
                                /\ verdict'[m] = verdict[m] /\ sawCancel'[m] = sawCancel[m],
         status'[j] = status[j] \/ status'[j] = "new", why'[j] = why[j]
  PROVE  Carries(j)'
<1>1. \A m \in Lanes : held[m] = j /\ Owes(m) => held'[m] = j /\ Owes(m)'
  BY DEF Owes
<1>2. Racing(j)' => Racing(j)
  BY TableAssumption DEF Racing
<1> QED
  BY <1>1, <1>2 DEF Carries

(* A handler that ends and is not done still owes. *)
LEMMA OpenWaited ==
  ASSUME IInv, CalmParts, NEW l \in Lanes, NEW v \in Verdicts \ {"none", "done"}, NEW o, Ends(l, v, o),
         UNCHANGED <<status, why, experiment, stale>>, NEW r \in Runs
  PROVE  Waited(r)'
<1> USE DEF IInv, TypeOK, CalmParts
<1>1. \A j \in ExperimentJobs : Carries(j) => Carries(j)'
  <2> SUFFICES ASSUME NEW j \in ExperimentJobs, Carries(j)
               PROVE  Carries(j)'
    OBVIOUS
  <2>1. CASE j = held[l]
    BY <2>1 DEF Carries, Owes, Ends
  <2>2. CASE j # held[l]
    BY <2>2, OthersCarry, TableAssumption DEF Ends, ExperimentJobs
  <2> QED
    BY <2>1, <2>2
<1> QED
  BY <1>1, WaitedKept

LEMMA EvalRunWaited ==
  ASSUME IInv, CalmParts, NEW l \in Lanes, EvalRunDone(l), NEW r \in Runs
  PROVE  Waited(r)'
<1> USE DEF IInv, TypeOK, CalmParts
<1> DEFINE j == held[l]
<1>1. /\ j \in EvalRuns /\ j \notin Judges /\ j \in ExperimentJobs /\ RunOf[j] \in Runs \ Rejudged
      /\ ExperimentJobs \subseteq Jobs
  BY TableAssumption DEF EvalRunDone, ExperimentJobs
<1>2. /\ Ends(l, "done", snap[l]) /\ UNCHANGED <<why, experiment, stale>>
      /\ QueuesJudge(RunOf[j]) \/ status' = status
  BY DEF EvalRunDone, boot
<1>3. \A k \in ExperimentJobs : k # j /\ Carries(k) => Carries(k)'
  BY <1>1, <1>2, OthersCarry DEF Ends, QueuesJudge
<1>4. CASE r # RunOf[j]
  <2>1. \A k \in Judges : RunOf[k] = r /\ status[k] = "absent" => status'[k] = "absent"
    BY <1>1, <1>2, <1>4 DEF QueuesJudge, ExperimentJobs
  <2> QED
    BY <1>2, <1>3, <1>4, <2>1, WaitedKept
<1>5. CASE r = RunOf[j] /\ QueuesJudge(r)
  BY <1>1, <1>5 DEF QueuesJudge, Waited, Carries, ExperimentJobs
<1>6. CASE r = RunOf[j] /\ SawCancel(l)
  BY <1>1, <1>2, <1>6 DEF SawCancel, CancelFails, Waited
<1>7. CASE r = RunOf[j] /\ NoJudgeLeft(r) /\ status' = status
  <2>1. PICK k \in Judges : RunOf[k] = r /\ status[k] # "absent"
    BY <1>1, <1>7, TableAssumption DEF NoJudgeLeft
  <2>2. experiment[r] = "running" => \E i \in Judges : i \in ExperimentJobs /\ RunOf[i] = r /\ Carries(i)
    BY <2>1 DEF Waited
  <2> QED
    BY <1>1, <1>2, <1>3, <2>2 DEF Waited
<1> QED
  BY <1>4, <1>5, <1>6, <1>7 DEF EvalRunDone

LEMMA JudgeWaited ==
  ASSUME IInv, CalmParts, NEW l \in Lanes, JudgeDone(l), NEW r \in Runs
  PROVE  Waited(r)'
<1> USE DEF IInv, TypeOK, CalmParts
<1>0. PICK j \in Jobs : j = held[l]
  BY TableAssumption DEF JudgeDone
<1>1. j = held[l] /\ j \in Judges /\ j \in ExperimentJobs /\ ExperimentJobs \subseteq Jobs /\ j # None
  BY <1>0, TableAssumption DEF JudgeDone, ExperimentJobs
<1>2. Ends(l, "done", snap[l]) /\ UNCHANGED <<why, stale>> /\ (QueuesJudge(RunOf[j]) \/ status' = status)
  BY <1>0 DEF JudgeDone, boot
<1>3. \A k \in ExperimentJobs : k # j /\ Carries(k) => Carries(k)'
  BY <1>1, <1>2, OthersCarry DEF Ends, QueuesJudge
<1>4. CASE r # RunOf[j]
  <2>1. \A k \in Judges : RunOf[k] = r /\ status[k] = "absent" => status'[k] = "absent"
    BY <1>1, <1>2, <1>4 DEF QueuesJudge, ExperimentJobs
  <2>2. experiment'[r] = "running" => experiment[r] = "running"
    BY <1>4 DEF JudgeDone, FailRunningOn
  <2> QED
    BY <1>2, <1>3, <1>4, <2>1, <2>2, WaitedKept
<1>5. CASE r = RunOf[j] /\ QueuesJudge(r)
  BY <1>1, <1>5 DEF QueuesJudge, Waited, Carries, ExperimentJobs
<1>6. CASE r = RunOf[j] /\ SawCancel(l) /\ UNCHANGED <<status, experiment>>
  <2>1. CASE r \notin Rejudged
    BY <1>1, <1>6, <2>1 DEF SawCancel, CancelFails, Waited
  <2>2. CASE r \in Rejudged
    <3>1. \A m \in Lanes : pc'[m] = "updating" => held'[m] # j
      BY <1>1, <1>2, HeldApart DEF Ends
    <3>2. ~Racing(j)'
      BY <1>2, <3>1 DEF Racing, FirstBoot
    <3> QED
      BY <1>1, <1>6, <2>2, <3>2 DEF SawCancel, Waited, Carries
  <2> QED
    BY <2>1, <2>2
<1>7. CASE r = RunOf[j] /\ experiment'[r] # "running"
  BY <1>7 DEF Waited
<1> QED
  BY <1>1, <1>4, <1>5, <1>6, <1>7, TableAssumption DEF JudgeDone, FailRunningOn

LEMMA UpdateWaited ==
  ASSUME IInv, CalmParts, NEW l \in Lanes, UpdateCommit(l), NEW r \in Runs
  PROVE  Waited(r)'
<1> USE DEF IInv, TypeOK, CalmParts
<1>0. PICK j \in Jobs : j = held[l]
  BY DEF UpdateCommit, Custody
<1>1. /\ pc[l] = "updating" /\ j = held[l] /\ j # None /\ status[j] \in {"running", "cancelled"} /\ why[j] # "refused"
      /\ ExperimentJobs \subseteq Jobs
  BY <1>0, TableAssumption DEF UpdateCommit, Custody, RefusedIsOver, Owning, ExperimentJobs
<1>2. /\ \A k \in Jobs : k # j => status'[k] = status[k] /\ why'[k] = why[k]
      /\ UNCHANGED <<held, verdict, sawCancel, stale, experiment>>
      /\ pc' = [pc EXCEPT ![l] = AfterUpdate(l)]
  BY <1>0 DEF UpdateCommit, WriteRow, boot
<1>3. \A k \in ExperimentJobs : k # j /\ Carries(k) => Carries(k)'
  BY <1>1, <1>2, OthersCarry
<1>4. \A m \in Lanes : m # l => held[m] # j
  BY <1>1, HeldApart
<1>5. ASSUME j \in ExperimentJobs, RunOf[j] = r, experiment[r] = "running", Carries(j)
      PROVE  Carries(j)'
  <2>1. CASE sawCancel[l]
    <3>1. status[j] = "cancelled" /\ status'[j] = "cancelled"
      BY <1>1, <2>1 DEF SeenCancelStays, UpdateCommit
    <3>2. r \in Rejudged
      BY <1>5, <3>1 DEF CancelFails
    <3>3. ~Racing(j)'
      BY <1>1, <1>2, <1>4 DEF Racing, FirstBoot, AfterUpdate
    <3> QED
      BY <1>5, <3>1, <3>2, <3>3 DEF Carries
  <2>2. CASE ~sawCancel[l]
    <3>1. Racing(j)
      BY <1>1, <2>2 DEF Racing
    <3>2. verdict[l] \in Verdicts \ {"none", "done"}
      BY <1>1, <1>4, <1>5, <3>1 DEF Carries, Owes, Handling
    <3>3. CASE verdict[l] \in GivesBack
      BY <1>1, <2>2, <3>3 DEF UpdateCommit, WriteRow, Carries
    <3>4. CASE verdict[l] \in Strands
      <4>1. pc'[l] = "failing" /\ held'[l] = j
        BY <1>1, <1>2, <1>5, <3>4, TableAssumption DEF AfterUpdate
      <4> QED
        BY <4>1 DEF Carries, Owes
    <3>5. CASE verdict[l] = "refused"
      BY <1>1, <2>2, <3>5 DEF UpdateCommit, WriteRow, Carries, FailKinds
    <3> QED
      BY <3>2, <3>3, <3>4, <3>5 DEF Verdicts
  <2> QED
    BY <2>1, <2>2
<1>6. \A k \in Judges : RunOf[k] = r /\ status[k] = "absent" => status'[k] = "absent"
  BY <1>1, <1>2 DEF ExperimentJobs
<1> QED
  BY <1>2, <1>3, <1>5, <1>6, WaitedKept

LEMMA ThreadWaited ==
  ASSUME IInv, CalmParts, NEW l \in Lanes, ThreadStep(l), NEW r \in Runs
  PROVE  Waited(r)'
<1> USE DEF IInv, TypeOK, CalmParts
<1>0. ExperimentJobs \subseteq Jobs
  BY TableAssumption DEF ExperimentJobs
<1>1. CASE HandlerRefused(l)
  BY <1>1, OpenWaited DEF HandlerRefused, Verdicts, table, boot
<1>2. ASSUME NEW d \in Delays, HandlerDefers(l, d)
      PROVE  Waited(r)'
  <2>1. UNCHANGED <<status, why, experiment, stale>>
    BY <1>2 DEF HandlerDefers, table, boot
  <2>2. PICK v, o : v \in {"deferred_out", "defer"} /\ Ends(l, v, o)
    BY <1>2 DEF HandlerDefers
  <2> QED
    BY <2>1, <2>2, OpenWaited DEF Verdicts, GivesBack, Strands
<1>3. CASE HandlerRaises(l)
  <2>1. UNCHANGED <<status, why, experiment, stale>>
    BY <1>3 DEF HandlerRaises, table, boot
  <2>2. PICK v, o : v \in {"retry", "exhausted", "final"} /\ Ends(l, v, o)
    BY <1>3 DEF HandlerRaises, RetryOf
  <2> QED
    BY <2>1, <2>2, OpenWaited DEF Verdicts, GivesBack, Strands
<1>4. CASE OtherDone(l)
  <2>1. UNCHANGED <<status, why, experiment, stale>> /\ Ends(l, "done", snap[l]) /\ held[l] \notin ExperimentJobs
    BY <1>4 DEF OtherDone, table, boot
  <2>2. \A j \in ExperimentJobs : Carries(j) => Carries(j)'
    BY <1>0, <2>1, OthersCarry DEF Ends
  <2> QED
    BY <2>1, <2>2, WaitedKept
<1>5. CASE Revive(l)
  <2>1. /\ held[l] \in Judges /\ held'[l] = held[l] /\ pc'[l] = "judging" /\ UNCHANGED <<status, why, stale>>
        /\ \A s \in Runs : s # RunOf[held[l]] => experiment'[s] = experiment[s]
    BY <1>5 DEF Revive, table, boot
  <2>2. CASE r = RunOf[held[l]]
    BY <2>1, <2>2 DEF Waited, Carries, Owes, Handling, ExperimentJobs
  <2>3. CASE r # RunOf[held[l]]
    <3>1. \A j \in ExperimentJobs : RunOf[j] = r => (Carries(j) => Carries(j)')
      BY <1>0, <1>5, <2>1, <2>3, OthersCarry DEF Revive
    <3> QED
      BY <2>1, <2>3, <3>1, WaitedKept
  <2> QED
    BY <2>2, <2>3
<1>6. CASE RecordSpend(l) \/ UpdateRead(l) \/ WorkerTells(l)
  <2>1. UNCHANGED <<status, why, experiment, stale>>
    BY <1>6 DEF RecordSpend, UpdateRead, WorkerTells, table, boot
  <2>2. ASSUME NEW j \in ExperimentJobs, Carries(j)
        PROVE  Carries(j)'
    <3>1. CASE j # held[l]
      BY <1>0, <1>6, <2>1, <2>2, <3>1, OthersCarry DEF RecordSpend, UpdateRead, WorkerTells, Rest
    <3>2. CASE j = held[l] /\ (RecordSpend(l) \/ UpdateRead(l))
      <4>1. Owes(l) => Owes(l)' /\ held'[l] = j
        BY <3>2 DEF RecordSpend, UpdateRead, Owes, Handling
      <4>2. \A m \in Lanes \ {l} : held[m] # j
        BY <1>0, <3>2, HeldApart, TableAssumption
      <4>3. status[j] = "cancelled" => ~Racing(j)'
        BY <2>1, <3>2, <4>2 DEF RecordSpend, UpdateRead, Racing, FirstBoot
      <4> QED
        BY <2>1, <2>2, <4>1, <4>2, <4>3 DEF Carries
    <3>3. CASE j = held[l] /\ WorkerTells(l)
      <4>1. ~Owes(l) /\ \A m \in Lanes \ {l} : held[m] # j
        BY <1>0, <3>3, HeldApart, TableAssumption DEF WorkerTells, Owes, Handling
      <4>2. Racing(j)' => Racing(j)
        BY <3>3, <2>1 DEF WorkerTells, Rest, Racing
      <4> QED
        BY <2>1, <2>2, <4>1, <4>2 DEF Carries
    <3> QED
      BY <1>6, <3>1, <3>2, <3>3
  <2> QED
    BY <2>1, <2>2, WaitedKept
<1>7. CASE FailExperiment(l)
  <2>1. UNCHANGED <<status, why, stale>> /\ FailRunningOn({RunOf[held[l]]})
    BY <1>7 DEF FailExperiment, table, boot
  <2>2. CASE r = RunOf[held[l]]
    BY <2>1, <2>2 DEF FailRunningOn, Waited
  <2>3. CASE r # RunOf[held[l]]
    <3>1. \A j \in ExperimentJobs : RunOf[j] = r => (Carries(j) => Carries(j)')
      BY <1>0, <1>7, <2>1, <2>3, OthersCarry DEF FailExperiment
    <3> QED
      BY <2>1, <2>3, <3>1, WaitedKept DEF FailRunningOn
  <2> QED
    BY <2>2, <2>3
<1> QED
  BY <1>1, <1>2, <1>3, <1>4, <1>5, <1>6, <1>7, EvalRunWaited, JudgeWaited, UpdateWaited DEF ThreadStep, HandlerEnds

-----------------------------------------------------------------------------
LEMMA NextCalm ==
  ASSUME IInv, CalmInv, [Next]_vars
  PROVE  CalmInv'
<1> SUFFICES ASSUME Calm'
             PROVE  CalmParts'
  BY DEF CalmInv, CalmParts
<1>1. Calm
  <2>1. CASE \E c \in Clients : CancelCommit(c)
    BY <2>1 DEF CancelCommit, Calm, IInv, TypeOK
  <2>2. CASE (\E l \in Lanes : BaseFails(l)) \/ Crash
    BY <2>2 DEF BaseFails, Crash, Calm, IInv, TypeOK
  <2>3. ASSUME NEW l \in Lanes, ThreadStep(l)
        PROVE  Calm
    BY <2>3 DEF ThreadStep, HandlerEnds, HandlerRefused, EvalRunDone, JudgeDone, OtherDone, HandlerDefers, HandlerRaises,
                Revive, RecordSpend, UpdateRead, UpdateCommit, FailExperiment, WorkerTells, Calm, faults
  <2>4. CASE UNCHANGED faults
    BY <2>4 DEF Calm, faults
  <2> QED
    BY <2>1, <2>2, <2>3, <2>4
       DEF Next, Enqueue, BackoffEnds, Pause, Resume, Move, ClientStep, CancelRead, CancelTells, BootStep, ReclaimRead,
           ReclaimCommit, ReclaimTells, Claim, vars
<1>2. CalmParts
  BY <1>1 DEF CalmInv, CalmParts
<1>3. ASSUME NEW c \in Clients, ClientStep(c)
      PROVE  CalmParts'
  <2>1. CASE CancelCommit(c)
    BY <1>1, <1>2, <2>1, CancelCalm
  <2>2. CASE (\E ids \in SUBSET Jobs : CancelRead(c, ids)) \/ CancelTells(c)
    <3>1. /\ UNCHANGED <<table, experiment, thread, boot>>
          /\ \A j \in Jobs : announced[j] => announced'[j]
      BY <2>2 DEF CancelRead, CancelTells, Announce
    <3> QED
      BY <1>2, <3>1, TableAssumption
         DEF CalmParts, FirstBoot, EndsAreTold, Tells, RefusedIsOver, SeenCancelStays, CancelFails, Waited, Carries,
             Owes, Racing, table, thread, boot
  <2> QED
    BY <1>3, <2>1, <2>2 DEF ClientStep
<1>4. ~Crash /\ \A l \in Lanes : ~BaseFails(l)
  BY <1>1 DEF Calm, Crash, BaseFails, IInv, TypeOK
<1>5. ASSUME NEW l \in Lanes, ThreadStep(l)
      PROVE  CalmParts'
  BY <1>2, <1>5, ThreadTells, ThreadWaited DEF CalmParts
<1>6. CASE UNCHANGED vars
  BY <1>2, <1>6
     DEF CalmParts, FirstBoot, EndsAreTold, Tells, RefusedIsOver, SeenCancelStays, CancelFails, Waited, Carries, Owes,
         Racing, vars, table, thread, boot
<1> QED
  BY <1>2, <1>3, <1>4, <1>5, <1>6, DoorsCalm, BootCalm, ClaimCalm DEF Next

THEOREM EndInductive == Spec => []EndInv
<1>1. Init => EndInv
  BY InitEndInv
<1>2. IInv /\ EndInv /\ [Next]_vars => EndInv'
  BY NextSpend, NextCalm DEF EndInv
<1> QED
  BY <1>1, <1>2, Inductive, PTL DEF Spec

LEMMA StrandedWasSkipped == IInv /\ EndInv => StrandedOnlyWhereSkipped
<1> SUFFICES ASSUME IInv, EndInv, NEW r \in Runs, Stranded(r), crashes + outages = 0
             PROVE  \E j \in ExperimentJobs :
                      RunOf[j] = r /\ (why[j] = "refused" \/ (r \in Rejudged /\ status[j] = "cancelled"))
  BY DEF StrandedOnlyWhereSkipped
<1>1. PICK j \in ExperimentJobs : RunOf[j] = r /\ Carries(j)
  BY DEF IInv, TypeOK, EndInv, CalmInv, Calm, Waited, Stranded
<1> QED
  BY <1>1 DEF IInv, TypeOK, Carries, Stranded, Settled, Active

(* Where no process and no base failed, an experiment is left running with  *)
(* every job of its run over only after a job that was refused, or a judge  *)
(* of a rejudge that was cancelled: the two places the code passes over.    *)
THEOREM StrandedWhereSkipped == Spec => []StrandedOnlyWhereSkipped
  BY StrandedWasSkipped, Inductive, EndInductive, PTL

(* job_queue.py, worker.py: the notice of an ended job, its spend, and the  *)
(* experiment that waits on it.                                             *)
THEOREM EndsAreHeard == Spec => []EndIsTold
<1>1. ASSUME IInv, EndInv
      PROVE  EndIsTold
  <2>1. EndedIsAnnounced
    BY <1>1 DEF IInv, TypeOK, EndInv, CalmInv, Calm, EndsAreTold, Tells, EndedIsAnnounced, Settled
  <2>2. DoneHasSpend
    BY <1>1 DEF IInv, TypeOK, EndInv, SpendIsFirst, DoneHasSpend
  <2> QED
    BY <1>1, <2>1, <2>2, StrandedWasSkipped DEF EndIsTold
<1> QED
  BY <1>1, Inductive, EndInductive, PTL

-----------------------------------------------------------------------------
(* A rejudge: its copies, its arms and its report, beside the queue.       *)

RejudgeRuns == {J!Source} \cup ArmsOf
RejudgeVerdict == [model : {"none", "m1", "m2"}, version : {"none", "v1", "v2"}, of : RejudgeRuns, score : {"none", "low", "high"}]
RejudgeRow == [text : {"error", "answer"}, ver : [J!Axes -> RejudgeVerdict], settled : SUBSET RejudgeRuns,
               failed : SUBSET J!Axes, skipped : SUBSET J!Axes]

(* the rows of every run are over the questions, an error carries no verdict, and a door that looked *)
(* holds what the experiment was then                                                                *)
AnswersTyped ==
  /\ \A r \in DOMAIN answers : answers[r] \in [Questions -> RejudgeRow]
  /\ \A r \in DOMAIN answers, q \in Questions : answers[r][q].text = "error" => answers[r][q].ver = J!Unjudged
DoorLooked ==
  /\ exp.status \in {"none", "running", "aggregated"} /\ (exp.status = "none" => exp.arms = {} /\ report = J!NoReport)
  /\ asked.step \in {"none", "looked"}
  /\ asked.step = "looked" => /\ exp.status # "running" /\ asked.arms \subseteq ArmsOf /\ asked.arms \cap exp.arms = {}
                              /\ exp.status = "aggregated" => asked.control = exp.control

(* nothing answered anew: every run holds the texts of its source *)
TextsOfSource == "source" \notin moved =>
  \A r \in DOMAIN answers, q \in Questions : answers[r][q].text = answers[J!Source][q].text

(* a row is passed over whole or not at all: every control outside the sample, once its pass met it *)
SkipsAreControls == \A a \in exp.arms, q \in Questions :
  LET row == answers[a][q]
  IN  /\ row.skipped \in {{}, J!Controls(a)}
      /\ (~exp.control \/ q \in J!Sample(a) \/ row.text = "error") => row.skipped = {}
      /\ exp.control /\ q \notin J!Sample(a) /\ row.text # "error" =>
           row.skipped = J!Controls(a) \/ (row.ver = J!Unjudged /\ row.failed = {})
NothingIsOwed == exp.status = "aggregated" => \A a \in exp.arms, q \in Questions : J!Owed(a, q) = {}

(* the control a door saw, while nothing moved *)
ControlWasSeen == asked.step = "looked" /\ ~asked.unpaired /\ moved = {} /\ J!Models(J!Source) # {} =>
  \E a \in asked.arms \cup exp.arms : J!Reproduces(a)

ReportPairs == report # J!NoReport => \A c \in DOMAIN report.deltas : LET d == report.deltas[c] IN
  /\ \A axis \in J!Axes : \A p \in d.paired[axis] : p.a = p.b
  /\ d.same => \A q \in Questions : d.texts[1][q] = d.texts[2][q]

RecordsInv ==
  /\ J!RjTypeOK /\ AnswersTyped /\ DoorLooked /\ TextsOfSource /\ SkipsAreControls /\ NothingIsOwed
  /\ J!ArmIsAsNamed /\ J!SettledByItsVerdict /\ J!ControlStands /\ ControlWasSeen /\ ReportPairs
RecordsStand == which = "rejudge" => RecordsInv

(* The source is no arm, and an arm names what its form holds. *)
LEMMA ArmsName ==
  /\ J!Source \notin ArmsOf
  /\ \A a \in ArmsOf : /\ J!Named(a, "model") \in {"none", "m2"}
                       /\ J!Named(a, "model") # "none" => J!Named(a, "model") = a.model
                       /\ \A axis \in J!Axes : /\ J!Named(a, axis) \in {"none", "v2"}
                                               /\ J!Named(a, axis) # "none" => J!Named(a, axis) = a[axis]
<1> DEFINE x == [repeat |-> "x"]
           y == [faithfulness |-> "v2"]
           z == [relevance |-> "v2", model |-> "m2"]
           s == [source |-> "run"]
<1>1. /\ DOMAIN x = {"repeat"} /\ DOMAIN y = {"faithfulness"} /\ DOMAIN z = {"relevance", "model"} /\ DOMAIN s = {"source"}
      /\ y["faithfulness"] = "v2" /\ z["relevance"] = "v2" /\ z["model"] = "m2"
  OBVIOUS
<1>2. s # x /\ s # y /\ s # z
  BY <1>1
<1>3. J!Source = s /\ ArmsOf = {x, y, z}
  BY DEF J!Source, ArmsOf
<1> HIDE DEF x, y, z, s
<1>4. J!Source \notin ArmsOf
  BY <1>2, <1>3
<1>5. ASSUME NEW a \in ArmsOf
      PROVE  /\ J!Named(a, "model") \in {"none", "m2"}
             /\ J!Named(a, "model") # "none" => J!Named(a, "model") = a["model"]
             /\ \A axis \in J!Axes : /\ J!Named(a, axis) \in {"none", "v2"}
                                     /\ J!Named(a, axis) # "none" => J!Named(a, axis) = a[axis]
  BY <1>1, <1>3, <1>5 DEF J!Named, J!Unset, J!Axes
<1> QED
  BY <1>4, <1>5

(* What an arm is judged by now is a judge and a version, and no verdict of theirs is none. *)
LEMMA EffectiveIs ==
  ASSUME J!RjTypeOK, NEW a \in ArmsOf, NEW axis \in J!Axes
  PROVE  /\ J!Effective(a, axis).model \in {"m1", "m2"} /\ J!Effective(a, axis).version \in {"v1", "v2"}
         /\ J!Named(a, "model") # J!Unset => J!Effective(a, axis).model = a.model
         /\ J!Named(a, axis) # J!Unset => J!Effective(a, axis).version = a[axis]
  BY ArmsName DEF J!RjTypeOK, J!Effective, J!Unset

(* Every run is over every question. *)
LEMMA RowsAre ==
  ASSUME J!RjTypeOK, AnswersTyped
  PROVE  /\ DOMAIN answers = {J!Source} \cup exp.arms
         /\ \A r \in DOMAIN answers : DOMAIN answers[r] = Questions
         /\ \A r \in DOMAIN answers, q \in Questions : answers[r][q] \in RejudgeRow
         /\ \A r \in DOMAIN answers, q \in Questions : J!Has(q, r)
         /\ \A a \in exp.arms : J!ArmRun(a) = a /\ J!RowsOf(a) = Questions
<1>1. \A a \in exp.arms : J!ArmRun(a) = a
  BY DEF J!ArmRun
<1>2. {J!ArmRun(a) : a \in exp.arms} = exp.arms
  BY <1>1
<1>3. DOMAIN answers = {J!Source} \cup exp.arms
  BY <1>2 DEF J!RjTypeOK
<1>4. \A r \in DOMAIN answers : answers[r] \in [Questions -> RejudgeRow]
  BY DEF AnswersTyped
<1>5. \A r \in DOMAIN answers, q \in Questions : J!Has(q, r)
  BY <1>4 DEF J!Has
<1> QED
  BY <1>1, <1>3, <1>4, <1>5 DEF J!RowsOf, J!Has

(* What the source says of its judges, and which arm repeats them, is read off its rows, the seat and the prompts. *)
LEMMA SourceSays ==
  ASSUME UNCHANGED <<seat, active>>, answers'[J!Source] = answers[J!Source]
  PROVE  J!Models(J!Source)' = J!Models(J!Source) /\ \A a : J!Reproduces(a)' <=> J!Reproduces(a)
<1>1. \A axis : J!Scored(J!Source, axis)' = J!Scored(J!Source, axis)
  BY DEF J!Scored
<1>2. J!Models(J!Source)' = J!Models(J!Source)
  BY <1>1 DEF J!Models
<1>3. \A axis : J!Versions(J!Source, axis)' = J!Versions(J!Source, axis)
  BY <1>1 DEF J!Versions
<1>4. \A a, axis : J!Effective(a, axis)' = J!Effective(a, axis)
  BY DEF J!Effective
<1> QED
  BY <1>2, <1>3, <1>4 DEF J!Reproduces

(* One lemma for the start and one for each step. *)
LEMMA RejudgeInit == J!RjInit => RecordsInv
<1> SUFFICES ASSUME J!RjInit
             PROVE  RecordsInv
  OBVIOUS
<1>1. /\ seat = "m1" /\ active = [axis \in J!Axes |-> "v1"] /\ asked = J!NoRequest /\ report = J!NoReport
      /\ exp = [arms |-> {}, status |-> "none", control |-> FALSE, unpaired |-> FALSE] /\ moved = {} /\ moves = 0
  BY DEF J!RjInit
<1>2. PICK judged \in {"no", "clean", "mixed"}, low \in BOOLEAN, error \in Questions \cup {0} :
        answers = [run \in {J!Source} |-> J!SourceRows(judged, low, error)]
  BY Zenon DEF J!RjInit
<1> DEFINE VerOf(q) == [axis \in J!Axes |-> J!Verdict("m1", IF judged = "mixed" /\ q = 1 THEN "v2" ELSE "v1",
                                                      J!Source, IF low /\ q = 1 THEN "low" ELSE "high")]
           RowAt(q) == IF q = error THEN J!Row("error", J!Unjudged, {})
                       ELSE IF judged = "no" THEN J!Row("answer", J!Unjudged, {})
                       ELSE J!Row("answer", VerOf(q),
                                  IF (IF low /\ q = 1 THEN "low" ELSE "high") = "low" THEN {J!Source} ELSE {})
<1>3. DOMAIN answers = {J!Source} /\ answers[J!Source] = [q \in Questions |-> RowAt(q)]
  BY <1>2 DEF J!SourceRows
<1>4. ASSUME NEW q \in Questions
      PROVE  /\ RowAt(q) \in RejudgeRow
             /\ RowAt(q).text = "error" => RowAt(q).ver = J!Unjudged
             /\ RowAt(q).ver["faithfulness"] # J!NoVerdict =>
                  RowAt(q).settled = IF RowAt(q).ver["faithfulness"].score = "low" THEN {J!Source} ELSE {}
  <2>1. J!Unjudged \in [J!Axes -> RejudgeVerdict] /\ VerOf(q) \in [J!Axes -> RejudgeVerdict]
    BY DEF J!Unjudged, J!NoVerdict, J!Unset, J!Verdict, RejudgeVerdict, RejudgeRuns
  <2>2. J!Unjudged["faithfulness"] = J!NoVerdict
        /\ VerOf(q)["faithfulness"].score = IF low /\ q = 1 THEN "low" ELSE "high"
    BY DEF J!Unjudged, J!Verdict, J!Axes
  <2> HIDE DEF VerOf
  <2> QED
    BY <2>1, <2>2 DEF J!Row, RejudgeRow, RejudgeRuns
<1> HIDE DEF RowAt
<1>5. J!RjTypeOK
  BY <1>1, <1>3, RejudgeAssumption DEF J!RjTypeOK
<1>6. AnswersTyped
  BY <1>3, <1>4 DEF AnswersTyped
<1>7. DoorLooked /\ TextsOfSource /\ SkipsAreControls /\ NothingIsOwed /\ ControlWasSeen /\ ReportPairs
  BY <1>1, <1>3 DEF DoorLooked, TextsOfSource, SkipsAreControls, NothingIsOwed, ControlWasSeen, ReportPairs, J!NoRequest
<1>8. J!ArmIsAsNamed /\ J!ControlStands
  BY <1>1 DEF J!ArmIsAsNamed, J!ControlStands
<1>9. J!SettledByItsVerdict
  <2> SUFFICES ASSUME NEW run \in DOMAIN answers, NEW q \in DOMAIN answers[run],
                      answers[run][q].ver["faithfulness"] # J!NoVerdict
               PROVE  answers[run][q].settled = IF answers[run][q].ver["faithfulness"].score = "low" THEN {run} ELSE {}
    BY Zenon DEF J!SettledByItsVerdict
  <2>1. run = J!Source /\ q \in Questions /\ answers[run][q] = RowAt(q)
    BY <1>3
  <2> QED
    BY <1>4, <2>1
<1> QED
  BY <1>5, <1>6, <1>7, <1>8, <1>9 DEF RecordsInv

LEMMA RejudgeLooks ==
  ASSUME RecordsInv, J!Looks
  PROVE  RecordsInv'
<1> USE DEF J!Looks
<1>1. PICK arms \in SUBSET ArmsOf, control \in BOOLEAN :
        /\ arms # {} /\ arms \cap exp.arms = {}
        /\ exp.status = "aggregated" => control = exp.control
        /\ asked' = [step |-> "looked", arms |-> arms, control |-> control,
                     unpaired |-> ~J!Paired(arms \cup exp.arms) \/ exp.unpaired]
  OBVIOUS
<1>2. UNCHANGED <<seat, active, answers, exp, report, moves>> /\ (exp.status = "none" => moved' = {})
      /\ (exp.status # "none" => moved' = moved)
  OBVIOUS
<1>3. asked'.step = "looked" /\ asked'.arms = arms /\ asked'.control = control
      /\ (asked'.unpaired <=> ~J!Paired(arms \cup exp.arms) \/ exp.unpaired)
  BY <1>1
<1>4. J!RjTypeOK' /\ AnswersTyped' /\ J!ArmIsAsNamed' /\ J!SettledByItsVerdict' /\ SkipsAreControls' /\ NothingIsOwed' /\ ReportPairs'
  <2>1. J!RjTypeOK' /\ AnswersTyped' /\ ReportPairs'
    BY <1>2 DEF RecordsInv, J!RjTypeOK, AnswersTyped, ReportPairs
  <2>2. J!ArmIsAsNamed' /\ J!SettledByItsVerdict'
    BY <1>2 DEF RecordsInv, J!ArmIsAsNamed, J!SettledByItsVerdict, J!RowsOf, J!Has
  <2>3. SkipsAreControls' /\ NothingIsOwed'
    BY <1>2 DEF RecordsInv, SkipsAreControls, NothingIsOwed, J!Sample, J!Answered, J!Owed
  <2> QED
    BY <2>1, <2>2, <2>3
<1>5. DoorLooked'
  BY <1>1, <1>2, <1>3 DEF RecordsInv, DoorLooked
<1>6. TextsOfSource' /\ J!ControlStands'
  <2>1. CASE exp.status = "none"
    <3>1. DOMAIN answers = {J!Source}
      BY <2>1, RowsAre DEF RecordsInv, DoorLooked
    <3> QED
      BY <1>2, <2>1, <3>1 DEF TextsOfSource, J!ControlStands
  <2>2. CASE exp.status # "none"
    BY <1>2, <2>2, SourceSays DEF RecordsInv, TextsOfSource, J!ControlStands
  <2> QED
    BY <2>1, <2>2
<1>7. ControlWasSeen'
  <2>1. J!Paired(arms \cup exp.arms) /\ J!Models(J!Source) # {} => \E a \in arms \cup exp.arms : J!Reproduces(a)
    BY DEF J!Paired
  <2> QED
    BY <1>2, <1>3, <2>1, SourceSays DEF ControlWasSeen
<1> QED
  BY <1>4, <1>5, <1>6, <1>7 DEF RecordsInv

LEMMA RejudgeMakes ==
  ASSUME RecordsInv, J!Makes
  PROVE  RecordsInv'
<1>1. /\ asked.step = "looked" /\ asked' = J!NoRequest /\ UNCHANGED <<seat, active, report, moved, moves>>
      /\ exp' = [arms |-> exp.arms \cup asked.arms, status |-> "running", control |-> asked.control,
                 unpaired |-> asked.unpaired]
  BY DEF J!Makes
<1>2. /\ exp.status \in {"none", "aggregated"} /\ (exp.status = "none" => exp.arms = {})
      /\ (exp.status = "aggregated" => asked.control = exp.control)
      /\ asked.arms \subseteq ArmsOf /\ asked.arms \cap exp.arms = {} /\ J!Source \notin asked.arms
  BY <1>1, ArmsName DEF RecordsInv, DoorLooked
<1>3. /\ DOMAIN answers' = DOMAIN answers \cup asked.arms
      /\ \A r \in DOMAIN answers \cup asked.arms : answers'[r] = IF r \in asked.arms THEN J!Copy(r) ELSE answers[r]
  BY DEF J!Makes, J!ArmRun
<1>4. /\ DOMAIN answers = {J!Source} \cup exp.arms
      /\ \A r \in DOMAIN answers, q \in Questions : answers[r][q] \in RejudgeRow
      /\ \A r \in DOMAIN answers : DOMAIN answers[r] = Questions
  BY RowsAre DEF RecordsInv
<1>5. \A r \in DOMAIN answers : answers'[r] = answers[r]
  BY <1>2, <1>3, <1>4
<1>6. ASSUME NEW a \in asked.arms
      PROVE  /\ answers'[a] \in [Questions -> RejudgeRow]
             /\ \A q \in Questions : /\ answers'[a][q].text = answers[J!Source][q].text /\ answers'[a][q].ver = J!Unjudged
                                     /\ answers'[a][q].failed = {} /\ answers'[a][q].skipped = {}
  <2>1. answers'[a] = [q \in Questions |-> [answers[J!Source][q] EXCEPT !.ver = J!Unjudged, !.failed = {}, !.skipped = {}]]
    BY <1>3, <1>4 DEF J!Copy
  <2>2. J!Unjudged \in [J!Axes -> RejudgeVerdict]
    BY DEF J!Unjudged, J!NoVerdict, J!Unset, RejudgeVerdict, RejudgeRuns
  <2>3. ASSUME NEW q \in Questions
        PROVE  /\ answers'[a][q] \in RejudgeRow
               /\ answers'[a][q].text = answers[J!Source][q].text /\ answers'[a][q].ver = J!Unjudged
               /\ answers'[a][q].failed = {} /\ answers'[a][q].skipped = {}
    <3>1. answers[J!Source][q] \in RejudgeRow
      BY <1>4
    <3>2. answers'[a][q] = [answers[J!Source][q] EXCEPT !.ver = J!Unjudged, !.failed = {}, !.skipped = {}]
      BY <2>1
    <3> QED
      BY <2>2, <3>1, <3>2 DEF RejudgeRow
  <2>4. answers'[a] \in [Questions -> RejudgeRow]
    BY <2>1, <2>3
  <2> QED
    BY <2>3, <2>4
<1>7. J!RjTypeOK'
  <2>1. \A S : {J!ArmRun(a) : a \in S} = S
    BY DEF J!ArmRun
  <2> QED
    BY <1>1, <1>2, <1>3, <1>4, <2>1 DEF RecordsInv, J!RjTypeOK
<1>8. AnswersTyped'
  BY <1>3, <1>5, <1>6 DEF RecordsInv, AnswersTyped
<1>9. DoorLooked' /\ NothingIsOwed' /\ ControlWasSeen'
  BY <1>1 DEF DoorLooked, NothingIsOwed, ControlWasSeen, J!NoRequest
<1>10. TextsOfSource'
  <2> SUFFICES ASSUME "source" \notin moved, NEW r \in DOMAIN answers \cup asked.arms, NEW q \in Questions
               PROVE  answers'[r][q].text = answers'[J!Source][q].text
    BY <1>1, <1>3 DEF TextsOfSource
  <2>1. answers'[J!Source] = answers[J!Source]
    BY <1>4, <1>5
  <2> QED
    BY <1>5, <1>6, <2>1 DEF RecordsInv, TextsOfSource
<1>11. SkipsAreControls'
  <2> SUFFICES ASSUME NEW a \in exp'.arms, NEW q \in Questions
               PROVE  LET row == answers'[a][q]
                      IN  /\ row.skipped \in {{}, J!Controls(a)}
                          /\ (~exp'.control \/ q \in J!Sample(a)' \/ row.text = "error") => row.skipped = {}
                          /\ exp'.control /\ q \notin J!Sample(a)' /\ row.text # "error" =>
                               row.skipped = J!Controls(a) \/ (row.ver = J!Unjudged /\ row.failed = {})
    BY DEF SkipsAreControls
  <2>1. CASE a \in asked.arms
    BY <1>6, <2>1
  <2>2. CASE a \in exp.arms
    <3>1. answers'[a] = answers[a] /\ exp'.control = exp.control
      BY <1>1, <1>2, <1>4, <1>5, <2>2
    <3>2. J!Sample(a)' = J!Sample(a)
      BY <3>1 DEF J!Sample, J!Answered
    <3> QED
      BY <2>2, <3>1, <3>2 DEF RecordsInv, SkipsAreControls
  <2> QED
    BY <1>1, <2>1, <2>2
<1>12. J!ArmIsAsNamed'
  <2> SUFFICES ASSUME NEW a \in exp'.arms, NEW q \in J!RowsOf(a)', NEW axis \in J!Axes,
                      answers'[a][q].ver[axis] # J!NoVerdict
               PROVE  LET v == answers'[a][q].ver[axis]
                      IN  /\ v.of = a
                          /\ J!Named(a, "model") # J!Unset => v.model = a.model
                          /\ J!Named(a, axis) # J!Unset => v.version = a[axis]
    BY DEF J!ArmIsAsNamed, J!ArmRun
  <2>1. q \in Questions
    BY DEF J!RowsOf
  <2>2. a \notin asked.arms
    BY <1>6, <2>1 DEF J!Unjudged
  <2>3. a \in exp.arms /\ answers'[a] = answers[a] /\ q \in J!RowsOf(a)
    BY <1>1, <1>4, <1>5, <2>1, <2>2, RowsAre DEF RecordsInv
  <2> QED
    BY <2>3 DEF RecordsInv, J!ArmIsAsNamed, J!ArmRun
<1>13. J!SettledByItsVerdict'
  <2> SUFFICES ASSUME NEW run \in DOMAIN answers', NEW q \in DOMAIN answers'[run],
                      answers'[run][q].ver["faithfulness"] # J!NoVerdict
               PROVE  answers'[run][q].settled = IF answers'[run][q].ver["faithfulness"].score = "low" THEN {run} ELSE {}
    BY Zenon DEF J!SettledByItsVerdict
  <2>1. run \notin asked.arms
    BY <1>6 DEF J!Unjudged, J!Axes
  <2>2. run \in DOMAIN answers /\ answers'[run] = answers[run]
    BY <1>3, <1>5, <2>1
  <2> QED
    BY <2>2 DEF RecordsInv, J!SettledByItsVerdict
<1>14. J!ControlStands'
  <2> SUFFICES ASSUME ~asked.unpaired, moved = {}, J!Models(J!Source)' # {}
               PROVE  \E a \in exp.arms \cup asked.arms : J!Reproduces(a)'
    BY <1>1 DEF J!ControlStands
  <2>1. answers'[J!Source] = answers[J!Source]
    BY <1>4, <1>5
  <2> QED
    BY <1>1, <2>1, SourceSays DEF RecordsInv, ControlWasSeen
<1>15. ReportPairs'
  BY <1>1 DEF RecordsInv, ReportPairs
<1> QED
  BY <1>7, <1>8, <1>9, <1>10, <1>11, <1>12, <1>13, <1>14, <1>15 DEF RecordsInv

(* A row of a pass: what it takes on, leaves and stamps is the row's own; every other stays. *)
LEMMA RejudgeJudges ==
  ASSUME RecordsInv, \E a \in ArmsOf, p \in Questions : J!JudgesArm(a, p)
  PROVE  RecordsInv'
<1>0. PICK arm \in ArmsOf, q \in Questions : J!JudgesArm(arm, q)
  OBVIOUS
<1>1. /\ exp.status = "running" /\ arm \in exp.arms /\ UNCHANGED <<seat, active, asked, exp, report, moved, moves>>
      /\ answers[arm][q].text # "error" /\ answers[arm][q] \in RejudgeRow
  <2>1. /\ exp.status = "running" /\ J!OwedRows # {} /\ <<arm, q>> = CHOOSE p \in J!OwedRows : TRUE
        /\ UNCHANGED <<seat, active, asked, exp, report, moved, moves>>
    BY <1>0 DEF J!JudgesArm
  <2>2. <<arm, q>> \in J!OwedRows
    BY <2>1
  <2>3. arm \in exp.arms /\ J!Owed(arm, q) # {}
    BY <2>2 DEF J!OwedRows
  <2> QED
    BY <2>1, <2>3, RowsAre DEF RecordsInv, J!Owed, J!ArmRun
<1>2. PICK new \in RejudgeRow :
        /\ answers' = [answers EXCEPT ![arm][q] = new]
        /\ new.text = answers[arm][q].text /\ new.skipped = answers[arm][q].skipped \cup J!SkippedOf(arm, q)
        /\ \A axis \in J!Axes : \/ new.ver[axis] = answers[arm][q].ver[axis]
                                \/ /\ new.ver[axis].of = arm
                                   /\ J!Named(arm, "model") # J!Unset => new.ver[axis].model = arm.model
                                   /\ J!Named(arm, axis) # J!Unset => new.ver[axis].version = arm[axis]
        /\ new.ver["faithfulness"] # J!NoVerdict =>
             new.settled = IF new.ver["faithfulness"].score = "low" THEN {arm} ELSE {}
  <2> DEFINE row == answers[arm][q]
             skip == J!SkippedOf(arm, q)
             takes == J!Owed(arm, q) \ skip
             Given(fails, score) == [axis \in J!Axes |-> IF axis \in takes \ fails
               THEN J!Verdict(J!Effective(arm, axis).model, J!Effective(arm, axis).version, arm, score) ELSE row.ver[axis]]
             Judged(fails, score) == [row EXCEPT !.ver = Given(fails, score), !.failed = @ \cup fails, !.skipped = @ \cup skip]
  <2>4. row \in RejudgeRow /\ row.text # "error"
    BY <1>1
  <2>5. PICK fails \in SUBSET takes, score \in {"low", "high"} :
          answers' = [answers EXCEPT ![arm][q] = [Judged(fails, score) EXCEPT !.settled = J!Settle(Judged(fails, score), arm)]]
    BY <1>0 DEF J!JudgesArm, J!ArmRun
  <2> DEFINE new == [Judged(fails, score) EXCEPT !.settled = J!Settle(Judged(fails, score), arm)]
  <2>6. skip \subseteq J!Axes /\ takes \subseteq J!Axes /\ arm \in RejudgeRuns
    BY DEF J!SkippedOf, J!Controls, J!Owed, J!ArmRun, RejudgeRuns
  <2>7. ASSUME NEW axis \in J!Axes
        PROVE  /\ Given(fails, score)[axis] \in RejudgeVerdict
               /\ \/ Given(fails, score)[axis] = row.ver[axis]
                  \/ /\ Given(fails, score)[axis].of = arm
                     /\ J!Named(arm, "model") # J!Unset => Given(fails, score)[axis].model = arm.model
                     /\ J!Named(arm, axis) # J!Unset => Given(fails, score)[axis].version = arm[axis]
    <3>1. CASE axis \in takes \ fails
      <4>1. Given(fails, score)[axis] = J!Verdict(J!Effective(arm, axis).model, J!Effective(arm, axis).version, arm, score)
        BY <3>1
      <4> QED
        BY <2>6, <4>1, EffectiveIs DEF RecordsInv, J!Verdict, RejudgeVerdict
    <3>2. CASE axis \notin takes \ fails
      BY <2>4, <3>2 DEF RejudgeRow
    <3> QED
      BY <3>1, <3>2
  <2>8. Given(fails, score) \in [J!Axes -> RejudgeVerdict]
    BY <2>7
  <2>9. /\ Judged(fails, score) = [row EXCEPT !.ver = Given(fails, score), !.failed = row.failed \cup fails,
                                              !.skipped = row.skipped \cup skip]
        /\ Judged(fails, score) \in RejudgeRow /\ Judged(fails, score).ver = Given(fails, score)
        /\ Judged(fails, score).text = row.text /\ Judged(fails, score).skipped = row.skipped \cup skip
    <3> HIDE DEF skip, Given
    <3> QED
      BY <2>4, <2>6, <2>8 DEF RejudgeRow
  <2>10. J!Settle(Judged(fails, score), arm) \in SUBSET RejudgeRuns
    <3> HIDE DEF Judged
    <3> QED
      BY <2>6, <2>9 DEF J!Settle, RejudgeRow
  <2>11. /\ new \in RejudgeRow /\ new.text = row.text /\ new.skipped = row.skipped \cup skip /\ new.ver = Given(fails, score)
         /\ new.ver["faithfulness"] # J!NoVerdict =>
              new.settled = IF new.ver["faithfulness"].score = "low" THEN {arm} ELSE {}
    <3>1. ASSUME Judged(fails, score).ver["faithfulness"] # J!NoVerdict
          PROVE  J!Settle(Judged(fails, score), arm) =
                   IF Judged(fails, score).ver["faithfulness"].score = "low" THEN {arm} ELSE {}
      BY <3>1 DEF J!Settle
    <3> HIDE DEF Judged, skip, Given
    <3> QED
      BY <2>9, <2>10, <3>1 DEF RejudgeRow
  <2> HIDE DEF new, Given, skip
  <2> QED
    BY <1>1, <2>4, <2>5, <2>7, <2>11 DEF new, skip
<1>3. /\ DOMAIN answers = {J!Source} \cup exp.arms
      /\ \A r \in DOMAIN answers, p \in Questions : answers[r][p] \in RejudgeRow
      /\ \A r \in DOMAIN answers : DOMAIN answers[r] = Questions
      /\ arm # J!Source /\ arm \in DOMAIN answers
  BY <1>1, RowsAre, ArmsName DEF RecordsInv
<1>4. /\ DOMAIN answers' = DOMAIN answers
      /\ \A r \in DOMAIN answers : r # arm => answers'[r] = answers[r]
      /\ answers'[arm] = [answers[arm] EXCEPT ![q] = new] /\ DOMAIN answers'[arm] = Questions
      /\ answers'[arm][q] = new /\ \A p \in Questions : p # q => answers'[arm][p] = answers[arm][p]
  BY <1>2, <1>3
<1>5. \A r \in DOMAIN answers, p \in Questions : answers'[r][p].text = answers[r][p].text
  BY <1>2, <1>3, <1>4
<1>6. J!RjTypeOK' /\ DoorLooked' /\ NothingIsOwed' /\ ReportPairs'
  BY <1>1, <1>4 DEF RecordsInv, J!RjTypeOK, DoorLooked, NothingIsOwed, ReportPairs
<1>7. AnswersTyped'
  <2>1. ASSUME NEW r \in DOMAIN answers
        PROVE  answers'[r] \in [Questions -> RejudgeRow]
    BY <1>2, <1>3, <1>4 DEF RecordsInv, AnswersTyped
  <2>2. ASSUME NEW r \in DOMAIN answers, NEW p \in Questions, answers'[r][p].text = "error"
        PROVE  answers'[r][p].ver = J!Unjudged
    <3>1. answers[r][p].text = "error"
      BY <1>5, <2>2
    <3>2. answers'[r][p] = answers[r][p]
      BY <1>1, <1>4, <2>2, <3>1
    <3> QED
      BY <3>1, <3>2 DEF RecordsInv, AnswersTyped
  <2> QED
    BY <1>4, <2>1, <2>2 DEF AnswersTyped
<1>8. TextsOfSource'
  BY <1>1, <1>3, <1>4, <1>5 DEF RecordsInv, TextsOfSource
<1>9. SkipsAreControls'
  <2> SUFFICES ASSUME NEW a \in exp.arms, NEW p \in Questions
               PROVE  LET row == answers'[a][p]
                      IN  /\ row.skipped \in {{}, J!Controls(a)}
                          /\ (~exp.control \/ p \in J!Sample(a)' \/ row.text = "error") => row.skipped = {}
                          /\ exp.control /\ p \notin J!Sample(a)' /\ row.text # "error" =>
                               row.skipped = J!Controls(a) \/ (row.ver = J!Unjudged /\ row.failed = {})
    BY <1>1 DEF SkipsAreControls
  <2>1. J!Sample(a)' = J!Sample(a)
    BY <1>3, <1>4, <1>5 DEF J!Sample, J!Answered
  <2>2. CASE a = arm /\ p = q
    <3>1. answers'[a][p] = new /\ J!SkippedOf(arm, q) = IF exp.control /\ q \notin J!Sample(arm) THEN J!Controls(arm) ELSE {}
      BY <1>4, <2>2 DEF J!SkippedOf, J!ArmRun
    <3>2. LET row == answers[a][p]
          IN  /\ row.skipped \in {{}, J!Controls(a)}
              /\ (~exp.control \/ p \in J!Sample(a) \/ row.text = "error") => row.skipped = {}
      BY DEF RecordsInv, SkipsAreControls
    <3>3. CASE exp.control /\ q \notin J!Sample(arm)
      <4>1. new.skipped = J!Controls(a)
        BY <1>2, <2>2, <3>1, <3>2, <3>3
      <4> QED
        BY <1>1, <1>2, <2>1, <2>2, <3>1, <3>3, <4>1
    <3>4. CASE ~(exp.control /\ q \notin J!Sample(arm))
      <4>1. new.skipped = {}
        BY <1>2, <2>2, <3>1, <3>2, <3>4
      <4> QED
        BY <2>1, <2>2, <3>1, <3>4, <4>1
    <3> QED
      BY <3>3, <3>4
  <2>3. CASE ~(a = arm /\ p = q)
    BY <1>3, <1>4, <2>1, <2>3 DEF RecordsInv, SkipsAreControls
  <2> QED
    BY <2>2, <2>3
<1>10. J!ArmIsAsNamed'
  <2> SUFFICES ASSUME NEW a \in exp.arms, NEW p \in J!RowsOf(a)', NEW axis \in J!Axes,
                      answers'[a][p].ver[axis] # J!NoVerdict
               PROVE  LET v == answers'[a][p].ver[axis]
                      IN  /\ v.of = a
                          /\ J!Named(a, "model") # J!Unset => v.model = a.model
                          /\ J!Named(a, axis) # J!Unset => v.version = a[axis]
    BY <1>1 DEF J!ArmIsAsNamed, J!ArmRun
  <2>1. p \in Questions /\ p \in J!RowsOf(a)
    BY RowsAre DEF RecordsInv, J!RowsOf
  <2>2. answers[a][p].ver[axis] # J!NoVerdict =>
          LET v == answers[a][p].ver[axis]
          IN  /\ v.of = a
              /\ J!Named(a, "model") # J!Unset => v.model = a.model
              /\ J!Named(a, axis) # J!Unset => v.version = a[axis]
    BY <2>1 DEF RecordsInv, J!ArmIsAsNamed, J!ArmRun
  <2>3. CASE a = arm /\ p = q
    BY <1>2, <1>4, <2>2, <2>3
  <2>4. CASE ~(a = arm /\ p = q)
    BY <1>3, <1>4, <2>1, <2>2, <2>4
  <2> QED
    BY <2>3, <2>4
<1>11. J!SettledByItsVerdict'
  <2> SUFFICES ASSUME NEW run \in DOMAIN answers, NEW p \in DOMAIN answers'[run],
                      answers'[run][p].ver["faithfulness"] # J!NoVerdict
               PROVE  answers'[run][p].settled = IF answers'[run][p].ver["faithfulness"].score = "low" THEN {run} ELSE {}
    BY <1>4, Zenon DEF J!SettledByItsVerdict
  <2>1. p \in Questions /\ p \in DOMAIN answers[run]
    BY <1>3, <1>4
  <2>2. CASE run = arm /\ p = q
    BY <1>2, <1>4, <2>2
  <2>3. CASE ~(run = arm /\ p = q)
    <3>1. answers'[run][p] = answers[run][p]
      BY <1>4, <2>1, <2>3
    <3> QED
      BY <2>1, <3>1 DEF RecordsInv, J!SettledByItsVerdict
  <2> QED
    BY <2>2, <2>3
<1>12. J!ControlStands' /\ ControlWasSeen'
  <2>1. answers'[J!Source] = answers[J!Source]
    BY <1>3, <1>4
  <2> QED
    BY <1>1, <2>1, SourceSays DEF RecordsInv, J!ControlStands, ControlWasSeen
<1> QED
  BY <1>6, <1>7, <1>8, <1>9, <1>10, <1>11, <1>12 DEF RecordsInv

(* Two runs a report pairs hold one text where both are scored: an answer; and where it says the   *)
(* same of them, every question's.                                                                 *)
LEMMA RejudgeAggregates ==
  ASSUME RecordsInv, J!Aggregates
  PROVE  RecordsInv'
<1>1. /\ exp.status = "running" /\ J!OwedRows = {} /\ report' = J!Results
      /\ exp' = [exp EXCEPT !.status = "aggregated"] /\ UNCHANGED <<seat, active, answers, asked, moved, moves>>
  BY DEF J!Aggregates
<1>2. exp'.arms = exp.arms /\ (exp'.control <=> exp.control) /\ (exp'.unpaired <=> exp.unpaired)
  BY <1>1
<1>3. /\ DOMAIN answers = {J!Source} \cup exp.arms
      /\ \A r \in DOMAIN answers, p \in Questions : answers[r][p] \in RejudgeRow
      /\ \A r \in DOMAIN answers : DOMAIN answers[r] = Questions
      /\ \A r \in DOMAIN answers, p \in Questions : J!Has(p, r)
      /\ \A a \in exp.arms : J!ArmRun(a) = a
  BY RowsAre DEF RecordsInv
<1>4. J!RjTypeOK' /\ AnswersTyped' /\ DoorLooked' /\ TextsOfSource' /\ J!ArmIsAsNamed' /\ J!SettledByItsVerdict'
  <2>1. J!RjTypeOK' /\ AnswersTyped' /\ DoorLooked'
    BY <1>1, <1>2 DEF RecordsInv, J!RjTypeOK, AnswersTyped, DoorLooked
  <2>2. TextsOfSource'
    BY <1>1 DEF RecordsInv, TextsOfSource
  <2>3. J!ArmIsAsNamed'
    BY <1>1, <1>2 DEF RecordsInv, J!ArmIsAsNamed, J!RowsOf, J!Has
  <2>4. J!SettledByItsVerdict'
    BY <1>1 DEF RecordsInv, J!SettledByItsVerdict
  <2> QED
    BY <2>1, <2>2, <2>3, <2>4
<1>5. SkipsAreControls'
  BY <1>1, <1>2 DEF RecordsInv, SkipsAreControls, J!Sample, J!Answered
<1>6. NothingIsOwed'
  <2> SUFFICES ASSUME NEW a \in exp.arms, NEW q \in Questions
               PROVE  J!Owed(a, q)' = {}
    BY <1>2 DEF NothingIsOwed
  <2>1. J!Owed(a, q)' = J!Owed(a, q)
    BY <1>1 DEF J!Owed
  <2>2. <<a, q>> \notin J!OwedRows
    BY <1>1
  <2>3. J!Has(q, J!ArmRun(a))
    BY <1>3
  <2> QED
    BY <2>1, <2>2, <2>3 DEF J!OwedRows
<1>7. J!ControlStands' /\ ControlWasSeen'
  <2>1. exp.status # "none"
    BY <1>1
  <2> QED
    BY <1>1, <1>2, <2>1, SourceSays DEF RecordsInv, J!ControlStands, ControlWasSeen
<1>8. ReportPairs'
  <2> DEFINE D(c) == [paired |-> [axis \in J!Axes |-> {[q |-> q, a |-> answers[c[1]][q].text, b |-> answers[c[2]][q].text] :
                                     q \in J!Scored(c[1], axis) \cap J!Scored(c[2], axis)}],
                      texts |-> <<J!Digest(c[1], Questions), J!Digest(c[2], Questions)>>,
                      same |-> J!SameAnswers(c[1], c[2])]
             Pairs == {p \in J!Compared \X J!Compared : p[1] # p[2]}
  <2>1. J!Results.deltas = [c \in Pairs |-> D(c)]
    BY DEF J!Results
  <2>2. ASSUME NEW c \in Pairs
        PROVE  /\ \A axis \in J!Axes : \A p \in D(c).paired[axis] : p.a = p.b
               /\ D(c).same => \A q \in Questions : D(c).texts[1][q] = D(c).texts[2][q]
    <3>1. c[1] \in DOMAIN answers /\ c[2] \in DOMAIN answers
      BY <1>3 DEF J!Compared
    <3>2. ASSUME NEW axis \in J!Axes, NEW q \in J!Scored(c[1], axis) \cap J!Scored(c[2], axis)
          PROVE  answers[c[1]][q].text = answers[c[2]][q].text
      <4>1. q \in Questions /\ answers[c[1]][q].ver[axis] # J!NoVerdict /\ answers[c[2]][q].ver[axis] # J!NoVerdict
        BY <1>3, <3>1 DEF J!Scored
      <4>2. answers[c[1]][q].text # "error" /\ answers[c[2]][q].text # "error"
        BY <3>1, <4>1 DEF RecordsInv, AnswersTyped, J!Unjudged
      <4> QED
        BY <1>3, <3>1, <4>1, <4>2 DEF RejudgeRow
    <3>3. ASSUME NEW axis \in J!Axes, NEW p \in D(c).paired[axis]
          PROVE  p.a = p.b
      <4>1. PICK q \in J!Scored(c[1], axis) \cap J!Scored(c[2], axis) :
              p = [q |-> q, a |-> answers[c[1]][q].text, b |-> answers[c[2]][q].text]
        OBVIOUS
      <4> QED
        BY <3>2, <4>1
    <3>4. J!SameAnswers(c[1], c[2]) => J!Digest(c[1], Questions) = J!Digest(c[2], Questions)
      <4>1. J!Shared(c[1], c[2]) = Questions
        BY <1>3, <3>1 DEF J!Shared
      <4> QED
        BY <4>1 DEF J!SameAnswers
    <3> QED
      BY <3>3, <3>4
  <2> HIDE DEF D, Pairs
  <2>3. DOMAIN report'.deltas = Pairs /\ \A c \in Pairs : report'.deltas[c] = D(c)
    BY <1>1, <2>1
  <2> QED
    BY <2>2, <2>3 DEF ReportPairs
<1> QED
  BY <1>4, <1>5, <1>6, <1>7, <1>8 DEF RecordsInv

(* What moves beside a rejudge changes no arm's rows, and the door and the control count it.        *)
LEMMA RejudgeMoves ==
  ASSUME RecordsInv, J!Moves
  PROVE  RecordsInv'
<1>1. UNCHANGED <<asked, exp, report>> /\ moves < MaxRjMoves /\ moves' = moves + 1
  BY DEF J!Moves
<1>2. moves' \in 0..MaxRjMoves
  BY <1>1, RejudgeAssumption DEF RecordsInv, J!RjTypeOK
<1>3. ReportPairs'
  BY <1>1 DEF RecordsInv, ReportPairs
<1>4. CASE UNCHANGED answers /\ moved' = moved \cup {"judge"} /\ seat' \in {"m1", "m2"} /\ active' \in [J!Axes -> {"v1", "v2"}]
  <2>1. J!RjTypeOK' /\ AnswersTyped' /\ DoorLooked' /\ TextsOfSource' /\ J!ArmIsAsNamed' /\ J!SettledByItsVerdict'
    <3>1. J!RjTypeOK' /\ AnswersTyped' /\ DoorLooked'
      BY <1>1, <1>2, <1>4 DEF RecordsInv, J!RjTypeOK, AnswersTyped, DoorLooked
    <3>2. TextsOfSource'
      BY <1>4 DEF RecordsInv, TextsOfSource
    <3>3. J!ArmIsAsNamed'
      BY <1>1, <1>4 DEF RecordsInv, J!ArmIsAsNamed, J!RowsOf, J!Has
    <3>4. J!SettledByItsVerdict'
      BY <1>4 DEF RecordsInv, J!SettledByItsVerdict
    <3> QED
      BY <3>1, <3>2, <3>3, <3>4
  <2>2. SkipsAreControls' /\ NothingIsOwed'
    BY <1>1, <1>4 DEF RecordsInv, SkipsAreControls, J!Sample, J!Answered, NothingIsOwed, J!Owed
  <2>3. J!ControlStands' /\ ControlWasSeen'
    BY <1>4 DEF J!ControlStands, ControlWasSeen
  <2> QED
    BY <1>3, <2>1, <2>2, <2>3 DEF RecordsInv
<1>5. ASSUME NEW q \in Questions, answers[J!Source][q].text = "error", UNCHANGED <<seat, active>>,
             answers' = [answers EXCEPT ![J!Source][q] = J!Row("answer", J!Unjudged, {})], moved' = moved \cup {"source"}
      PROVE  RecordsInv'
  <2> DEFINE new == J!Row("answer", J!Unjudged, {})
  <2>1. /\ new \in RejudgeRow /\ new.ver = J!Unjudged /\ new.text = "answer"
    BY DEF J!Row, RejudgeRow, J!Unjudged, J!NoVerdict, J!Unset, RejudgeVerdict, RejudgeRuns
  <2> HIDE DEF new
  <2>2. /\ DOMAIN answers = {J!Source} \cup exp.arms /\ J!Source \notin exp.arms
        /\ \A r \in DOMAIN answers : answers[r] \in [Questions -> RejudgeRow]
    BY RowsAre, ArmsName DEF RecordsInv, AnswersTyped, J!RjTypeOK
  <2>3. /\ DOMAIN answers' = DOMAIN answers /\ \A a \in exp.arms : answers'[a] = answers[a]
        /\ answers'[J!Source] = [answers[J!Source] EXCEPT ![q] = new]
    BY <1>5, <2>2 DEF new
  <2>4. answers'[J!Source] \in [Questions -> RejudgeRow] /\ answers'[J!Source][q] = new
        /\ \A p \in Questions : p # q => answers'[J!Source][p] = answers[J!Source][p]
    BY <2>1, <2>2, <2>3
  <2>5. J!RjTypeOK' /\ DoorLooked' /\ TextsOfSource'
    BY <1>1, <1>2, <1>5, <2>3 DEF RecordsInv, J!RjTypeOK, DoorLooked, TextsOfSource
  <2>6. AnswersTyped'
    <3>1. \A r \in DOMAIN answers : answers'[r] \in [Questions -> RejudgeRow]
      BY <2>2, <2>3, <2>4
    <3>2. \A r \in DOMAIN answers, p \in Questions : answers'[r][p].text = "error" => answers'[r][p].ver = J!Unjudged
      <4> SUFFICES ASSUME NEW r \in DOMAIN answers, NEW p \in Questions, answers'[r][p].text = "error"
                   PROVE  answers'[r][p].ver = J!Unjudged
        OBVIOUS
      <4>1. CASE r = J!Source /\ p = q
        BY <2>1, <2>4, <4>1
      <4>2. CASE ~(r = J!Source /\ p = q)
        <5>1. answers'[r][p] = answers[r][p]
          BY <2>2, <2>3, <2>4, <4>2
        <5> QED
          BY <5>1 DEF RecordsInv, AnswersTyped
      <4> QED
        BY <4>1, <4>2
    <3> QED
      BY <2>3, <3>1, <3>2 DEF AnswersTyped
  <2>7. SkipsAreControls' /\ NothingIsOwed'
    <3>1. \A a \in exp.arms : J!Sample(a)' = J!Sample(a)
      BY <2>3 DEF J!Sample, J!Answered
    <3>2. \A a \in exp.arms, p \in Questions : J!Owed(a, p)' = J!Owed(a, p)
      BY <2>3 DEF J!Owed, J!ArmRun
    <3> QED
      BY <1>1, <2>3, <3>1, <3>2 DEF RecordsInv, SkipsAreControls, NothingIsOwed
  <2>8. J!ArmIsAsNamed'
    <3>1. \A a \in exp.arms : J!RowsOf(a)' = J!RowsOf(a)
      BY <2>3 DEF J!RowsOf, J!Has, J!ArmRun
    <3> QED
      BY <1>1, <2>3, <3>1 DEF RecordsInv, J!ArmIsAsNamed, J!ArmRun
  <2>9. J!SettledByItsVerdict'
    <3> SUFFICES ASSUME NEW run \in DOMAIN answers, NEW p \in DOMAIN answers'[run],
                        answers'[run][p].ver["faithfulness"] # J!NoVerdict
                 PROVE  answers'[run][p].settled = IF answers'[run][p].ver["faithfulness"].score = "low" THEN {run} ELSE {}
      BY <2>3, Zenon DEF J!SettledByItsVerdict
    <3>1. ~(run = J!Source /\ p = q)
      BY <2>1, <2>4 DEF J!Unjudged, J!Axes
    <3>2. answers'[run][p] = answers[run][p] /\ p \in DOMAIN answers[run]
      BY <2>2, <2>3, <2>4, <3>1
    <3> QED
      BY <3>2 DEF RecordsInv, J!SettledByItsVerdict
  <2>10. J!ControlStands' /\ ControlWasSeen'
    BY <1>5 DEF J!ControlStands, ControlWasSeen
  <2> QED
    BY <1>3, <2>5, <2>6, <2>7, <2>8, <2>9, <2>10 DEF RecordsInv
<1>6. \/ UNCHANGED answers /\ moved' = moved \cup {"judge"} /\ seat' \in {"m1", "m2"} /\ active' \in [J!Axes -> {"v1", "v2"}]
      \/ \E q \in Questions : /\ answers[J!Source][q].text = "error" /\ UNCHANGED <<seat, active>>
                              /\ answers' = [answers EXCEPT ![J!Source][q] = J!Row("answer", J!Unjudged, {})]
                              /\ moved' = moved \cup {"source"}
  BY DEF J!Moves, RecordsInv, J!RjTypeOK
<1> QED
  BY <1>4, <1>5, <1>6

LEMMA RecordsInductive == QueueSpec => []RecordsStand
<1>1. QueueInit => RecordsStand
  BY RejudgeInit DEF QueueInit, RecordsStand
<1>2. ASSUME RecordsStand, [QueueNext]_<<which, vars, rejudge>>
      PROVE  RecordsStand'
  <2> SUFFICES ASSUME which' = "rejudge"
               PROVE  RecordsInv'
    BY DEF RecordsStand
  <2>1. CASE UNCHANGED <<which, vars, rejudge>>
    <3>1. RecordsInv /\ UNCHANGED <<seat, active, answers, asked, exp, report, moved, moves>>
      BY <1>2, <2>1 DEF RecordsStand, rejudge
    <3>2. J!RjTypeOK' /\ AnswersTyped' /\ DoorLooked' /\ TextsOfSource' /\ J!ArmIsAsNamed' /\ J!SettledByItsVerdict' /\ ReportPairs'
      <4>1. J!RjTypeOK' /\ AnswersTyped' /\ DoorLooked' /\ ReportPairs'
        BY <3>1 DEF RecordsInv, J!RjTypeOK, AnswersTyped, DoorLooked, ReportPairs
      <4>2. TextsOfSource'
        BY <3>1 DEF RecordsInv, TextsOfSource
      <4>3. J!ArmIsAsNamed'
        BY <3>1 DEF RecordsInv, J!ArmIsAsNamed, J!RowsOf, J!Has
      <4>4. J!SettledByItsVerdict'
        BY <3>1 DEF RecordsInv, J!SettledByItsVerdict
      <4> QED
        BY <4>1, <4>2, <4>3, <4>4
    <3>3. SkipsAreControls' /\ NothingIsOwed'
      BY <3>1 DEF RecordsInv, SkipsAreControls, J!Sample, J!Answered, NothingIsOwed, J!Owed
    <3>4. J!ControlStands' /\ ControlWasSeen'
      BY <3>1, SourceSays DEF RecordsInv, J!ControlStands, ControlWasSeen
    <3> QED
      BY <3>2, <3>3, <3>4 DEF RecordsInv
  <2>2. CASE which = "rejudge" /\ J!RjNext
    <3>1. RecordsInv
      BY <1>2, <2>2 DEF RecordsStand
    <3>2. J!Looks \/ J!Makes \/ J!Aggregates \/ J!Moves \/ \E a \in ArmsOf, p \in Questions : J!JudgesArm(a, p)
      BY <2>2 DEF J!RjNext
    <3> QED
      BY <3>1, <3>2, RejudgeLooks, RejudgeMakes, RejudgeJudges, RejudgeAggregates, RejudgeMoves
  <2> QED
    BY <1>2, <2>1, <2>2 DEF QueueNext
<1> QED
  BY <1>1, <1>2, PTL DEF QueueSpec

(* Rejudges.RejudgesHold, for every set of questions and of bounds. *)
(* use_cases/rejudge.py: a verdict of an arm is by the judge and the version the arm names, its controls *)
(* are judged or passed over alike, and a report pairs verdicts of one text.                             *)
THEOREM RecordsAreOfTheirArms == QueueSpec => []RecordsHold
<1>1. RecordsStand => RecordsHold
  <2> SUFFICES ASSUME RecordsInv
               PROVE  J!MovedAxisIsWhole /\ J!ControlsMeet /\ J!PairsAreOfOneText
    BY DEF RecordsStand, RecordsHold, J!RejudgesHold, RecordsInv
  <2>1. /\ DOMAIN answers = {J!Source} \cup exp.arms
        /\ \A r \in DOMAIN answers, q \in Questions : answers[r][q] \in RejudgeRow
        /\ \A a \in exp.arms : J!ArmRun(a) = a /\ J!RowsOf(a) = Questions
    BY RowsAre DEF RecordsInv
  <2>2. J!MovedAxisIsWhole
    <3> SUFFICES ASSUME exp.status = "aggregated", NEW a \in exp.arms, NEW q \in Questions, NEW axis \in J!Axes \ J!Controls(a),
                        answers[a][q].text # "error", answers[a][q].ver[axis] = J!NoVerdict
                 PROVE  axis \in answers[a][q].failed
      BY <2>1 DEF J!MovedAxisIsWhole
    <3>1. J!Owed(a, q) = {}
      BY DEF RecordsInv, NothingIsOwed
    <3>2. axis \notin answers[a][q].skipped
      BY DEF RecordsInv, SkipsAreControls
    <3> QED
      BY <2>1, <3>1, <3>2 DEF J!Owed
  <2>3. J!ControlsMeet
    <3> SUFFICES ASSUME exp.status = "aggregated", exp.control, "source" \notin moved, NEW a \in exp.arms, NEW b \in exp.arms,
                        NEW axis \in J!Controls(a) \cap J!Controls(b), NEW q \in Questions,
                        answers[a][q].text = answers[b][q].text
                 PROVE  axis \in answers[a][q].skipped <=> axis \in answers[b][q].skipped
      BY <2>1 DEF J!ControlsMeet
    <3>1. J!Sample(a) = J!Sample(b)
      <4>1. DOMAIN answers[a] = Questions /\ DOMAIN answers[b] = Questions
        BY RowsAre DEF RecordsInv
      <4>2. \A p \in Questions : answers[a][p].text = answers[b][p].text
        BY <2>1 DEF RecordsInv, TextsOfSource
      <4>3. J!Answered(a) = J!Answered(b)
        BY <4>1, <4>2 DEF J!Answered
      <4> QED
        BY <4>3 DEF J!Sample
    <3>2. ASSUME NEW x \in exp.arms, axis \in J!Controls(x)
          PROVE  axis \in answers[x][q].skipped <=> q \notin J!Sample(x) /\ answers[x][q].text # "error"
      <4>1. J!Owed(x, q) = {}
        BY DEF RecordsInv, NothingIsOwed
      <4>2. answers[x][q].text # "error" /\ answers[x][q].ver = J!Unjudged /\ answers[x][q].failed = {}
              => axis \in answers[x][q].skipped
        BY <2>1, <4>1 DEF J!Owed, J!Controls, J!Unjudged
      <4> QED
        BY <3>2, <4>2 DEF RecordsInv, SkipsAreControls
    <3> QED
      BY <3>1, <3>2
  <2>4. J!PairsAreOfOneText
    BY DEF RecordsInv, ReportPairs, J!PairsAreOfOneText
  <2> QED
    BY <2>2, <2>3, <2>4
<1> QED
  BY <1>1, RecordsInductive, PTL
=============================================================================
