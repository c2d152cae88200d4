------------------------------ MODULE Registry -------------------------------
(***************************************************************************)
(* One model's name over the ollama engines of the stand, which read one   *)
(* store: the rows, the weights, the doors that make and delete a row, a   *)
(* job that names a model nobody registered, the pulls and deletes of the  *)
(* io lane, and a bootstrap that compares the rows with the disk.          *)
(* Source: api/v1/llm_model.py, job_handlers/model_ops.py, base.py,        *)
(* use_cases/weights_rules.py, bootstrap.py, models/registry.py.           *)
(***************************************************************************)
EXTENDS Naturals, FiniteSets

CONSTANTS
  Engines,
  Seeded,      \* the engine a name without an engine is registered on
  MaxAttempts, \* MAX_ATTEMPTS of the worker
  MaxPulls,    \* bound of the model: io jobs queued
  MaxKeys,     \* bound of the model: rows made
  MaxHalts     \* bound of the model: deaths, faults and cancels

ASSUME RegistryAssumption ==
  /\ Seeded \in Engines
  /\ MaxAttempts \in Nat \ {0} /\ {MaxPulls, MaxKeys, MaxHalts} \subseteq Nat

VARIABLES
  models,   \* per engine the name's row
  keys,     \* ids given to rows
  held,     \* the weights are in the store
  role,     \* the row a role is seated on
  io,       \* jobs of the io lane, in the order of their ids
  doing,    \* the job its thread runs and the step it is at
  deleter,  \* the delete door
  asker,    \* a job of the default lane that names the model
  booting,  \* the bootstrap: what it read and what it has to queue
  halts,
  slips     \* "refused" a row past the door deleted, "cancelled" a pull, "cut" a job between row and pull,
            \* "lost" a delete that gave up, "stale" a boot that wrote ready after the weights went

rvars == <<models, keys, held, role, io, doing, deleter, asker, booting, halts, slips>>

NoRow == [key |-> 0, ready |-> FALSE]
Idle == [job |-> 0, step |-> "idle"]
NoDoor == [step |-> "idle", on |-> Seeded, key |-> 0]
NoBoot == [step |-> "idle", on |-> Seeded, seen |-> FALSE]
Job(kind, e) == [kind |-> kind, on |-> e, state |-> "new", late |-> FALSE, tries |-> 0]

RTypeOK ==
  /\ models \in [Engines -> [key : 0..MaxKeys, ready : BOOLEAN]] /\ keys \in 0..MaxKeys
  /\ held \in BOOLEAN /\ role \in 0..MaxKeys
  /\ \A j \in DOMAIN io : io[j] \in [kind : {"pull", "delete"}, on : Engines, late : BOOLEAN,
       state : {"new", "running", "done", "error", "cancelled"}, tries : 0..MaxAttempts]
  /\ doing \in [job : 0..MaxPulls, step : {"idle", "look", "pull", "record", "remove"}]
  /\ deleter \in [step : {"idle", "deciding"}, on : Engines, key : 0..MaxKeys]
  /\ asker \in {"idle", "registered", "waits", "ready", "failed"}
  /\ booting \in [step : {"idle", "read", "queue"}, on : Engines, seen : BOOLEAN]
  /\ halts \in 0..MaxHalts /\ slips \subseteq {"refused", "cancelled", "cut", "lost", "stale"}
  /\ (doing.job = 0) = (\A j \in DOMAIN io : io[j].state # "running")

RInit ==
  /\ models = [e \in Engines |-> NoRow] /\ keys = 0 /\ held = FALSE /\ role = 0
  /\ io = <<>> /\ doing = Idle /\ deleter = NoDoor /\ asker = "idle" /\ booting = NoBoot
  /\ halts = 0 /\ slips = {}

Registered(e) == models[e] # NoRow
SharedNever(e) == FALSE
Shared(e) == \E f \in Engines \ {e} : Registered(f)
Room == Cardinality(DOMAIN io) < MaxPulls
Queued(kind, e) == [j \in 1..Cardinality(DOMAIN io) + 1 |-> IF j \in DOMAIN io THEN io[j] ELSE Job(kind, e)]
Coming(e) == \E j \in DOMAIN io : io[j].kind = "pull" /\ io[j].on = e /\ io[j].state \in {"new", "running"}
Pulls(e) == {j \in DOMAIN io : io[j].kind = "pull" /\ io[j].on = e}
LastPull(e) == CHOOSE j \in Pulls(e) : \A k \in Pulls(e) : k <= j
Made(e) == /\ keys < MaxKeys /\ keys' = keys + 1
           /\ models' = [models EXCEPT ![e] = [key |-> keys + 1, ready |-> FALSE]]

-----------------------------------------------------------------------------
(* POST /v1/model: the row and its pull in one transaction *)
Creates(e) ==
  /\ ~Registered(e) /\ Room /\ Made(e) /\ io' = Queued("pull", e)
  /\ UNCHANGED <<held, role, doing, deleter, asker, booting, halts, slips>>

(* PUT and a role moved away *)
Seats(e) ==
  /\ Registered(e) /\ role' = models[e].key
  /\ UNCHANGED <<models, keys, held, io, doing, deleter, asker, booting, halts, slips>>
Unseats ==
  /\ role # 0 /\ role' = 0
  /\ UNCHANGED <<models, keys, held, io, doing, deleter, asker, booting, halts, slips>>

(* DELETE /v1/model: the checks, then the row and the job in one commit; the *)
(* foreign key refuses a row a role took meanwhile                          *)
DeleteLooks(e) ==
  /\ deleter.step = "idle" /\ Registered(e) /\ models[e].key # role /\ ~Shared(e)
  /\ deleter' = [step |-> "deciding", on |-> e, key |-> models[e].key]
  /\ UNCHANGED <<models, keys, held, role, io, doing, asker, booting, halts, slips>>
KeyRefuses(key) == key = role
DeleteCommits ==
  /\ deleter.step = "deciding" /\ deleter' = NoDoor
  /\ IF KeyRefuses(deleter.key) THEN UNCHANGED <<models, io>>
     ELSE /\ Room /\ io' = Queued("delete", deleter.on)
          /\ models' = [models EXCEPT ![deleter.on] = IF @.key = deleter.key THEN NoRow ELSE @]
  /\ UNCHANGED <<keys, held, role, doing, asker, booting, halts, slips>>

-----------------------------------------------------------------------------
(* require_model_ready: the row, then its pull in a transaction of its own *)
AskerLooks ==
  /\ asker \in {"idle", "waits"}
  /\ IF \A e \in Engines : ~Registered(e)
     THEN Made(Seeded) /\ asker' = "registered"
     ELSE \E e \in {f \in Engines : Registered(f)} :
            /\ asker' = IF models[e].ready THEN "ready"
                        ELSE IF Pulls(e) # {} /\ io[LastPull(e)].state = "error" THEN "failed" ELSE "waits"
            /\ UNCHANGED <<models, keys>>
  /\ UNCHANGED <<held, role, io, doing, deleter, booting, halts, slips>>
AskerQueues ==
  /\ asker = "registered" /\ Room /\ io' = Queued("pull", Seeded) /\ asker' = "waits"
  /\ UNCHANGED <<models, keys, held, role, doing, deleter, booting, halts, slips>>

-----------------------------------------------------------------------------
(* the io lane: the oldest job, or one that comes again *)
Turn(j) ==
  /\ io[j].state = "new"
  /\ \/ io[j].late
     \/ \A k \in DOMAIN io : k < j => io[k].state # "new" \/ io[k].late
Set(j, state) == io' = [io EXCEPT ![j].state = state]
Claims(j) ==
  /\ doing.job = 0 /\ Turn(j) /\ Set(j, "running") /\ doing' = [job |-> j, step |-> "look"]
  /\ UNCHANGED <<models, keys, held, role, deleter, asker, booting, halts, slips>>

Running == io[doing.job]
(* an error comes again until the attempts are spent, a Final never *)
Again(final) ==
  /\ doing' = Idle
  /\ IF final \/ Running.tries + 1 >= MaxAttempts
     THEN /\ Set(doing.job, "error")
          /\ slips' = IF Running.kind = "delete" THEN slips \cup {"lost"} ELSE slips
     ELSE /\ io' = [io EXCEPT ![doing.job] = [@ EXCEPT !.state = "new", !.late = TRUE, !.tries = Running.tries + 1]]
          /\ UNCHANGED slips

PullLooks ==
  /\ doing.step = "look" /\ Running.kind = "pull"
  /\ IF Registered(Running.on) THEN doing' = [doing EXCEPT !.step = "pull"] /\ UNCHANGED <<io, slips>>
     ELSE Again(FALSE)
  /\ UNCHANGED <<models, keys, held, role, deleter, asker, booting, halts>>
PullArrives ==
  /\ doing.step = "pull" /\ held' = TRUE /\ doing' = [doing EXCEPT !.step = "record"]
  /\ UNCHANGED <<models, keys, role, io, deleter, asker, booting, halts, slips>>
PullFails ==
  /\ doing.step = "pull" /\ halts < MaxHalts /\ halts' = halts + 1
  /\ \E final \in BOOLEAN : Again(final)
  /\ UNCHANGED <<models, keys, held, role, deleter, asker, booting>>
PullRecords ==
  /\ doing.step = "record" /\ doing' = Idle /\ Set(doing.job, "done")
  /\ models' = [models EXCEPT ![Running.on].ready = (@ \/ Registered(Running.on))]
  /\ UNCHANGED <<keys, held, role, deleter, asker, booting, halts, slips>>

(* a row gone is the door's own doing; a row present is taken to be reached past it *)
Proceeds(e) == TRUE
DeleteStarts ==
  /\ doing.step = "look" /\ Running.kind = "delete"
  /\ LET e == Running.on
     IN  IF Shared(e) \/ (Registered(e) /\ models[e].key = role) THEN Again(FALSE) /\ UNCHANGED models
         ELSE IF ~Proceeds(e) THEN doing' = Idle /\ Set(doing.job, "done") /\ UNCHANGED <<models, slips>>
         ELSE /\ models' = [models EXCEPT ![e] = NoRow]
              /\ slips' = IF Registered(e) THEN slips \cup {"refused"} ELSE slips
              /\ doing' = [doing EXCEPT !.step = "remove"] /\ UNCHANGED io
  /\ UNCHANGED <<keys, held, role, deleter, asker, booting, halts>>
DeleteRemoves ==
  /\ doing.step = "remove" /\ held' = FALSE /\ doing' = Idle /\ Set(doing.job, "done")
  /\ UNCHANGED <<models, keys, role, deleter, asker, booting, halts, slips>>

(* the process dies: its job comes back unspent, and the asking job between its two commits starts over *)
Dies ==
  /\ halts < MaxHalts /\ halts' = halts + 1
  /\ doing.job # 0 \/ asker = "registered"
  /\ doing' = Idle
  /\ io' = IF doing.job = 0 THEN io ELSE [io EXCEPT ![doing.job] = [@ EXCEPT !.state = "new", !.late = TRUE]]
  /\ asker' = IF asker = "registered" THEN "waits" ELSE asker
  /\ slips' = IF asker = "registered" THEN slips \cup {"cut"} ELSE slips
  /\ UNCHANGED <<models, keys, held, role, deleter, booting>>
CancelsPull(j) ==
  /\ halts < MaxHalts /\ halts' = halts + 1
  /\ io[j].state = "new" /\ Set(j, "cancelled")
  /\ slips' = slips \cup {IF io[j].kind = "pull" THEN "cancelled" ELSE "lost"}
  /\ UNCHANGED <<models, keys, held, role, doing, deleter, asker, booting>>

-----------------------------------------------------------------------------
(* the bootstrap: tags read, statuses written, then the pulls not pending *)
BootReads(e) ==
  /\ booting.step = "idle" /\ Registered(e) /\ Room
  /\ booting' = [step |-> "read", on |-> e, seen |-> held]
  /\ UNCHANGED <<models, keys, held, role, io, doing, deleter, asker, halts, slips>>
BootWrites ==
  /\ booting.step = "read"
  /\ IF Registered(booting.on)
     THEN /\ models' = [models EXCEPT ![booting.on].ready = booting.seen]
          /\ booting' = IF booting.seen THEN NoBoot ELSE [booting EXCEPT !.step = "queue"]
     ELSE booting' = NoBoot /\ UNCHANGED models
  /\ slips' = IF Registered(booting.on) /\ booting.seen /\ ~held THEN slips \cup {"stale"} ELSE slips
  /\ UNCHANGED <<keys, held, role, io, doing, deleter, asker, halts>>
PendingFor(e) == Coming(e)
BootQueues ==
  /\ booting.step = "queue" /\ booting' = NoBoot
  /\ IF PendingFor(booting.on) THEN UNCHANGED io ELSE Room /\ io' = Queued("pull", booting.on)
  /\ UNCHANGED <<models, keys, held, role, doing, deleter, asker, halts, slips>>

Doors == Unseats \/ DeleteCommits \/ \E e \in Engines : Creates(e) \/ Seats(e) \/ DeleteLooks(e)
Asks == AskerLooks \/ AskerQueues
Lane == PullLooks \/ PullArrives \/ PullFails \/ PullRecords \/ DeleteStarts \/ DeleteRemoves \/ Dies
        \/ \E j \in DOMAIN io : Claims(j) \/ CancelsPull(j)
Boots == BootWrites \/ BootQueues \/ \E e \in Engines : BootReads(e)
RNext == Doors \/ Asks \/ Lane \/ Boots
RSpec == RInit /\ [][RNext]_rvars

-----------------------------------------------------------------------------
Awaited(e) == Coming(e) \/ (e = Seeded /\ asker = "registered")
GaveUp(e) == \E j \in Pulls(e) : io[j].state = "error"
(* A row said to be ready has its weights in the store or a pull on its way, *)
(* also where a bootstrap wrote it over a delete.  Left out: a pull that     *)
(* gave up, was cancelled or cut off, and a boot that writes what it read    *)
(* before the weights went.                                                  *)
ReadyIsHeld ==
  \A e \in Engines : models[e].ready =>
    held \/ Awaited(e) \/ GaveUp(e) \/ slips \cap {"cancelled", "cut", "stale"} # {}

Quiet == doing.job = 0 /\ \A j \in DOMAIN io : io[j].state # "new"
(* With the lane at rest and no delete given up or cancelled, weights in    *)
(* the store are named by a row.                                            *)
NoOrphanWeights == Quiet /\ held /\ "lost" \notin slips => \E e \in Engines : Registered(e)

(* A row that is not ready waits for a pull, unless one failed or was        *)
(* cancelled, or a death came between a row and its pull.                   *)
AvailableIsComing ==
  \A e \in Engines : Registered(e) /\ ~models[e].ready =>
    \/ Awaited(e) \/ (booting.step = "queue" /\ booting.on = e)
    \/ GaveUp(e)
    \/ slips \cap {"cancelled", "cut"} # {}

(* A row a role is seated on stays. *)
SeatedStays == [][\A e \in Engines : models[e].key = role /\ role # 0 => models'[e].key = role]_rvars

-----------------------------------------------------------------------------
(* Violated, not run: model_ops.py:119 says a row present at the delete's turn  *)
(* means it was reached past the door; a row created again after the door   *)
(* is deleted by the job of the row before it.                              *)
RowStays == "refused" \notin slips
=============================================================================
