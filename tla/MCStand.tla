------------------------------- MODULE MCStand -------------------------------
(***************************************************************************)
(* What the stand keeps about models, seats, integrations, promises and    *)
(* vectors, in five parts that share no variable: the doors of each, the   *)
(* jobs they queue and the start-up beside them.  A behavior is of one     *)
(* part.                                                                   *)
(***************************************************************************)
EXTENDS Registry

CONSTANTS Seatable, Askers, MaxChoices, Urls, Probers, MaxPuts, Runs, Closers,
  Embedders, Texts, Questions, MaxMoves, MaxEdits, MaxJobs, MaxSearches

(* "none" is said of a run, a model or a bootstrap that is not there *)
ASSUME StandAssumption ==
  /\ Seatable # {} /\ Askers # {} /\ Urls # {} /\ Probers # {} /\ Runs # {} /\ Embedders # {}
  /\ "none" \notin Runs \cup Embedders
  /\ {MaxChoices, MaxPuts, MaxMoves, MaxEdits, MaxJobs, MaxSearches} \subseteq Nat

VARIABLES which,
  holder, choices, asks, seats,
  card, put, puts, removing, probes, checks, told, late,
  barred, promised, closedWith, attempts, jobs, rows, reading, closes,
  seated, moves, edits, queuedJobs, searches, files, stored, cut, qvecs, fill, waiting, find, boot

S == INSTANCE Seats
I == INSTANCE Integrations
P == INSTANCE Prereg
V == INSTANCE Vectors

seat == <<holder, choices, asks, seats>>
integration == <<card, put, puts, removing, probes, checks, told, late>>
promise == <<barred, promised, closedWith, attempts, jobs, rows, reading, closes>>
vectors == <<seated, moves, edits, queuedJobs, searches, files, stored, cut, qvecs, fill, waiting, find, boot>>
standVars == <<which, rvars, seat, integration, promise, vectors>>

(* only the part a behavior is of chooses among its initial states *)
StandInit ==
  /\ which \in {"registry", "seats", "integrations", "prereg", "vectors"}
  /\ RInit /\ S!SInit /\ I!IInit /\ P!PInit /\ V!VInit
  /\ which # "seats" => holder = CHOOSE m \in Seatable : TRUE
  /\ which # "prereg" => barred
  /\ which # "vectors" => seated = CHOOSE m \in Embedders : TRUE
StandNext ==
  /\ UNCHANGED which
  /\ \/ which = "registry" /\ RNext /\ UNCHANGED <<seat, integration, promise, vectors>>
     \/ which = "seats" /\ S!SNext /\ UNCHANGED <<rvars, integration, promise, vectors>>
     \/ which = "integrations" /\ I!INext /\ UNCHANGED <<rvars, seat, promise, vectors>>
     \/ which = "prereg" /\ P!PNext /\ UNCHANGED <<rvars, seat, integration, vectors>>
     \/ which = "vectors" /\ V!VNext /\ UNCHANGED <<rvars, seat, integration, promise>>
StandSpec == StandInit /\ [][StandNext]_standVars
(* Registry: a ready row has its weights, weights at rest have a row, an available row has a pull. *)
RegistryHolds == RTypeOK /\ S!STypeOK /\ ReadyIsHeld /\ NoOrphanWeights /\ AvailableIsComing
(* Integrations: status and schemas at rest are those of the server the row names. *)
IntegrationsHold == I!ITypeOK /\ I!StatusIsOfItsServer /\ I!ToolsAreOfTheUrl
(* Vectors: a label is the model that made the vector, and a search meets vectors of its own model. *)
VectorsHold == V!VTypeOK /\ V!LabelsTellTheMaker /\ V!SearchMeetsItsOwn
(* Registry, Seats and Integrations: a late probe undoes no later choice of an operator. *)
ChoicesStand == SeatedStays /\ S!LaterChoiceStands /\ S!AskedIsSeated /\ I!DisabledStays
(* Prereg: a promise is closed once, on runs queued as its closing, over rows of every question. *)
PromiseStands == []P!PTypeOK /\ P!SettledStands /\ P!ClosedOnItsOwn /\ P!ClearedWhole
(* Vectors: a cut, a reuse and a fill keep to the model they began with. *)
CutsKeepTheirModel == V!UnmovedCutIsWhole /\ V!ReusedStaysPure /\ V!FillLeavesNone
=============================================================================
