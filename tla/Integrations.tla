---------------------------- MODULE Integrations -----------------------------
(***************************************************************************)
(* One MCP integration's row: PUT, DELETE and the probes, which read the   *)
(* row, speak to its server with nothing held and then write what they saw *)
(* under the row's lock.                                                   *)
(* Source: api/v1/mcp_integration.py, use_cases/mcp_integration.py,        *)
(* models/mcp_integration.py, job_handlers/mcp.py.                         *)
(***************************************************************************)
EXTENDS Naturals

CONSTANTS
  Urls,
  Probers,   \* the io lane's check and the doors that probe or discover
  MaxPuts    \* bound of the model: updates asked

VARIABLES
  card,     \* the row, and whether it is there
  put,      \* the update under way: the row it read and what it changes
  puts,
  removing, \* a DELETE that saw the row disabled
  probes,   \* per prober its kind, the url it read and what the server said
  checks,   \* check_mcp_health jobs waiting
  told,     \* per url whether its server last answered a probe, as it was written
  late      \* a probe wrote about a url the row no longer has, or an update wrote from a read a probe overtook

ivars == <<card, put, puts, removing, probes, checks, told, late>>

AnyUrl == CHOOSE u \in Urls : TRUE
NoTools == {}
NoPut == [step |-> "idle", was |-> [url |-> AnyUrl, status |-> "disabled", tools |-> NoTools],
          url |-> AnyUrl, status |-> "keep"]
NoProbe == [step |-> "idle", kind |-> "ping", url |-> AnyUrl, alive |-> FALSE]
Statuses == {"disabled", "active", "unreachable"}
Card == [here : BOOLEAN, url : Urls, status : Statuses, failed : BOOLEAN, tools : SUBSET Urls]

ITypeOK ==
  /\ card \in Card /\ (\A u, v \in card.tools : u = v)
  /\ removing \in BOOLEAN /\ put.step \in {"idle", "read"} /\ put.url \in Urls /\ puts \in 0..MaxPuts
  /\ probes \in [Probers -> [step : {"idle", "speaks", "heard"}, kind : {"ping", "list"}, url : Urls, alive : BOOLEAN]]
  /\ checks \in 0..MaxPuts + 1 /\ told \in [Urls -> {"nothing", "alive", "dead"}] /\ late \in BOOLEAN

(* POST: the row disabled and its first check, in one transaction *)
IInit ==
  /\ card = [here |-> TRUE, url |-> AnyUrl, status |-> "disabled", failed |-> FALSE, tools |-> NoTools]
  /\ put = NoPut /\ puts = 0 /\ removing = FALSE /\ probes = [p \in Probers |-> NoProbe] /\ checks = 1
  /\ told = [u \in Urls |-> "nothing"] /\ late = FALSE

-----------------------------------------------------------------------------
(* PUT: the row is read, changed in memory and its changed columns written  *)
(* with a check in one commit                                               *)
PutReads ==
  /\ card.here /\ put.step = "idle" /\ puts < MaxPuts /\ puts' = puts + 1
  /\ \E u \in Urls, s \in {"keep", "disabled", "active"} :
       put' = [step |-> "read", url |-> u, status |-> s,
               was |-> [url |-> card.url, status |-> card.status, tools |-> card.tools]]
  /\ UNCHANGED <<removing, card, probes, checks, told, late>>

Moved == put.url # put.was.url
(* a column is written only where it differs from the read *)
ToolsWritten(now) == IF Moved /\ put.was.tools # NoTools THEN NoTools ELSE now
StatusWritten(now) == IF put.status \in {"keep", put.was.status} THEN now ELSE put.status
RecheckedIfMoved == IF Moved THEN checks + 1 ELSE checks
Rechecked == checks + 1
PutWrites ==
  /\ put.step = "read" /\ put' = NoPut /\ card.here
  /\ card' = [card EXCEPT !.url = IF Moved THEN put.url ELSE @,
              !.status = StatusWritten(@), !.tools = ToolsWritten(@)]
  /\ checks' = Rechecked
  /\ late' = (late \/ (Moved /\ card.tools # put.was.tools))
  /\ UNCHANGED <<removing, puts, probes, told>>
PutMisses ==
  /\ put.step = "read" /\ ~card.here /\ put' = NoPut
  /\ UNCHANGED <<removing, card, puts, probes, checks, told, late>>

(* DELETE: only of a disabled row, as it was read *)
DeleteReads ==
  /\ card.here /\ ~removing /\ card.status = "disabled" /\ removing' = TRUE
  /\ UNCHANGED <<card, put, puts, probes, checks, told, late>>
DeleteWrites ==
  /\ removing /\ removing' = FALSE /\ card' = [card EXCEPT !.here = FALSE]
  /\ UNCHANGED <<put, puts, probes, checks, told, late>>

-----------------------------------------------------------------------------
(* the walk both kinds take *)
ProbeReads(p) ==
  /\ card.here /\ probes[p].step = "idle"
  /\ \E k \in {"ping", "list"} :
       probes' = [probes EXCEPT ![p] = [NoProbe EXCEPT !.step = "speaks", !.kind = k, !.url = card.url]]
  /\ UNCHANGED <<removing, card, put, puts, checks, told, late>>

(* the io lane's own walk: one check at a time *)
Checker == CHOOSE p \in Probers : TRUE
CheckReads ==
  /\ card.here /\ checks > 0 /\ probes[Checker].step = "idle" /\ checks' = checks - 1
  /\ probes' = [probes EXCEPT ![Checker] = [NoProbe EXCEPT !.step = "speaks", !.url = card.url]]
  /\ UNCHANGED <<removing, card, put, puts, told, late>>

Hears(p) ==
  /\ probes[p].step = "speaks"
  /\ \E alive \in BOOLEAN : probes' = [probes EXCEPT ![p] = [@ EXCEPT !.step = "heard", !.alive = alive]]
  /\ UNCHANGED <<removing, card, put, puts, checks, told, late>>

Marked(status, alive) ==
  CASE alive /\ status = "unreachable" -> "active"
    [] ~alive /\ status = "active" -> "unreachable"
    [] OTHER -> status
Marks(p) ==
  /\ probes[p].step = "heard"
  /\ probes' = [probes EXCEPT ![p] = NoProbe]
  /\ IF ~card.here THEN UNCHANGED <<card, told, late>>
     ELSE /\ card' = [card EXCEPT !.status = Marked(@, probes[p].alive), !.failed = ~probes[p].alive,
                      !.tools = IF probes[p].kind = "list" /\ probes[p].alive THEN {probes[p].url} ELSE @]
          /\ told' = [told EXCEPT ![probes[p].url] = IF probes[p].alive THEN "alive" ELSE "dead"]
          /\ late' = (late \/ probes[p].url # card.url)
  /\ UNCHANGED <<removing, put, puts, checks>>

Updates == PutReads \/ PutWrites \/ PutMisses \/ DeleteReads \/ DeleteWrites
Probes == CheckReads \/ \E p \in Probers : (p # Checker /\ ProbeReads(p)) \/ Hears(p) \/ Marks(p)
INext == Updates \/ Probes
ISpec == IInit /\ [][INext]_ivars

-----------------------------------------------------------------------------
(* No probe enables an integration an operator disabled, whenever it read   *)
(* the row.                                                                 *)
DisabledStays ==
  [][card.status = "disabled" /\ card'.status # "disabled" => put.step = "read" /\ put.status = "active"]_ivars

(* With no probe waiting or under way, the status of a row not disabled is  *)
(* what its server last answered, unless a probe or an update wrote late.   *)
StatusIsOfItsServer ==
  card.here /\ checks = 0 /\ ~late /\ (\A p \in Probers : probes[p].step = "idle") =>
    /\ card.status = "active" => told[card.url] = "alive" /\ ~card.failed
    /\ card.status = "unreachable" => told[card.url] = "dead" /\ card.failed

(* The cached schemas are of the server the row names, unless a probe or an *)
(* update wrote over a row that had moved since it read it.                  *)
ToolsAreOfTheUrl == ~late => card.tools \subseteq {card.url}

-----------------------------------------------------------------------------
(* Violated, not run.  api/v1/mcp_integration.py:203: "the cached schemas    *)
(* describe the old server's tools until discover reads the new one".       *)
ToolsNeverOfAnother == card.tools \subseteq {card.url}

(* api/v1/mcp_integration.py:283: "disable it first".                       *)
OnlyDisabledIsDeleted == [][card.here /\ ~card'.here => card.status = "disabled"]_ivars
=============================================================================
