----------------------------- MODULE Supervisor -----------------------------
(***************************************************************************)
(* The supervisor of a converter's image: its children are started by take,*)
(* stopped by let_go, each on a thread of the HTTP server, and watched.  A *)
(* let_go waits with no lock held, and one that outlives its client's 45 s *)
(* may meet another.  Source: converters/supervisor.py.                    *)
(***************************************************************************)
EXTENDS Naturals, FiniteSets

CONSTANTS
  Tools,      \* the children of one take
  Stoppers,   \* the threads a let_go may run on
  MaxTakes    \* bound of the model: starts of the children

VARIABLES
  kids,      \* children, the processes the supervisor knows
  starts,    \* takes that started processes
  live,      \* processes alive
  told,      \* processes asked to terminate or killed
  stuck,     \* processes no kill reaches
  exited,    \* exits their watcher has not handled yet
  stopping, reason,
  waits,     \* per thread the processes its let_go still waits for
  crossed    \* ghost: two let_go waited at once

svars == <<kids, starts, live, told, stuck, exited, stopping, reason, waits, crossed>>

Procs == (1..MaxTakes) \X Tools
NoStop == {<<0, "none">>}

TypeOK ==
  /\ kids \subseteq Procs /\ starts \in 0..MaxTakes
  /\ live \subseteq Procs /\ told \subseteq Procs /\ stuck \subseteq live /\ exited \subseteq Procs
  /\ stopping \in BOOLEAN /\ reason \in BOOLEAN /\ crossed \in BOOLEAN
  /\ \A t \in Stoppers : waits[t] = NoStop \/ waits[t] \subseteq Procs

Init ==
  /\ kids = {} /\ starts = 0 /\ live = {} /\ told = {} /\ stuck = {} /\ exited = {}
  /\ stopping = FALSE /\ reason = FALSE
  /\ waits = [t \in Stoppers |-> NoStop] /\ crossed = FALSE

Alive == kids # {} /\ kids \subseteq live
Stopped(t) == waits[t] = NoStop
Label == IF reason /\ Alive THEN "unknown" ELSE IF Alive THEN "holds" ELSE "free"

Refuses == stopping
Takes ==
  /\ ~Refuses /\ ~Alive /\ starts < MaxTakes
  /\ starts' = starts + 1
  /\ kids' = {<<starts + 1, tool>> : tool \in Tools}
  /\ live' = live \cup kids' /\ told' = told \cup kids /\ reason' = FALSE
  /\ UNCHANGED <<stuck, exited, stopping, waits, crossed>>

LetsGo(t) ==
  LET procs == kids \cap live
  IN  /\ Stopped(t)
      /\ IF procs = {} THEN kids' = {} /\ UNCHANGED <<told, stopping, waits, crossed>>
         ELSE /\ stopping' = TRUE /\ told' = told \cup procs
              /\ waits' = [waits EXCEPT ![t] = procs]
              /\ crossed' = (crossed \/ \E u \in Stoppers : ~Stopped(u))
              /\ UNCHANGED kids
      /\ UNCHANGED <<starts, live, stuck, exited, reason>>

(* killed and waited for a second deadline: it says so and stops waiting *)
GivesUpAndWaits(t) ==
  /\ ~Stopped(t) /\ waits[t] \cap stuck # {}
  /\ reason' = TRUE /\ waits' = [waits EXCEPT ![t] = NoStop]
  /\ UNCHANGED <<kids, starts, live, told, stuck, exited, stopping, crossed>>
GivesUp(t) ==
  /\ ~Stopped(t) /\ waits[t] \cap stuck # {}
  /\ reason' = TRUE /\ stopping' = FALSE /\ waits' = [waits EXCEPT ![t] = NoStop]
  /\ UNCHANGED <<kids, starts, live, told, stuck, exited, crossed>>

MayEndEarly(t) == ~Stopped(t)
MayEnd(t) == ~Stopped(t) /\ waits[t] \cap live = {}
EndsStop(t) ==
  /\ MayEnd(t)
  /\ kids' = {} /\ stopping' = FALSE /\ waits' = [waits EXCEPT ![t] = NoStop]
  /\ UNCHANGED <<starts, live, told, stuck, exited, reason, crossed>>

-----------------------------------------------------------------------------
(* what the system does: a process exits, told or not, or is beyond a kill *)
Exits(p) ==
  /\ p \in live \ stuck
  /\ live' = live \ {p} /\ exited' = exited \cup {p}
  /\ UNCHANGED <<kids, starts, told, stuck, stopping, reason, waits, crossed>>
Sticks(p) ==
  /\ p \in live \cap told /\ stuck = {} /\ stuck' = {p}
  /\ UNCHANGED <<kids, starts, live, told, exited, stopping, reason, waits, crossed>>

(* _watch: a child that died on its own takes the container with it *)
Watches(p) ==
  /\ p \in exited
  /\ IF p \in kids /\ ~stopping
     THEN /\ kids' = {} /\ live' = stuck /\ exited' = {} /\ stopping' = FALSE /\ reason' = FALSE
          /\ waits' = [t \in Stoppers |-> NoStop]
     ELSE exited' = exited \ {p} /\ UNCHANGED <<kids, live, stopping, reason, waits>>
  /\ UNCHANGED <<starts, told, stuck, crossed>>

Stops == \E t \in Stoppers : GivesUp(t) \/ EndsStop(t)
Next ==
  \/ Takes \/ Stops
  \/ \E t \in Stoppers : LetsGo(t)
  \/ \E p \in Procs : Exits(p) \/ Sticks(p) \/ Watches(p)

(* a thread goes on, and what was killed ends unless it is beyond a kill *)
SupervisorFair ==
  /\ \A t \in Stoppers : WF_svars(GivesUp(t)) /\ WF_svars(EndsStop(t))
  /\ \A p \in Procs : WF_svars(Exits(p) /\ p \in told)
SupervisorSpec == Init /\ [][Next]_svars /\ SupervisorFair

-----------------------------------------------------------------------------
(* With one child and no two stops at once the label that gives the card    *)
(* to others is said only with no process alive, a stuck one included.      *)
FreeUnlessCrossed ==
  Cardinality(Tools) = 1 /\ ~crossed /\ Label = "free" => live = {}

(* A stop that began ends: takes are not refused for ever, a child beyond a *)
(* kill included.                                                            *)
StopEnds == stopping ~> ~stopping

(* What the docstring says and the code does not keep.                       *)
(* converters/supervisor.py:1: "Hold a converter's process on the card only  *)
(* while asked: start it on take, kill it on let go."                        *)
FreeMeansFree == Label = "free" => live = {}
=============================================================================
