------------------------------- MODULE Copies --------------------------------
(***************************************************************************)
(* One copy of a text that several sources hold (app/use_cases/dedup.py    *)
(* and the index that asks for it, use_cases/index.py): an index cuts its  *)
(* sources one by one, each in a transaction of its own, and then drops    *)
(* the copies of a text that the most trusted and freshest holder keeps;   *)
(* a loser's row names the keeper.  A source's texts move with a new run,  *)
(* and only a source that moved is cut again.                              *)
(***************************************************************************)
EXTENDS Integers, FiniteSets, Sequences, TLC

(* TrustOf: what a source's declaration makes of it, 0 official, 1 book, 2 notes *)
CONSTANTS Sources, Bodies, TrustOf, MaxEdits, MaxIndexes

VARIABLES
  texts,     \* what its folder holds now
  run,       \* the run its folder is of: the later, the fresher
  cutOf,     \* the run its chunks were cut from, 0 for none
  chunks,    \* the texts of its chunks in the base
  keptBy,    \* copies_kept_by: how many of its copies each keeper has, of the last drop that found one
  index,     \* the job under way: its sources, how far it is, and its step
  edits, indexes
dvars == <<texts, run, cutOf, chunks, keptBy, index, edits, indexes>>

Idle == [asked |-> {}, names |-> {}, left |-> {}, step |-> "idle"]
Order == CHOOSE f \in [Sources -> 1..Cardinality(Sources)] : \A a, b \in Sources : a # b => f[a] # f[b]

(* keeper: the most trusted, then the freshest, then the name *)
Keeper(H) == CHOOSE s \in H : \A o \in H \ {s} :
  \/ TrustOf[s] < TrustOf[o]
  \/ TrustOf[s] = TrustOf[o] /\ run[s] > run[o]
  \/ TrustOf[s] = TrustOf[o] /\ run[s] = run[o] /\ Order[s] > Order[o]
Holders(t) == {s \in Sources : t \in chunks[s]}
(* _SHARED_WITH: a text of a source just cut that another source holds too *)
SharedBy(names) == {t \in Bodies : Cardinality(Holders(t)) > 1 /\ Holders(t) \cap names # {}}
Lost(s, names) == {t \in SharedBy(names) : s \in Holders(t) /\ s # Keeper(Holders(t))}
CountsOf(s, names) == [k \in {Keeper(Holders(t)) : t \in Lost(s, names)} |->
                         Cardinality({t \in Lost(s, names) : Keeper(Holders(t)) = k})]

DInit ==
  /\ texts \in [Sources -> SUBSET Bodies] /\ run = [s \in Sources |-> 1]
  /\ cutOf = [s \in Sources |-> 0] /\ chunks = [s \in Sources |-> {}]
  /\ keptBy = [s \in Sources |-> <<>>] /\ index = Idle /\ edits = 0 /\ indexes = 0

(* a new run of a source is accepted, which no waiting or running index of it may see: its folder *)
(* holds other texts, and its row is the new run's *)
Edits(s) ==
  /\ s \notin index.asked /\ edits < MaxEdits /\ edits' = edits + 1
  /\ \E T \in SUBSET Bodies \ {texts[s]} : texts' = [texts EXCEPT ![s] = T]
  /\ run' = [run EXCEPT ![s] = edits + 2] /\ keptBy' = [keptBy EXCEPT ![s] = <<>>]
  /\ UNCHANGED <<cutOf, chunks, index, indexes>>

(* an index is asked for some sources *)
Asks(names) ==
  /\ index = Idle /\ indexes < MaxIndexes /\ names # {}
  /\ indexes' = indexes + 1 /\ index' = [asked |-> names, names |-> names, left |-> names, step |-> "cuts"]
  /\ UNCHANGED <<texts, run, cutOf, chunks, keptBy, edits>>
(* one source cut and committed; a folder with nothing in it is refused and its chunks stay *)
CutsOne(s) ==
  /\ index.step = "cuts" /\ s \in index.left
  /\ IF texts[s] = {}
       THEN index' = [index EXCEPT !.left = @ \ {s}, !.names = @ \ {s}] /\ UNCHANGED <<cutOf, chunks>>
       ELSE /\ index' = [index EXCEPT !.left = @ \ {s}]
            /\ cutOf' = [cutOf EXCEPT ![s] = run[s]] /\ chunks' = [chunks EXCEPT ![s] = texts[s]]
  /\ UNCHANGED <<texts, run, keptBy, edits, indexes>>
(* a cancel is read between sources: the rest are left, and the drop is still done *)
Stops ==
  /\ index.step = "cuts" /\ index.left # {}
  /\ index' = [index EXCEPT !.names = @ \ index.left, !.left = {}]
  /\ UNCHANGED <<texts, run, cutOf, chunks, keptBy, edits, indexes>>
(* drop_lower_copies, one transaction: the copies go and each loser's row names its keepers *)
Drops ==
  /\ index.step = "cuts" /\ index.left = {} /\ index' = Idle
  /\ chunks' = [s \in Sources |-> chunks[s] \ Lost(s, index.names)]
  /\ keptBy' = [s \in Sources |-> IF Lost(s, index.names) = {} THEN keptBy[s] ELSE CountsOf(s, index.names)]
  /\ UNCHANGED <<texts, run, cutOf, edits, indexes>>
(* a failed drop costs the cut nothing, and a death between the two leaves the copies *)
DropFails ==
  /\ index.step = "cuts" /\ index' = Idle
  /\ UNCHANGED <<texts, run, cutOf, chunks, keptBy, edits, indexes>>

DNext ==
  \/ \E s \in Sources : Edits(s) \/ CutsOne(s)
  \/ \E names \in SUBSET Sources : Asks(names)
  \/ Stops \/ Drops \/ DropFails
DSpec == DInit /\ [][DNext]_dvars

-----------------------------------------------------------------------------
DTypeOK == chunks \in [Sources -> SUBSET Bodies] /\ index.left \subseteq index.names

(* A source cut by its present run and short of one of its texts says which sources keep its copies: *)
(* neither a refusal, a stop, a failed drop nor a drop asked for another source leaves a silent gap. *)
GapIsTold == \A s \in Sources : \A t \in texts[s] :
  cutOf[s] = run[s] /\ t \notin chunks[s] => keptBy[s] # <<>>

(* A drop takes a text from no corpus: what two sources held before it one still holds after, and *)
(* a source it has taken a text from has told so. *)
DropLosesNoText == [][Drops => /\ UNION {chunks'[s] : s \in Sources} = UNION {chunks[s] : s \in Sources}
                               /\ \A s \in Sources : chunks'[s] # chunks[s] => keptBy'[s] # <<>>]_dvars

(* After a drop no text of a source it was asked for stands twice. *)
OneCopy == [][Drops => \A t \in Bodies : \A s \in index.names : t \in chunks'[s] =>
                 \A o \in Sources \ {s} : t \notin chunks'[o]]_dvars

(* Not run, violated: a text a source holds is in some source's chunks once that source is cut.  The *)
(* keeper is cut anew without the text, and the loser, whose own run did not move, is not. *)
TextIsSomewhere == index = Idle => \A s \in Sources : cutOf[s] = run[s] => \A t \in texts[s] : Holders(t) # {}
(* Not run, violated: a loser's row names the keeper, as nothing undoes it (dedup.py:53): a later drop *)
(* with another keeper writes over the names of the first. *)
KeepersStayNamed == [][\A s \in Sources : cutOf'[s] = cutOf[s] /\ run'[s] = run[s] => DOMAIN keptBy[s] \subseteq DOMAIN keptBy'[s]]_dvars
=============================================================================
