------------------------------- MODULE Agent -------------------------------
(***************************************************************************)
(* One question asked of the answering agent (app/use_cases/agent.py, run) *)
(* and the row it leaves, then that row driven through the same graph with *)
(* the model, the tools and the grader replaced by what it recorded        *)
(* (app/evals/replay.py, rerun).                                           *)
(*                                                                         *)
(* The nodes of the graph (app/orchestrators/graph.py) come first, as      *)
(* operators over its state: what each returns for the answers of the      *)
(* doors it reaches (the model, the tools, the grader).  The live run and  *)
(* the replay of a recorded row drive the same nodes through different     *)
(* doors.  A chunk stands for its file, one chunk per file; a text is one  *)
(* of Texts; an id of a call is its place in its turn.                     *)
(***************************************************************************)
EXTENDS Integers, Sequences, SequencesExt

CONSTANTS
  Files,        \* what the corpus holds
  Tools,        \* the tools of one active integration
  MaxHops,      \* max_hops
  MaxCalls,     \* bound: tool calls of one question
  HopCalls,     \* bound: tool calls of one turn
  Restates      \* the values restate_tools is asked with

ASSUME GraphAssumption ==
  /\ MaxHops \in Nat \ {0} /\ {MaxCalls, HopCalls} \subseteq Nat
  /\ "outside" \notin Files /\ "corpus" \notin Tools

Texts == {"", "answer", "refusal", "narrated"}
NoText == ""
Entry(role, said, calls, raises) == [role |-> role, said |-> said, calls |-> calls, raises |-> raises]
Turn(said, calls) == Entry("assistant", said, calls, FALSE)
Raised == Entry("assistant", NoText, <<>>, TRUE)
Note(role) == Entry(role, NoText, <<>>, FALSE)

(* What retrieval says of one file: its source row's distance to the query. *)
Hit == [file : Files \cup {"outside"}, far : BOOLEAN]
FilesOf(hits) == [i \in DOMAIN hits |-> hits[i].file]

(* agent.run: the gate a policy, the admitted tools and the topic make. *)
Ctx(policy, remote, offTopic, grades, restate) ==
  [policy |-> policy, remote |-> remote, offTopic |-> offTopic, grades |-> grades,
   restate |-> restate, external |-> policy = "agent_choice",
   gated |-> policy = "corpus_first_weak",
   drop |-> offTopic \/ (policy = "corpus_first_weak" /\ remote # {}),
   announce |-> policy # "agent_choice" /\ remote # {}]

Fresh(ctx) ==
  [node |-> "model", steps |-> 0, hops |-> 0, nudges |-> 1, external |-> ctx.external,
   reason |-> "none", opened |-> FALSE, announced |-> FALSE, notice |-> {},
   text |-> NoText, finished |-> FALSE, failed |-> FALSE, by |-> "", awaiting |-> FALSE,
   turn |-> Raised, pending |-> <<>>, coverage |-> "", dropping |-> <<>>, grading |-> <<>>,
   memo |-> <<>>, asks |-> <<>>, transcript |-> <<>>, sources |-> <<>>, contexts |-> <<>>,
   spans |-> <<>>, offered |-> <<>>]

(* Every super-step of the graph counts against the recursion limit. *)
Stepped(g, node) == [g EXCEPT !.node = node, !.steps = @ + 1]
RecursionLimit == 6 * MaxHops + 6

Offered(ctx, g) == {"corpus"} \cup (IF g.external THEN ctx.remote ELSE {})

AfterModel(g) == IF g.finished THEN "final"
                 ELSE IF g.awaiting THEN "retrieve"
                 ELSE IF g.hops < MaxHops THEN "model" ELSE "final"

ModelNode(ctx, g, turn) ==
  LET at == [g EXCEPT !.hops = @ + 1]
      said == [at EXCEPT !.offered = Append(@, Offered(ctx, g)), !.turn = turn,
                         !.transcript = Append(@, turn)]
      after == IF turn.raises THEN [at EXCEPT !.failed = TRUE, !.finished = TRUE]
               ELSE IF turn.calls # <<>> THEN [said EXCEPT !.awaiting = TRUE]
               ELSE IF g.nudges > 0 /\ turn.said = "narrated"
               THEN [said EXCEPT !.nudges = @ - 1, !.awaiting = FALSE,
                                 !.transcript = Append(@, Note("nudge"))]
               ELSE [said EXCEPT !.text = turn.said, !.finished = TRUE]
  IN Stepped(after, AfterModel(after))

(* What a call came back with: found hits, or an error the model reads.    *)
(* A tool the hop was not offered is unknown to dispatch.                  *)
Result(tool, error, hits) == [tool |-> tool, error |-> error, pieces |-> FilesOf(hits), sources |-> hits]
Unknown(tool) == Result(tool, TRUE, <<>>)
IsCorpus(call) == call.tool = "corpus" /\ ~call.error
Corpus(calls) == SelectSeq(calls, IsCorpus)
HitsOf(calls) == FlattenSeq([i \in DOMAIN calls |-> calls[i].sources])

(* The calls the corpus answered, and the verdict on what they found between them. *)
Searched(calls) == {i \in DOMAIN calls : IsCorpus(calls[i])}
NothingFound(calls) == \A i \in Searched(calls) : calls[i].sources = <<>>
AllFar(calls) == \A i \in Searched(calls) : \A k \in DOMAIN calls[i].sources : calls[i].sources[k].far
Verdict(ctx, calls) ==
  IF Searched(calls) = {} THEN ""
  ELSE IF ctx.offTopic THEN "off_topic"
  ELSE IF NothingFound(calls) THEN "empty"
  ELSE IF ctx.gated /\ AllFar(calls) THEN "weak" ELSE ""

RetrieveNode(ctx, g, results) ==
  Stepped([g EXCEPT !.pending = results, !.coverage = Verdict(ctx, results)], "grade")

(* The grader is asked once per file of the row, in reading order.  A      *)
(* verdict that cannot be read keeps the piece as a "yes" does, and so does *)
(* a grader that raises.                                                   *)
Verdicts == {"yes", "no", "raises"}
Doomed(ctx, g) == ctx.drop /\ g.coverage \in {"weak", "off_topic"}
Grades(ctx, g) == ctx.grades /\ Searched(g.pending) # {} /\ ~Doomed(ctx, g)
ToAsk(ctx, g) ==
  FoldLeft(LAMBDA asked, f : IF f \in DOMAIN g.memo \/ Contains(asked, f) THEN asked ELSE Append(asked, f),
           <<>>, IF Grades(ctx, g) THEN FilesOf(HitsOf(Corpus(g.pending))) ELSE <<>>)

Dropped(memo, call) == {f \in ToSet(call.pieces) : memo[f] = "no"}
KeepOnly(memo, call) ==
  IF ~IsCorpus(call) \/ call.pieces = <<>> THEN call
  ELSE [call EXCEPT !.pieces = SelectSeq(@, LAMBDA f : memo[f] # "no"),
                    !.sources = SelectSeq(@, LAMBDA h : memo[h.file] # "no")]

GradeNode(ctx, g, verdicts) ==
  LET asked == ToAsk(ctx, g)
      place(f) == CHOOSE i \in DOMAIN asked : asked[i] = f
      memo == [f \in DOMAIN g.memo \cup ToSet(asked) |->
                 IF f \in DOMAIN g.memo THEN g.memo[f] ELSE verdicts[place(f)]]
      said == SelectSeq([i \in DOMAIN asked |-> [key |-> asked[i], said |-> verdicts[i]]],
                        LAMBDA a : a.said # "raises")
      kept == [i \in DOMAIN g.pending |-> KeepOnly(memo, g.pending[i])]
      plan == [i \in {j \in Searched(g.pending) : g.pending[j].pieces # <<>>} |->
                 [order |-> g.pending[i].pieces, dropped |-> Dropped(memo, g.pending[i]),
                  sources |-> g.pending[i].sources]]
      emptied == DOMAIN plan # {} /\ g.coverage = "" /\ NothingFound(kept)
      after == IF ~Grades(ctx, g) THEN g
               ELSE [g EXCEPT !.memo = memo, !.asks = @ \o said, !.pending = kept, !.grading = plan,
                              !.coverage = IF emptied THEN "graded_out" ELSE @]
  IN Stepped(after, IF after.coverage = "" THEN "emit" ELSE "fallback")

(* The verdict is acted on: the weak context dropped, the notice appended, *)
(* the way outside opened.                                                 *)
DropsWeak(ctx, g) == ctx.drop /\ g.coverage \in {"weak", "off_topic"}
OpensAnyway(ctx, g) == ~g.external /\ ctx.remote # {}
Opens(ctx, g) == ~g.external /\ ctx.remote # {} /\ g.coverage # "graded_out"
Announces(ctx, g) == ctx.announce /\ ~g.external /\ g.coverage # "graded_out"
DropWeak(g) ==
  [g EXCEPT !.dropping = [i \in Searched(g.pending) |-> g.pending[i].sources],
            !.pending = [i \in DOMAIN @ |-> IF IsCorpus(@[i])
                                            THEN [@[i] EXCEPT !.pieces = <<>>, !.sources = <<>>] ELSE @[i]]]
FallbackNode(ctx, g) ==
  LET left == IF DropsWeak(ctx, g) THEN DropWeak(g) ELSE g
      told == IF Announces(ctx, g) THEN [left EXCEPT !.announced = TRUE, !.notice = ctx.remote] ELSE left
      why == [told EXCEPT !.reason = IF @ = "none" THEN g.coverage ELSE @]
  IN Stepped(IF Opens(ctx, g) THEN [why EXCEPT !.external = TRUE, !.opened = TRUE] ELSE why, "emit")

(* What a call changed on the way, kept beside its span: at most one block. *)
Block(blocks, i) == IF i \in DOMAIN blocks THEN {blocks[i]} ELSE {}
SpanOf(g, i) ==
  LET call == g.pending[i]
  IN [tool |-> call.tool, hop |-> g.hops, pieces |-> Len(call.pieces), sources |-> FilesOf(call.sources),
      dropped |-> Block(g.dropping, i), graded |-> Block(g.grading, i)]
Stamped(g, hits) == [i \in DOMAIN hits |-> [file |-> hits[i].file, far |-> hits[i].far, hop |-> g.hops]]
Consumed(g) == [g EXCEPT !.dropping = <<>>, !.grading = <<>>]
Spoken(ctx, g) ==
  [i \in DOMAIN g.pending |-> Note("tool")] \o (IF ctx.restate THEN <<Note("restated")>> ELSE <<>>)
EmitNode(ctx, g) ==
  Stepped([Consumed(g) EXCEPT
       !.transcript = @ \o Spoken(ctx, g),
       !.sources = @ \o Stamped(g, HitsOf(g.pending)),
       !.contexts = @ \o FlattenSeq([i \in DOMAIN g.pending |-> g.pending[i].pieces]),
       !.spans = @ \o [i \in DOMAIN g.pending |-> SpanOf(g, i)]],
     IF g.hops < MaxHops THEN "model" ELSE "final")

(* A final turn is forced only where no turn gave text and none failed.    *)
Forces(g) == g.text = NoText /\ ~g.failed
FinalNode(g, turn) ==
  LET asked == IF g.sources = <<>> THEN [g EXCEPT !.transcript = Append(@, Note("no_evidence"))] ELSE g
      named == [asked EXCEPT !.by = IF g.hops >= MaxHops THEN "hops_exhausted" ELSE "no_answer"]
      after == IF ~Forces(g) THEN [g EXCEPT !.by = IF g.text # NoText THEN "answer" ELSE "no_answer"]
               ELSE IF turn.raises THEN named
               ELSE [named EXCEPT !.hops = @ + 1, !.text = turn.said, !.transcript = Append(@, turn)]
  IN Stepped(after, "end")

(* agent.finish: the one tail of the live run and of the replay.           *)
Unique(sources) ==
  FoldLeft(LAMBDA out, s : IF \E i \in DOMAIN out : out[i].file = s.file THEN out ELSE Append(out, s),
           <<>>, sources)
Outcome(g) == IF g.text = NoText THEN IF g.hops >= MaxHops /\ ~g.failed THEN "exhausted" ELSE "error"
              ELSE IF g.text = "narrated" THEN "narrated_call"
              ELSE IF g.text = "refusal" THEN "refused"
              ELSE IF g.sources # <<>> THEN "answered" ELSE "unsupported_answer"

-----------------------------------------------------------------------------
VARIABLES
  phase,        \* "asked", "live", "logged", "replay", "compared"; "fault": no row was written
  ctx, g,       \* what the graph was handed, and its state
  called,       \* tool calls made so far
  row,          \* the row the live run left
  script,       \* what is left of the row for the replay to hand back, and what went wrong
  lost          \* ghost: what happened in the live run that its row does not hold
agvars == <<phase, ctx, g, called, row, script, lost>>

Policies == {"corpus_first", "corpus_first_weak", "agent_choice"}
NoScript == [turns |-> <<>>, calls |-> <<>>, asks |-> <<>>, problems |-> {}]
NoCtx == Ctx("agent_choice", {}, FALSE, FALSE, FALSE)
NoRow == [transcript |-> <<>>]

Init ==
  /\ phase = "asked" /\ ctx = NoCtx /\ g = Fresh(NoCtx) /\ called = 0
  /\ row = NoRow /\ script = NoScript /\ lost = {}

Loses(is, what) == IF is THEN {what} ELSE {}

(* An off-topic question loses every remote tool; admission may turn any of *)
(* them away, unless the model chooses for itself.                          *)
Admitted(policy, offTopic) ==
  IF offTopic THEN {{}} ELSE IF policy = "agent_choice" THEN {Tools} ELSE SUBSET Tools
Asks ==
  /\ phase = "asked"
  /\ \E policy \in Policies, offTopic, grades \in BOOLEAN, restate \in Restates :
       \E remote \in Admitted(policy, offTopic) :
         ctx' = Ctx(policy, remote, offTopic, grades, restate)
  /\ g' = Fresh(ctx') /\ phase' = "live"
  /\ UNCHANGED <<called, row, script>>
  /\ lost' = Loses(ctx'.restate, "restate") \cup Loses(ctx'.remote \notin {{}, Tools}, "tool")

(* The doors of the live run. *)
Names == {"corpus"} \cup Tools
LiveTurns == {Raised} \cup {Turn(said, <<>>) : said \in Texts}
             \cup {Turn("", calls) : calls \in BoundedSeq(Names, HopCalls) \ {<<>>}}
InOrder == CHOOSE s \in SetToSeqs(Files) : TRUE
Found == UNION {{[i \in DOMAIN s |-> [file |-> s[i], far |-> i \in far]] : far \in SUBSET DOMAIN s} :
                 s \in {SelectSeq(InOrder, LAMBDA f : f \in found) : found \in SUBSET Files}}
LiveResults(tool) ==
  IF tool = "corpus" THEN {Result(tool, FALSE, hits) : hits \in Found} \cup {Unknown(tool)}
  ELSE IF tool \in Offered(ctx, g)
       THEN {Result(tool, FALSE, <<[file |-> "outside", far |-> FALSE]>>), Unknown(tool)}
       ELSE {Unknown(tool)}

At(p, node) == phase = p /\ g.node = node
LiveModel ==
  /\ At("live", "model")
  /\ \E turn \in LiveTurns :
       /\ called + Len(turn.calls) <= MaxCalls
       /\ g' = ModelNode(ctx, g, turn) /\ called' = called + Len(turn.calls)
       /\ lost' = lost \cup Loses(turn.raises, "turn")
  /\ UNCHANGED <<phase, ctx, row, script>>
LiveRetrieve ==
  /\ At("live", "retrieve")
  /\ \E results \in [DOMAIN g.turn.calls -> UNION {LiveResults(g.turn.calls[i]) : i \in DOMAIN g.turn.calls}] :
       /\ \A i \in DOMAIN results : results[i] \in LiveResults(g.turn.calls[i])
       /\ g' = RetrieveNode(ctx, g, results)
       /\ lost' = lost \cup Loses(\E i \in DOMAIN results : results[i] = Unknown("corpus"), "error")
  /\ UNCHANGED <<phase, ctx, called, row, script>>
LiveGrade ==
  /\ At("live", "grade")
  /\ \E verdicts \in [DOMAIN ToAsk(ctx, g) -> Verdicts] :
       /\ g' = GradeNode(ctx, g, verdicts)
       /\ lost' = lost \cup Loses(\E i \in DOMAIN verdicts : verdicts[i] = "raises", "verdict")
  /\ UNCHANGED <<phase, ctx, called, row, script>>
LiveFinal ==
  /\ At("live", "final")
  /\ \E turn \in IF Forces(g) THEN {Raised} \cup {Turn(said, <<>>) : said \in Texts} ELSE {Raised} :
       /\ g' = FinalNode(g, turn)
       /\ lost' = lost \cup Loses(Forces(g) /\ turn.raises, "turn")
  /\ UNCHANGED <<phase, ctx, called, row, script>>

(* These two nodes reach no door, live or replayed. *)
Falls ==
  /\ phase \in {"live", "replay"} /\ g.node = "fallback"
  /\ g' = FallbackNode(ctx, g)
  /\ UNCHANGED <<phase, ctx, called, row, script, lost>>
Emits ==
  /\ phase \in {"live", "replay"} /\ g.node = "emit"
  /\ g' = EmitNode(ctx, g)
  /\ UNCHANGED <<phase, ctx, called, row, script, lost>>

(* The stand itself fails under a door: the graph's state goes with it, and the question leaves no row. *)
StandFails ==
  /\ phase = "live" /\ g.node \in {"model", "retrieve", "grade", "final"}
  /\ phase' = "fault" /\ g' = Fresh(ctx) /\ lost' = {}
  /\ UNCHANGED <<ctx, called, row, script>>

(* Anything else raised under the graph: the question leaves a row, of a turn that failed before its first word. *)
Broken(c) == [Fresh(c) EXCEPT !.node = "end", !.failed = TRUE]
Breaks ==
  /\ phase = "live" /\ g.node # "end"
  /\ g' = Broken(ctx) /\ lost' = {"graph"}
  /\ UNCHANGED <<phase, ctx, called, row, script>>

(* agent._log_answer, as much of it as the replay reads.                   *)
RowOf(c, s) ==
  [transcript |-> s.transcript, spans |-> s.spans, contexts |-> s.contexts, sources |-> Unique(s.sources),
   asks |-> s.asks, reason |-> s.reason, outcome |-> Outcome(s), notice |-> s.notice,
   offered |-> s.offered, policy |-> c.policy, mcp |-> c.remote # {}, offTopic |-> c.offTopic,
   gated |-> c.gated, drop |-> c.drop, grades |-> c.grades]
Logs ==
  /\ At("live", "end")
  /\ row' = RowOf(ctx, g) /\ phase' = "logged"
  /\ lost' = lost \cup Loses(\E i, j \in DOMAIN g.sources :
                              g.sources[i].file = g.sources[j].file /\ g.sources[i].far # g.sources[j].far, "distance")
  /\ UNCHANGED <<ctx, g, called, script>>

(* rerun: the model's turns in order, and for each span the call it was,   *)
(* put together from the flat contexts and the sources by their names.     *)
TurnsSpoken(transcript) ==
  SelectSeq(transcript, LAMBDA m : m.role = "assistant" /\ m.said # NoText)
TurnsOf(transcript) ==
  SelectSeq(transcript, LAMBDA m : m.role = "assistant")
Before(spans, n) == FoldLeft(LAMBDA sum, s : sum + s.pieces, 0, SubSeq(spans, 1, n - 1))
FarOf(sources, f) == \E i \in DOMAIN sources : sources[i].file = f /\ sources[i].far
HitsRecorded(r, n) ==
  LET span == r.spans[n]
      kept == SubSeq(r.contexts, Before(r.spans, n) + 1, Before(r.spans, n) + span.pieces)
  IN IF span.dropped # {} THEN CHOOSE hits \in span.dropped : TRUE
     ELSE IF span.graded # {} THEN (CHOOSE plan \in span.graded : TRUE).sources
     ELSE [i \in DOMAIN kept |-> [file |-> kept[i], far |-> FarOf(r.sources, kept[i])]]
CallsOf(r) == [n \in DOMAIN r.spans |-> Result(r.spans[n].tool, FALSE, HitsRecorded(r, n))]

(* gate_of and _admitted: every switch of the graph read back off the row; *)
(* the tools are those of the admitted integrations, whichever was let in. *)
CtxOf(r) ==
  [Ctx(r.policy, IF r.mcp THEN Tools ELSE {}, r.offTopic, r.grades, FALSE)
     EXCEPT !.drop = r.drop, !.gated = r.gated, !.announce = r.mcp]
Replays ==
  /\ phase = "logged"
  /\ ctx' = CtxOf(row) /\ g' = Fresh(ctx')
  /\ script' = [turns |-> TurnsOf(row.transcript), calls |-> CallsOf(row), asks |-> row.asks, problems |-> {}]
  /\ phase' = "replay"
  /\ UNCHANGED <<called, row, lost>>

(* The doors of the replay: the script's next entry, or a problem noted.   *)
Problem(s, p) == [s EXCEPT !.problems = @ \cup {p}]
NextTurn == IF script.turns = <<>> THEN Raised ELSE Head(script.turns)
TurnTaken == IF script.turns = <<>> THEN Problem(script, "no turn") ELSE [script EXCEPT !.turns = Tail(@)]
ReplayModel ==
  /\ At("replay", "model")
  /\ g' = ModelNode(ctx, g, NextTurn) /\ script' = TurnTaken
  /\ UNCHANGED <<phase, ctx, called, row, lost>>
Takes(s, n) == IF n <= Len(s) THEN SubSeq(s, 1, n) ELSE s
Leaves(s, n) == SubSeq(s, n + 1, Len(s))
ReplayRetrieve ==
  /\ At("replay", "retrieve")
  /\ LET n == Len(g.turn.calls)
     IN /\ g' = RetrieveNode(ctx, g, Takes(script.calls, n))
        /\ script' = IF \A i \in 1..n : script.calls[i].tool = g.turn.calls[i]
                     THEN [script EXCEPT !.calls = Leaves(@, n)]
                     ELSE Problem([script EXCEPT !.calls = Leaves(@, n)], "another call")
  /\ UNCHANGED <<phase, ctx, called, row, lost>>
ReplayGrade ==
  /\ At("replay", "grade")
  /\ LET asked == ToAsk(ctx, g)
         n == Len(asked)
         handed == Takes(script.asks, n)
         verdict(i) == IF i \in DOMAIN handed THEN handed[i].said ELSE "raises"
         left == [script EXCEPT !.asks = Leaves(@, n)]
     IN /\ g' = GradeNode(ctx, g, [i \in DOMAIN asked |-> verdict(i)])
        /\ script' = IF Len(handed) = n /\ \A i \in 1..n : handed[i].key = asked[i] THEN left
                     ELSE Problem(left, "another verdict")
  /\ UNCHANGED <<phase, ctx, called, row, lost>>
ReplayFinal ==
  /\ At("replay", "final")
  /\ g' = FinalNode(g, NextTurn) /\ script' = IF Forces(g) THEN TurnTaken ELSE script
  /\ UNCHANGED <<phase, ctx, called, row, lost>>
Compares ==
  /\ At("replay", "end")
  /\ phase' = "compared"
  /\ UNCHANGED <<ctx, g, called, row, script, lost>>

Live == Asks \/ LiveModel \/ LiveRetrieve \/ LiveGrade \/ LiveFinal \/ StandFails \/ Breaks \/ Logs
Replay == Replays \/ ReplayModel \/ ReplayRetrieve \/ ReplayGrade \/ ReplayFinal \/ Compares
Rests == phase \in {"compared", "fault"} /\ UNCHANGED agvars
Next == Live \/ Falls \/ Emits \/ Replay \/ Rests
Spec == Init /\ [][Next]_agvars

-----------------------------------------------------------------------------
TypeOK ==
  /\ phase \in {"asked", "live", "logged", "replay", "compared", "fault"}
  /\ g.node \in {"model", "retrieve", "grade", "fallback", "emit", "final", "end"}
  /\ g.hops \in 0..MaxHops + 1 /\ g.nudges \in 0..1 /\ called \in 0..MaxCalls
  /\ g.text \in Texts /\ g.reason \in {"none", "empty", "weak", "off_topic", "graded_out"}
  /\ lost \subseteq {"restate", "tool", "turn", "error", "verdict", "distance", "graph"}

(* The slack of the recursion limit is never used up, so no row is thrown  *)
(* away as a runaway loop.                                                 *)
NeverRunsAway == g.steps < RecursionLimit

Spans(s) == {s.spans[i] : i \in DOMAIN s.spans}
(* A toolbox held a tool of the outside only by the model's own choice or  *)
(* after a hop whose search gave nothing to read, whatever the grader threw *)
(* out: never for an off-topic question.                                   *)
GradedOut(span) == \E plan \in span.graded : ToSet(plan.order) = plan.dropped
OutsideNeedsEmptyCorpus ==
  \A i \in DOMAIN g.offered : g.offered[i] # {"corpus"} =>
    /\ ~ctx.offTopic
    /\ \/ ctx.policy = "agent_choice"
       \/ \E hop \in 1..i - 1 :
            LET corpus == {s \in Spans(g) : s.hop = hop /\ s.tool = "corpus"}
            IN /\ corpus # {} /\ \A s \in corpus : s.sources = <<>>
               /\ ~(\A s \in corpus : GradedOut(s))

(* What the grader read as foreign once is read by no later turn.          *)
GradedOutIsNeverRead ==
  \A i \in DOMAIN g.contexts : g.contexts[i] \in DOMAIN g.memo => g.memo[g.contexts[i]] # "no"

(* A provider refuses a transcript with a call nothing answered.           *)
EveryCallIsAnswered ==
  g.node \in {"model", "final", "end"} =>
    FoldLeft(LAMBDA n, m : n + Len(m.calls), 0, g.transcript)
      = Len(SelectSeq(g.transcript, LAMBDA m : m.role = "tool"))

(* The spans cut the flat contexts and name the row's sources, hop by hop.  *)
SpansAddressTheRow ==
  /\ Before(g.spans, Len(g.spans) + 1) = Len(g.contexts)
  /\ \A n \in DOMAIN g.spans :
       SubSeq(g.contexts, Before(g.spans, n) + 1, Before(g.spans, n + 1)) = g.spans[n].sources
  /\ {Unique(g.sources)[i].file : i \in DOMAIN Unique(g.sources)}
       = UNION {ToSet(s.sources) : s \in Spans(g)}

(* A row whose turn failed is not also an answered one.                    *)
FailedIsNotAnswered == g.node = "end" /\ g.failed => g.text = NoText /\ Outcome(g) = "error"

(* What report compares: seven fields of the row, the toolboxes, and that   *)
(* the script was handed out to the end in its own order.                  *)
Comparable(spans) ==
  LET kept == \E i \in DOMAIN row.spans : row.spans[i].dropped # {}
  IN [i \in DOMAIN spans |-> IF kept THEN spans[i] ELSE [spans[i] EXCEPT !.dropped = {}]]
Hops(sources) == [i \in DOMAIN sources |-> [file |-> sources[i].file, hop |-> sources[i].hop]]
Alike ==
  /\ script.problems = {} /\ script.turns = <<>> /\ script.calls = <<>> /\ script.asks = <<>>
  /\ g.transcript = row.transcript /\ g.contexts = row.contexts
  /\ Hops(Unique(g.sources)) = Hops(row.sources)
  /\ g.reason = row.reason /\ Outcome(g) = row.outcome /\ g.notice = row.notice
  /\ Comparable(g.spans) = Comparable(row.spans)
  /\ row.offered # <<>> => row.offered = Takes(g.offered, Len(row.offered))

(* Where the row holds what the run met, the replay leaves the same row.   *)
ReplayedAlike == phase = "compared" /\ lost = {} => Alike
(* Violated.  orchestrators/graph.py:564 makes every door of the graph an   *)
(* argument "so a replay can hand it the row's own answers": the replay    *)
(* then takes the branch the row records.                                  *)
ReasonReplays == phase = "compared" => g.reason = row.reason
(***************************************************************************)
(* A turn of graph.py and the row it leaves: it ends under the recursion   *)
(* limit, answers every call, reads nothing the grader threw out, goes     *)
(* outside only over an empty corpus, and its row says what happened.      *)
(***************************************************************************)
TurnHolds ==
  /\ TypeOK
  /\ NeverRunsAway
  /\ OutsideNeedsEmptyCorpus
  /\ GradedOutIsNeverRead
  /\ EveryCallIsAnswered
  /\ SpansAddressTheRow
  /\ FailedIsNotAnswered
=============================================================================
