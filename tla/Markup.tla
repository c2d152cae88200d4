------------------------------- MODULE Markup --------------------------------
(***************************************************************************)
(* How a PDF becomes pieces and a piece becomes text (app/use_cases/       *)
(* route.py, reading.py): its pages as runs of one engine, a run as pieces *)
(* that end where no code runs over the page break, a page range as the    *)
(* pieces of its own pages; and which of two readings of a piece is kept,  *)
(* with what is taken over from the other.                                 *)
(* A file's pieces made one markdown again (piece_join.py, markup.py): a   *)
(* code block a page break cut goes on in the next piece, a table goes on  *)
(* under its first header.  And the repairs of the headings                *)
(* (heading_rules.py), each over the lines outside code: the sections of   *)
(* an HTML page one level under its title, levels by the outline or by a   *)
(* section's number, the running head a converter read as a heading, a     *)
(* caption made one; and the file joined of pieces that were repaired one  *)
(* by one (reading.py).  A line is what the rules tell apart.  Pure: one   *)
(* input, one answer.                                                      *)
(***************************************************************************)
EXTENDS Integers, Sequences, FiniteSets, SequencesExt

CONSTANTS MaxPages, MaxSize, Window, MaxCells, MaxPiece, Titles, NumberOf, Captions, Deepest, MaxRows

VARIABLES task, done, parts, whole, given, repaired
pvars == <<task, done>>
jvars == <<parts, whole>>
hvars == <<given, repaired>>

Least(S) == CHOOSE x \in S : \A y \in S : x <= y
Abs(d) == IF d < 0 THEN -d ELSE d

-----------------------------------------------------------------------------
(* _pdf_runs: consecutive pages of one kind *)
Extend(runs, page, layer) ==
  IF runs # <<>> /\ Last(runs).layer = layer
    THEN [runs EXCEPT ![Len(runs)].last = page]
    ELSE Append(runs, [layer |-> layer, first |-> page, last |-> page])
RunsByKind(layered) == FoldLeftDomain(LAMBDA runs, p : Extend(runs, p, layered[p]), <<>>, layered)

(* a short raster run inside text goes to its neighbours; a file with no layer anywhere has none *)
Absorbed(layered, minRaster) ==
  LET short(r) == ~r.layer /\ r.last - r.first + 1 < minRaster
      kinds == RunsByKind(layered)
  IN  IF \E p \in DOMAIN layered : layered[p]
        THEN [i \in DOMAIN kinds |-> [kinds[i] EXCEPT !.layer = @ \/ short(kinds[i])]]
        ELSE kinds
JoinRuns(runs, r) ==
  IF runs # <<>> /\ Last(runs).layer = r.layer THEN [runs EXCEPT ![Len(runs)].last = r.last] ELSE Append(runs, r)
Runs(layered, minRaster) == FoldLeft(JoinRuns, <<>>, Absorbed(layered, minRaster))

(* mono_rows and code_crosses: code runs over a break whose two sides are both monospace *)
CodeCrosses(rows, end) == rows[end].foot /\ rows[end + 1].head

(* seamless_pieces: the end nearest to the size, within the window, that no code runs over *)
Candidates(start, end, last) == {e \in (end - Window)..(end + Window) : start <= e /\ e < last}
Clear(rows, C) == {e \in C : ~CodeCrosses(rows, e)}
(* sorted by distance, a shift back before the same shift on *)
Nearest(C, end) == CHOOSE e \in C : \A f \in C : Abs(e - end) < Abs(f - end) \/ (Abs(e - end) = Abs(f - end) /\ e <= f)
EndOf(rows, start, size, last) ==
  LET end == Least({start + size - 1, last})
      free == Clear(rows, Candidates(start, end, last))
  IN  IF end = last \/ free = {} THEN end ELSE Nearest(free, end)
Seamless(rows, layer, start, size, last) ==
  LET From[s \in Nat] ==
        IF s > last THEN <<>>
        ELSE LET end == EndOf(rows, s, size, last)
             IN  <<[first |-> s, last |-> end, layer |-> layer]>> \o From[end + 1]
  IN  From[start]

(* plan: each run's own part of the asked range, in pieces *)
PiecesOf(run, range, rows, size) ==
  LET first == IF run.first > range.first THEN run.first ELSE range.first
  IN  Seamless(rows, run.layer, first, size, Least({run.last, range.last}))
Plan(t) == FoldLeft(LAMBDA units, run : units \o PiecesOf(run, t.range, t.rows, t.size), <<>>, Runs(t.layered, t.minRaster))

-----------------------------------------------------------------------------
(* A reading of a piece: how much of it the tool read, how it agrees with the page's layer *)
(* (None for a piece without one), its tables, each with its page and its filled cells, and *)
(* whether the tables of its structure are as many as those of its markdown. *)
None == -1
Cells(tables) == FoldFunction(LAMBDA t, n : t.cells + n, 0, tables)

(* better_reading: the share of the cells a source lets go is in halves *)
EnoughCells(first, second, slack) == 2 * Cells(second.tables) >= Cells(first.tables) * (2 - slack)
Better(first, second, slack) ==
  /\ None \notin {first.f1, second.f1}
  /\ second.f1 > first.f1 /\ EnoughCells(first, second, slack)

(* splice_tables: a table of the prose reading gives way to the other's at its page and place, *)
(* where both readings say which page each of their tables is on *)
Nth(tables, i) == Cardinality({j \in 1..i : tables[j].page = tables[i].page})
SamePlace(ours, i, theirs) == {j \in DOMAIN theirs : theirs[j].page = ours[i].page /\ Nth(theirs, j) = Nth(ours, i)}
TakesTable(ours, i, theirs) == \E j \in SamePlace(ours, i, theirs) : theirs[j].cells > ours[i].cells
Spliced(prose, other) ==
  IF prose.aligned /\ other.aligned THEN {i \in DOMAIN prose.tables : TakesTable(prose.tables, i, other.tables)} ELSE {}
Splice(prose, other) ==
  LET theirs(i) == other.tables[CHOOSE j \in SamePlace(prose.tables, i, other.tables) : TRUE]
  IN  [prose EXCEPT !.tables = [i \in DOMAIN @ |-> IF i \in Spliced(prose, other) THEN theirs(i) ELSE @[i]]]

Kept(r, name, asked) == [reading |-> r, settings |-> name, asked |-> asked]

(* _reread_partial: the second reading is taken when it is whole, else the first stands *)
OfPartial(first, again) ==
  IF again.status = "success" THEN Kept(again, "reread", 2) ELSE Kept(first, "planned", 2)

(* read_piece: by the planned settings, and again when the tool read a part or agrees badly *)
ReadPiece(t) ==
  IF t.engine # "docling" \/ t.name = "reread" THEN Kept(t.first, t.name, 1)
  ELSE IF t.first.status = "partial" THEN OfPartial(t.first, t.again)
  ELSE IF t.first.f1 = None \/ t.first.f1 >= t.floor THEN Kept(t.first, t.name, 1)
  ELSE IF Better(t.first, t.again, t.slack) THEN Kept(t.again, "reread", 2)
  ELSE IF /\ t.splices /\ None \notin {t.first.f1, t.again.f1} /\ t.again.f1 > t.first.f1
          /\ Cells(t.again.tables) < Cells(t.first.tables) /\ Spliced(t.again, t.first) # {}
    THEN Kept(Splice(t.again, t.first), "reread", 2)
  ELSE Kept(t.first, t.name, 2)

-----------------------------------------------------------------------------
Tables == {<<>>} \cup {<<[page |-> 1, cells |-> c]>> : c \in 0..MaxCells}
          \cup {<<[page |-> p, cells |-> c], [page |-> 2, cells |-> d]>> : p \in {1, 2}, c \in 0..MaxCells, d \in 0..MaxCells}
Readings == {g \in [status : {"success", "partial"}, f1 : {None, 0, 1}, tables : Tables, aligned : BOOLEAN] :
  g.tables = <<>> => g.aligned}

PlanTasks ==
  {[what |-> "plan", layered |-> l, minRaster |-> m, rows |-> [p \in DOMAIN l |-> r[p]],
    size |-> s, range |-> [first |-> a, last |-> b]] :
     l \in UNION {[1..n -> BOOLEAN] : n \in 1..MaxPages}, m \in {1, 2}, r \in [1..MaxPages -> {[head |-> TRUE, foot |-> TRUE],
     [head |-> FALSE, foot |-> TRUE]}], s \in 1..MaxSize, a \in {1, 2}, b \in {MaxPages - 1, MaxPages}}
ReadTask(engine, name, first, again, slack, splices) ==
  [what |-> "read", engine |-> engine, name |-> name, first |-> first, again |-> again, floor |-> 1,
   slack |-> slack, splices |-> splices]

PInit ==
  /\ \/ task \in {t \in PlanTasks : t.range.last <= Len(t.layered) /\ t.range.first <= t.range.last}
     \/ \E f \in Readings, g \in Readings, k \in {0, 1}, b \in BOOLEAN : task = ReadTask("docling", "planned", f, g, k, b)
     (* never read again *)
     \/ \E f \in Readings, e \in {"docling", "mineru"}, n \in {"planned", "reread"} :
          (e # "docling" \/ n = "reread") /\ task = ReadTask(e, n, f, f, 0, TRUE)
  /\ done = <<>>
Plans == task.what = "plan" /\ done = <<>> /\ done' = Plan(task) /\ UNCHANGED task
Reading == task.what = "read" /\ done = <<>> /\ done' = ReadPiece(task) /\ UNCHANGED task
PNext == Plans \/ Reading
PSpec == PInit /\ [][PNext]_pvars

Planned == task.what = "plan" /\ done # <<>>
Read == task.what = "read" /\ done # <<>>

PTypeOK == task.what \in {"plan", "read"} /\ (Read => done.asked \in {1, 2})

(* The pieces of a range are its pages, each once and in their order, whatever the runs, the *)
(* seams and the size: a page that no piece holds is text the corpus never sees. *)
PagesOnce == Planned =>
  /\ done[1].first = task.range.first /\ Last(done).last = task.range.last
  /\ \A i \in DOMAIN done : done[i].first <= done[i].last /\ (i > 1 => done[i].first = done[i - 1].last + 1)

(* A piece is no longer than its settings' size and the window, the converter's memory, and a *)
(* break that code runs over is cut only where every end in reach is such a break. *)
CutsSpareCode == Planned => \A i \in DOMAIN done :
  /\ done[i].last - done[i].first + 1 <= task.size + Window
  /\ i < Len(done) /\ done[i].layer = done[i + 1].layer /\ CodeCrosses(task.rows, done[i].last)
       => \A e \in Candidates(done[i].first, Least({done[i].first + task.size - 1, task.range.last}), done[i + 1].first) :
            CodeCrosses(task.rows, e)

(* A page with a layer is read by Docling, and the pages of a long scanned stretch never are. *)
EnginesByLayer == Planned => \A i \in DOMAIN done : \A p \in done[i].first..done[i].last :
  /\ task.layered[p] => done[i].layer
  /\ ~task.layered[p] /\ done[i].layer =>
       \E q \in DOMAIN task.layered : task.layered[q] /\ Abs(q - p) <= task.minRaster - 1

(* A piece read in part gives way only to a whole reading; one that agreed badly only to a *)
(* reading that agrees better, and never at the cost of more of the tables' filled cells than the *)
(* source lets go: either enough are left, or each table the prose has is at least its own. *)
KeepsTheBetter == Read /\ done.settings # task.name =>
  \/ task.first.status = "partial" /\ done.reading.status = "success"
  \/ /\ done.reading.f1 > task.first.f1
     /\ \/ EnoughCells(task.first, done.reading, task.slack)
        \/ /\ Len(done.reading.tables) = Len(task.again.tables)
           /\ \A i \in DOMAIN done.reading.tables : done.reading.tables[i].cells >= task.again.tables[i].cells
           /\ Cells(done.reading.tables) > Cells(task.again.tables)

PagesHold == PTypeOK /\ PagesOnce /\ CutsSpareCode /\ EnginesByLayer /\ KeepsTheBetter

-----------------------------------------------------------------------------
(* Joins *)
(* kinds: the two fence tokens, a table's header, separator and row of two columns, a row of a *)
(* table of one, prose, and a blank *)
Fences == {"tick", "tilde"}
TableKinds == {"header", "bar", "row", "thin"}
Kinds == Fences \cup TableKinds \cup {"text"}

-----------------------------------------------------------------------------
(* fence_scan: a fence closes on its own token only; the token a text leaves open, or "none" *)
Token(lines) == FoldLeft(LAMBDA open, l : IF l.kind \notin Fences THEN open
                                          ELSE IF open = "none" THEN l.kind
                                          ELSE IF open = l.kind THEN "none" ELSE open, "none", lines)
OpenBefore(lines, i) == Token(SubSeq(lines, 1, i - 1))
(* a line inside a block, the fences themselves left out *)
Inside(lines, i) ==
  OpenBefore(lines, i) # "none" /\ ~(lines[i].kind = OpenBefore(lines, i))

Closing == [kind |-> "tick", tag |-> 0]

(* _heal_fence: the next piece's first fence is dropped, or the block is closed *)
Heal(before, after) ==
  IF Token(before) = "none" THEN [before |-> before, after |-> after, healed |-> FALSE]
  ELSE IF after # <<>> /\ after[1].kind \in Fences
    THEN [before |-> before, after |-> Tail(after), healed |-> TRUE]
    ELSE [before |-> Append(before, Closing), after |-> after, healed |-> TRUE]

(* _join_table: the last table of the first goes on in a table of as many columns that opens the *)
(* second; a line without a bar counts as one column *)
Tabular(l) == l.kind \in TableKinds
Columns(l) == IF l.kind \in {"header", "bar", "row"} THEN 2 ELSE 1
TopOf(lines) == CHOOSE t \in DOMAIN lines :
  /\ \A i \in t..Len(lines) : Tabular(lines[i])
  /\ t > 1 => ~Tabular(lines[t - 1])
JoinTable(before, after) ==
  IF \/ Len(before) < 2 \/ Len(after) < 2 \/ ~Tabular(Last(before)) \/ after[2].kind # "bar"
     \/ Columns(after[1]) # Columns(before[TopOf(before)])
    THEN [before |-> before, after |-> after, joined |-> FALSE]
    ELSE [before |-> before, joined |-> TRUE,
          after |-> IF after[1].kind = before[TopOf(before)].kind /\ after[1].kind = "header"
                      THEN SubSeq(after, 3, Len(after))
                      ELSE <<after[1]>> \o SubSeq(after, 3, Len(after))]

(* join: the pieces in page order; a break is a blank line unless a block or a table goes on over it *)
Glue(text, part) ==
  LET h == Heal(text, part)
      t == JoinTable(h.before, h.after)
  IN  IF h.healed THEN h.before \o h.after
      ELSE IF t.joined THEN t.before \o t.after
      ELSE h.before \o <<[kind |-> "blank", tag |-> 0]>> \o h.after
Join(ps) == FoldLeft(Glue, Head(ps), Tail(ps))

-----------------------------------------------------------------------------
Lines(p, n) == [1..n -> Kinds]
Piece(p, kinds) == [i \in DOMAIN kinds |-> [kind |-> kinds[i], tag |-> 10 * p + i]]

(* two pieces of any kind, and a line of a third *)
JInit ==
  /\ \E n, m \in 1..MaxPiece : \E a \in Lines(1, n), b \in Lines(2, m), c \in Lines(3, 1) :
       parts = <<Piece(1, a), Piece(2, b), Piece(3, c)>>
  /\ whole = <<>>
Joins == whole = <<>> /\ whole' = Join(parts) /\ UNCHANGED parts
JNext == Joins
JSpec == JInit /\ [][JNext]_jvars

Joined == whole # <<>>
At(tag) == {i \in DOMAIN whole : whole[i].tag = tag}
Source == UNION {{<<p, i>> : i \in DOMAIN parts[p]} : p \in DOMAIN parts}
OneToken == \A s \in Source : parts[s[1]][s[2]].kind # "tilde"

JTypeOK == \A i \in DOMAIN whole : whole[i].kind \in Kinds \cup {"blank"}

(* Every line of text and every row is in the whole once and in its place; what a join drops is *)
(* the fence that reopens a cut block, and the repeated header and the bar of a cut table. *)
NothingIsLost == Joined =>
  /\ \A s \in Source : LET l == parts[s[1]][s[2]] IN
       Cardinality(At(l.tag)) = 1 \/ (l.kind \in Fences \cup {"header", "bar"} /\ At(l.tag) = {} /\ s[1] > 1 /\ s[2] <= 2)
  /\ \A i, j \in DOMAIN whole : i < j /\ whole[i].tag # 0 /\ whole[j].tag # 0 => whole[i].tag < whole[j].tag

(* With one fence token no prose is swallowed by a block another piece left open, and no code *)
(* falls out of one: a line of prose or a row is inside a block of the whole as it is of its own *)
(* piece, but for the lines a cut block goes on over. *)
NoProseSwallowed == Joined /\ OneToken => \A s \in Source : \A i \in At(parts[s[1]][s[2]].tag) :
  whole[i].kind \notin Fences => (Inside(whole, i) <=> Inside(parts[s[1]], s[2]))

JoinsHold == JTypeOK /\ NothingIsLost /\ NoProseSwallowed

(* Not run, violated: a block is closed by its own token only (markup.py:5): the join closes one left *)
(* open by the other token, and the prose after it is read as code. *)
NoneSwallowed == Joined => \A s \in Source : \A i \in At(parts[s[1]][s[2]].tag) :
  whole[i].kind \notin Fences => (Inside(whole, i) <=> Inside(parts[s[1]], s[2]))

-----------------------------------------------------------------------------
(* Headings *)
Fence(token) == [kind |-> token, level |-> 0, title |-> "none"]
Heading(l, t) == [kind |-> "head", level |-> l, title |-> t]
Word == [kind |-> "word", level |-> 0, title |-> "none"]
InCode(lines, i) == OpenBefore(lines, i) # "none"
Heads(lines) == {i \in DOMAIN lines : lines[i].kind = "head" /\ ~InCode(lines, i)}
(* a heading of a level markdown has; _MD_HEADING reads any number of marks *)
Marks(lines) == {i \in Heads(lines) : lines[i].level <= Deepest}
First(S) == CHOOSE x \in S : \A y \in S : x <= y
Lesser(a, b) == IF a < b THEN a ELSE b
Greater(a, b) == IF a < b THEN b ELSE a

-----------------------------------------------------------------------------
(* one_title: only where the page's first heading is its title, the title's level comes again, and no *)
(* section stands between the two *)
Sunk(lines) ==
  LET H == Marks(lines)
      ones == {i \in H : lines[i].level = 1}
      again == ones \ {First(H)}
  IN  IF H = {} \/ again = {} \/ First(H) \notin ones \/ \E i \in H : i < First(again) /\ lines[i].level = 2
        THEN {} ELSE H \ {First(H)}
OneTitle(lines) ==
  LET sunk == Sunk(lines)
  IN  [i \in DOMAIN lines |-> IF i \in sunk THEN [lines[i] EXCEPT !.level = Lesser(@ + 1, Deepest)] ELSE lines[i]]

(* a heading the outline lacks left at the level it was read at *)
LevelAsRead(acc, l, hit, byNumber) ==
  IF byNumber /\ NumberOf[l.title] > 0 THEN Lesser(NumberOf[l.title], Deepest)
  ELSE IF hit # 0 THEN Lesser(Greater(given.matched[hit].depth - given.base + 1, 1), Deepest)
  ELSE IF l.level > Deepest THEN 0 ELSE l.level
(* relevel: the matched headings in their order; the rest go down with the one above, a number says its own *)
(* depth, and a level past the deepest is a bold line.  Its own fence rule knows one token. *)
Level(acc, l, hit, byNumber) ==
  IF byNumber /\ NumberOf[l.title] > 0 THEN Lesser(NumberOf[l.title], Deepest)
  ELSE IF hit # 0 THEN Lesser(Greater(given.matched[hit].depth - given.base + 1, 1), Deepest)
  ELSE IF l.level > Deepest THEN 0 ELSE Lesser(l.level + acc.shift, Deepest)
Relevel1(acc, l, byNumber) ==
  LET hits == {k \in DOMAIN given.matched : k > acc.at /\ given.matched[k].title = l.title}
      hit == IF hits = {} THEN 0 ELSE First(hits)
      level == Level(acc, l, hit, byNumber)
      numbered == byNumber /\ NumberOf[l.title] > 0
  IN  IF l.kind = "tick" THEN [acc EXCEPT !.inside = ~@, !.out = Append(@, l)]
      ELSE IF acc.inside \/ l.kind # "head" THEN [acc EXCEPT !.out = Append(@, l)]
      ELSE [inside |-> FALSE, at |-> IF hit # 0 THEN hit ELSE acc.at,
            shift |-> IF hit # 0 /\ ~numbered THEN Greater(level - l.level, 0) ELSE acc.shift,
            out |-> Append(acc.out, IF level = 0 THEN [l EXCEPT !.kind = "bold"] ELSE [l EXCEPT !.level = level])]
Relevel(lines, byNumber) ==
  FoldLeft(LAMBDA acc, l : Relevel1(acc, l, byNumber), [inside |-> FALSE, at |-> 0, shift |-> 0, out |-> <<>>], lines).out

(* drop_running_headings: from its second time on; demote_caption_headings *)
DropRunning(lines, running) ==
  LET H == Heads(lines)
      again == {i \in H : lines[i].title \in running /\ \E j \in H : j < i /\ lines[j].title = lines[i].title}
  IN  FoldLeftDomain(LAMBDA out, i : IF i \in again THEN out ELSE Append(out, lines[i]), <<>>, lines)
Demote(lines) ==
  LET H == Marks(lines)
  IN  [i \in DOMAIN lines |-> IF i \in H /\ lines[i].title \in Captions THEN [lines[i] EXCEPT !.kind = "word"] ELSE lines[i]]

(* running_heads: what stands at a page's edge on enough pages of the piece is on them of the file *)
(* whole_file: the pieces, each with its own running heads dropped, joined and gone over again *)
PieceByPiece(a, b) == DropRunning(DropRunning(a, given.running[1]) \o DropRunning(b, given.running[2]),
                                  given.running[1] \cup given.running[2])

Repaired(lines) ==
  [title |-> OneTitle(lines), outline |-> Relevel(lines, FALSE), number |-> Relevel(lines, TRUE),
   running |-> DropRunning(lines, given.running[1]), caption |-> Demote(lines), whole |-> PieceByPiece(lines, given.other)]

-----------------------------------------------------------------------------
LineSet == {Fence("tick"), Fence("tilde"), Word} \cup {Heading(l, t) : l \in 1..(Deepest + 1), t \in Titles}
(* the base is one above the outline's shallowest entry *)
Matched(base) == {<<>>} \cup {<<[title |-> t, depth |-> d]>> : t \in Titles, d \in (base + 1)..Deepest}
Others == {<<>>, <<Heading(1, CHOOSE t \in Titles : TRUE), Word>>}

HInit ==
  /\ \E lines \in UNION {[1..n -> LineSet] : n \in 1..MaxRows}, b \in {0, 1}, o \in Others, r \in {{}, {CHOOSE t \in Titles : TRUE}} :
       \E m \in Matched(b) : given = [lines |-> lines, matched |-> m, base |-> b, other |-> o, running |-> <<r, {}>>]
  /\ repaired = <<>>
Repairs == repaired = <<>> /\ repaired' = Repaired(given.lines) /\ UNCHANGED given
HNext == Repairs
HSpec == HInit /\ [][HNext]_hvars

-----------------------------------------------------------------------------
Whole == repaired # <<>>
Code(lines) == {i \in DOMAIN lines : InCode(lines, i)}
OneTokenGiven == \A i \in DOMAIN given.lines : given.lines[i].kind # "tilde"

HTypeOK == Whole => Len(repaired.outline) = Len(given.lines) /\ Len(repaired.title) = Len(given.lines)

(* A repair of headings touches no line of code, a comment that reads as a heading included. *)
CodeStands == Whole => \A i \in Code(given.lines) :
  /\ repaired.title[i] = given.lines[i] /\ repaired.caption[i] = given.lines[i]
  /\ OneTokenGiven => repaired.outline[i] = given.lines[i] /\ repaired.number[i] = given.lines[i]

(* A repaired page has one title, above every section, and no section has changed places with the *)
(* one it was in. *)
NestingStands == Whole => LET H == Marks(given.lines) IN
  /\ Sunk(given.lines) # {} => \A i \in H \ {First(H)} : repaired.title[i].level > 1
  /\ \A i, j \in H : given.lines[i].level <= given.lines[j].level /\ i # First(H) =>
       repaired.title[i].level <= repaired.title[j].level \/ j = First(H)

(* A heading the outline lacks stays below the outline's heading above it if it was, so a section is *)
(* never read as another chapter's (heading_rules.py:79). *)
NeverUpToAChapter == Whole => \A i \in Heads(given.lines), j \in Heads(given.lines) :
  LET found(k) == \E m \in DOMAIN given.matched : given.matched[m].title = given.lines[k].title
  IN  /\ i < j /\ found(i) /\ \A k \in Heads(given.lines) \cap (i + 1)..j : ~found(k)
      /\ given.lines[i].level < given.lines[j].level
      /\ OneTokenGiven /\ repaired.outline[j].kind = "head"
      /\ Cardinality({k \in Heads(given.lines) : k <= i /\ given.lines[k].title = given.lines[i].title}) = 1
      => \/ repaired.outline[i].level < repaired.outline[j].level
         \/ repaired.outline[j].level = Deepest

(* Going over a file whole after its pieces drops what going over it once would: no first heading *)
(* is lost to the order of the repairs, and none is dropped but for an earlier one. *)
HeadsByPiecesOrWhole == Whole /\ Token(given.lines) = "none" =>
  repaired.whole = DropRunning(given.lines \o given.other, given.running[1] \cup given.running[2])

HeadingsHold == HTypeOK /\ CodeStands /\ NestingStands /\ NeverUpToAChapter /\ HeadsByPiecesOrWhole

(* Not run, violated: relevel reads the fence rule every repair reads (heading_rules.py:112); it knows *)
(* one of the two tokens, and a comment in a block of the other becomes a heading of another level. *)
RelevelSparesCode == Whole => \A i \in Code(given.lines) : repaired.outline[i] = given.lines[i]
=============================================================================
