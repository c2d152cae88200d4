--------------------------------- MODULE Cuts --------------------------------
(***************************************************************************)
(* How one markdown file becomes chunks (app/ingest.py, sources/base.py):  *)
(* sections by their headings, a section that does not fit by its          *)
(* subheadings and then by size, slivers joined to a neighbour, tiny       *)
(* sections joined to another section, and sections of the book's matter   *)
(* left out at the end.  A line is a heading or a word of text; a length   *)
(* is a number of lines.  Fences are a converter's and are not told apart. *)
(* Pure: one file and one policy, one answer.                              *)
(***************************************************************************)
EXTENDS Integers, Sequences, FiniteSets, SequencesExt

CONSTANTS MaxLines, Ceilings, Sliver

VARIABLES file, policy, made
tvars == <<file, policy, made>>

(* a line: its place in the file, what it is, and whether a blank line stands before it *)
Kinds == {"title", "top", "sub", "word"}
Line(tag, kind, para) == [tag |-> tag, kind |-> kind, para |-> para]
HasText(text) == \E i \in DOMAIN text : text[i].kind = "word"
Words(text) == SelectSeq(text, LAMBDA l : l.kind = "word")

-----------------------------------------------------------------------------
(* split_by_size: paragraphs packed up to the size; one longer than it is cut into pieces of it *)
Paragraphs(text) ==
  FoldLeft(LAMBDA acc, l : IF l.para \/ acc = <<>> THEN Append(acc, <<l>>) ELSE [acc EXCEPT ![Len(acc)] = Append(@, l)],
           <<>>, text)
Slices(part, size) ==
  [k \in 1..((Len(part) + size - 1) \div size) |->
     SubSeq(part, (k - 1) * size + 1, IF k * size < Len(part) THEN k * size ELSE Len(part))]
Held(s) == IF s = <<>> THEN <<>> ELSE <<s>>
Pack(acc, part, size) ==
  IF Len(acc.held) + Len(part) <= size THEN [acc EXCEPT !.held = @ \o part]
  ELSE IF Len(part) > size THEN [out |-> acc.out \o Held(acc.held) \o Slices(part, size), held |-> <<>>]
  ELSE [out |-> acc.out \o Held(acc.held), held |-> part]
SplitBySize(text, size) ==
  IF Len(text) <= size THEN <<text>>
  ELSE LET acc == FoldLeft(LAMBDA a, part : Pack(a, part, size), [out |-> <<>>, held |-> <<>>], Paragraphs(text))
       IN  acc.out \o Held(acc.held)

(* _budget: the ceiling is on the body, or on the chunk with its headings *)
Budget(prefix) == IF policy.on = "body" \/ policy.ceiling - Len(prefix) < 1
                    THEN IF policy.on = "body" THEN policy.ceiling ELSE 1
                    ELSE policy.ceiling - Len(prefix)

(* _absorb_textless: a piece of headings alone goes to a neighbour, and what grew is cut again *)
AbsorbTextless(pieces, size) ==
  LET merged == FoldLeft(LAMBDA acc, p : IF acc # <<>> /\ (~HasText(p) \/ ~HasText(Last(acc)))
                                           THEN [acc EXCEPT ![Len(acc)] = @ \o p] ELSE Append(acc, p), <<>>, pieces)
  IN  FlattenSeq([i \in DOMAIN merged |-> SplitBySize(merged[i], size)])

-----------------------------------------------------------------------------
(* section_root_for: the file's first heading is its root, 0 without one *)
RootOf(lines) == LET H == {i \in DOMAIN lines : lines[i].kind # "word"}
                 IN  IF H = {} THEN <<>> ELSE <<lines[CHOOSE i \in H : \A j \in H : i <= j].tag>>

(* _sections: from one mark of the kind to the next, the text before the first one under no heading *)
Between(lines, kind) ==
  FoldLeft(LAMBDA acc, l : IF l.kind = kind THEN Append(acc, [heading |-> <<l.tag>>, lines |-> <<>>])
                           ELSE [acc EXCEPT ![Len(acc)].lines = Append(@, l)],
           <<[heading |-> <<>>, lines |-> <<>>]>>, lines)
WithoutTitle(lines) == IF lines # <<>> /\ lines[1].kind = "title" THEN Tail(lines) ELSE lines
(* _bodied_sections, _prefix_and_path: the path is the prefix's, and the first section is the root's own *)
Sections(lines) ==
  LET found == Between(lines, "top")
      body(s) == IF s.heading = <<>> THEN WithoutTitle(s.lines) ELSE s.lines
  IN  SelectSeq([i \in DOMAIN found |-> [path |-> RootOf(lines) \o found[i].heading, lines |-> body(found[i])]],
                LAMBDA s : HasText(s.lines))

Cut(prefix, body, section, by) == [prefix |-> prefix, body |-> body, section |-> section, by |-> by]

(* _by_size *)
BySize(s) ==
  LET pieces == AbsorbTextless(SplitBySize(s.lines, Budget(s.path)), Budget(s.path))
  IN  [i \in DOMAIN pieces |-> Cut(s.path, pieces[i], s.path, IF Len(pieces) > 1 THEN "size" ELSE "section")]
CutWithRoot(lines) == LET S == Sections(lines) IN FlattenSeq([i \in DOMAIN S |-> BySize(S[i])])

(* a text under its heading, one line above it *)
Under(tag, body) == <<Line(tag, "sub", TRUE)>> \o [i \in DOMAIN body |-> [body[i] EXCEPT !.para = @ /\ i > 1]]
Headed(tag, body) == IF tag = <<>> \/ (body # <<>> /\ body[1].kind = "sub") THEN body ELSE Under(tag[1], body)

(* _by_subsection: the pieces of a section, the head's first; a subheading alone is a piece too *)
Sized(prefix, heading, text) ==
  LET split == SplitBySize(text, Budget(prefix))
  IN  [i \in DOMAIN split |-> [prefix |-> prefix, heading |-> heading, body |-> split[i],
                               by |-> IF Len(split) > 1 THEN "size" ELSE "subsection"]]
PiecesOf(s) ==
  LET subs == Between(s.lines, "sub")
      of(p) == IF p.lines = <<>> /\ p.heading = <<>> THEN <<>>
               ELSE IF p.lines = <<>> THEN <<[prefix |-> s.path, heading |-> p.heading,
                                              body |-> <<Line(p.heading[1], "sub", TRUE)>>, by |-> "subsection"]>>
               ELSE Sized(s.path \o p.heading, p.heading, p.lines)
  IN  FlattenSeq([i \in DOMAIN subs |-> of(subs[i])])

(* _merge_slivers: a short piece joins the one before it, the first one the one after it *)
Joins(body) == ~HasText(body) \/ Len(body) < Sliver
Fits(joined, textless, prefix) == textless \/ Len(joined) <= Budget(prefix)
Sliver1(acc, pieces, i, path) ==
  LET p == pieces[i]
      body == acc.carried \o p.body
      textless == ~HasText(body)
      next == Headed(p.heading, body) \o (IF i < Len(pieces) THEN pieces[i + 1].body ELSE <<>>)
      back == IF acc.out = <<>> THEN <<>> ELSE Last(acc.out).body \o Headed(p.heading, body)
  IN  IF Joins(body) /\ acc.out = <<>> /\ i < Len(pieces) /\ Fits(next, textless, pieces[i + 1].prefix)
        THEN [acc EXCEPT !.carried = Headed(p.heading, body)]
      ELSE IF Joins(body) /\ acc.out # <<>> /\ Fits(back, textless, Last(acc.out).prefix)
        THEN [out |-> [acc.out EXCEPT ![Len(acc.out)].body = back], carried |-> <<>>]
      ELSE [out |-> Append(acc.out, Cut(p.prefix, body, path, p.by)), carried |-> <<>>]
MergeSlivers(pieces, path) ==
  LET out == FoldLeftDomain(LAMBDA acc, i : Sliver1(acc, pieces, i, path), [out |-> <<>>, carried |-> <<>>], pieces).out
      again(c) == LET split == SplitBySize(c.body, Budget(c.prefix))
                  IN  [j \in DOMAIN split |-> [c EXCEPT !.body = split[j], !.by = IF Len(split) > 1 THEN "size" ELSE @]]
  IN  FlattenSeq([i \in DOMAIN out |-> again(out[i])])

(* cut_structured *)
CutStructured(lines) ==
  LET S == Sections(lines)
      of(s) == IF Len(s.lines) <= Budget(s.path) \/ \A i \in DOMAIN s.lines : s.lines[i].kind # "sub" THEN BySize(s)
               ELSE MergeSlivers(PiecesOf(s), s.path)
  IN  FlattenSeq([i \in DOMAIN S |-> of(S[i])])

-----------------------------------------------------------------------------
(* merge_tiny_sections: a short section of one chunk joins the chunk before it, or the one after it, *)
(* under its own heading; a text it was carried to is put back under its own *)
(* a section joined without its heading *)
BareCut(c) == c.body
HeadedCut(c) == IF Len(c.section) > 1 THEN Under(Last(c.section), c.body) ELSE c.body
Tiny(cuts, i) ==
  /\ Cardinality({j \in DOMAIN cuts : cuts[j].section = cuts[i].section}) = 1
  /\ Len(cuts[i].body) < policy.under
Tiny1(acc, cuts, i) ==
  LET c == cuts[i]
      own == acc.carried \o HeadedCut(c)
      body == IF acc.carried = <<>> THEN c.body ELSE own
      back == IF acc.out = <<>> THEN <<>> ELSE Last(acc.out).body \o own
  IN  IF Tiny(cuts, i) /\ acc.out # <<>> /\ Len(back) <= Budget(Last(acc.out).prefix)
        THEN [out |-> [acc.out EXCEPT ![Len(acc.out)].body = back], carried |-> <<>>]
      ELSE IF Tiny(cuts, i) /\ i < Len(cuts) /\ Len(own \o HeadedCut(cuts[i + 1])) <= Budget(cuts[i + 1].prefix)
        THEN [acc EXCEPT !.carried = own]
      ELSE [out |-> Append(acc.out, [c EXCEPT !.body = body]), carried |-> <<>>]
MergeTiny(cuts) ==
  IF policy.under = 0 THEN cuts
  ELSE FoldLeftDomain(LAMBDA acc, i : Tiny1(acc, cuts, i), [out |-> <<>>, carried |-> <<>>], cuts).out

(* cuts_of *)
CutsOf == MergeTiny(IF policy.chunker = "structured" THEN CutStructured(file.lines) ELSE CutWithRoot(file.lines))
(* documents: a chunk of a section of the book's matter is left out, and its section is named *)
IsMatter(section) == section # <<>> /\ Last(section) \in file.matter
Documents ==
  LET cuts == CutsOf
      kept == SelectSeq(cuts, LAMBDA c : ~IsMatter(c.section))
  IN  [docs |-> kept, left |-> {c.section : c \in {d \in Range(cuts) : IsMatter(d.section)}}, cuts |-> cuts]

-----------------------------------------------------------------------------
Shapes == [kind : {"top", "sub"}, para : {TRUE}] \cup [kind : {"word"}, para : BOOLEAN]
Files == {[i \in DOMAIN s |-> Line(i, IF i = 1 /\ t /\ s[i].kind = "top" THEN "title" ELSE s[i].kind, s[i].para)] :
            s \in UNION {[1..n -> Shapes] : n \in 1..MaxLines}, t \in BOOLEAN}
Tags(lines, kind) == {lines[i].tag : i \in {j \in DOMAIN lines : lines[j].kind = kind}}

NoChunks == [docs |-> <<>>, left |-> {}, cuts |-> <<>>]
TInit ==
  /\ \E lines \in Files : \E M \in {{}} \cup {{t} : t \in Tags(lines, "top")} : file = [lines |-> lines, matter |-> M]
  /\ policy \in [chunker : {"structured", "root"}, ceiling : Ceilings, on : {"body", "content"}, under : {0, 2}]
  /\ made = NoChunks
Cuts == made = NoChunks /\ HasText(file.lines) /\ made' = Documents /\ UNCHANGED <<file, policy>>
TNext == Cuts
TSpec == TInit /\ [][TNext]_tvars

-----------------------------------------------------------------------------
All == made.cuts
Cutten == All # <<>>
(* the heading of its level a line of the file stands under, its root before the first *)
HeadingOf(kinds, tag) ==
  LET H == {i \in 1..(tag - 1) : file.lines[i].kind \in kinds}
  IN  IF H = {} THEN <<>> ELSE <<CHOOSE i \in H : \A j \in H : j <= i>>
TopOf(tag) == LET h == HeadingOf({"top"}, tag) IN IF h = <<>> THEN RootOf(file.lines) ELSE h
(* the section a reader of the chunk takes a line for: the last section's heading above it in the text, *)
(* or the chunk's own *)
ReadUnder(c, i) ==
  LET H == {j \in 1..i : c.body[j].kind = "sub" /\ c.body[j].tag \in Tags(file.lines, "top") \cup Range(RootOf(file.lines))}
  IN  IF H = {} THEN (IF c.section = <<>> THEN <<>> ELSE <<Last(c.section)>>)
      ELSE <<c.body[CHOOSE j \in H : \A k \in H : k <= j].tag>>
SubUnder(c, i) ==
  LET H == {j \in 1..i : c.body[j].kind = "sub"}
  IN  IF H # {} THEN <<c.body[CHOOSE j \in H : \A k \in H : k <= j].tag>>
      ELSE IF c.prefix = <<>> THEN <<>> ELSE <<Last(c.prefix)>>

TTypeOK == policy.ceiling \in Ceilings /\ \A i \in DOMAIN All : All[i].by \in {"section", "subsection", "size"}

(* Every word is in one chunk and the chunks are in the file's order: no cut and no join loses or *)
(* repeats a text, whatever is carried over to a neighbour. *)
TagsOf(text) == [i \in DOMAIN text |-> text[i].tag]
TextOnce == Cutten =>
  TagsOf(FlattenSeq([i \in DOMAIN All |-> Words(All[i].body)])) = TagsOf(Words(file.lines))

(* No chunk is over the ceiling, the joins of headings and slivers included. *)
WithinBudget == \A i \in DOMAIN All : Len(All[i].body) <= Budget(All[i].prefix)

(* A text is read under its own section, though its section was joined to another's chunk or *)
(* another's was carried into its own.  What stands before the first section has no heading to take *)
(* along: carried into the next chunk, it is read under that. *)
ReadUnderItsSection == \A c \in Range(All) : \A i \in DOMAIN c.body :
  c.body[i].kind = "word" /\ HeadingOf({"top"}, c.body[i].tag) # <<>> => ReadUnder(c, i) = TopOf(c.body[i].tag)

(* A chunk that says the author's structure cut it holds its section's text whole. *)
SectionIsWhole == \A c \in Range(All) : c.by = "section" =>
  \A i \in DOMAIN file.lines : file.lines[i].kind = "word" /\ c.section = RootOf(file.lines) \o HeadingOf({"top"}, i)
    => \E j \in DOMAIN c.body : c.body[j].tag = i

CutsHold == TTypeOK /\ TextOnce /\ WithinBudget /\ ReadUnderItsSection /\ SectionIsWhole

(* Not run, violated: sources/base.py:242, what is left out is named.  A tiny section is joined to the *)
(* chunk of the matter before it, and goes with it. *)
LeftOutIsNamed == Cutten => \A i \in DOMAIN file.lines :
  file.lines[i].kind = "word" /\ (\A c \in Range(made.docs) : \A j \in DOMAIN c.body : c.body[j].tag # i)
    => Range(TopOf(i)) \cap file.matter # {}
(* Not run, violated: ingest.py:365, the text after a carried one is put back under its own heading; *)
(* a sliver carried over the next subsection's text leaves that under the sliver's. *)
NoForeignSubheading == Cutten => \A c \in Range(All) : \A i \in DOMAIN c.body :
  c.body[i].kind = "word" =>
    SubUnder(c, i) \in {HeadingOf({"sub"}, c.body[i].tag), TopOf(c.body[i].tag), RootOf(file.lines), <<>>}
=============================================================================
