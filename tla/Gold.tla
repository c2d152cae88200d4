-------------------------------- MODULE Gold ---------------------------------
(***************************************************************************)
(* The converter's gold: documents fetched by their manifest, the sections *)
(* drawn from them, their cuts, golds and site pages, and the scores of a  *)
(* run over them.  Every command is asked for by hand, for every document  *)
(* or for some, in any order, and leaves files and ledgers the next one    *)
(* reads.  A section is named by its place in the draw, so another draw    *)
(* puts another section under the name.  A fetch and a walk of pages may   *)
(* be cut off between a file and its row, and a page saved once is kept.   *)
(* Source: scripts/converter_gold.py.                                      *)
(***************************************************************************)
EXTENDS Naturals, Sequences, FiniteSets

CONSTANTS
  Books, Sites,  \* documents with a source repository; documents whose site is their source
  Titles,        \* the sections a draw by the seed takes from each release of a document
  MaxReleases,   \* bound of the model: documents that have another release
  MaxOdd         \* bound of the model: commands asked for some documents, and commands cut off

VARIABLES
  upstream,      \* each document: the release its publisher shows
  disk, ledger,  \* the release fetched; what fetched.json says of it and of the pair
  drawn,         \* sections.json: each document's sections by place
  cuts,          \* files/sections: each cut by its name, what its pages hold
  index,         \* site/: the release its pages were listed at, the page of each place, the release of each page saved
  golds,         \* gold.json and the markdown it names
  pages,         \* html.json: each document's page rows; none before it is written
  html, pageGold,\* the pages saved and their golds, by name
  out,           \* what a run made of the cuts
  behind,        \* ghost: the commands a document is owed since their input moved
  spoilt,        \* ghost: documents a command asked for others changed
  odd,           \* the count under MaxOdd
  torn           \* ghost: the documents whose fetch, or walk of pages, was cut off since the last whole one

gdvars == <<upstream, disk, ledger, drawn, cuts, index, golds, pages, html, pageGold, out, behind, spoilt, odd, torn>>

Docs == Books \cup Sites
Places == 1..2
Steps == {"draw", "site", "cut", "gold", "convert"}
Nothing == [title |-> "none", ver |-> 0]
Other == "another"
Scope(only) == IF only = {} THEN Docs ELSE only
Section(title, ver) == [title |-> title, ver |-> ver]
Shown(ver) == IF ver = 0 THEN {} ELSE {Titles[ver][i] : i \in DOMAIN Titles[ver]}
Nowhere == [p \in Places |-> Nothing]
Names == UNION {Shown(ver) : ver \in DOMAIN Titles}

GdInit ==
  /\ upstream = [d \in Docs |-> 1] /\ disk = [d \in Docs |-> 0] /\ ledger = [d \in Docs |-> [ver |-> 0, pair |-> 0]]
  /\ drawn = [d \in Docs |-> <<>>] /\ cuts = [d \in Docs |-> Nowhere]
  /\ index = [d \in Docs |-> [ver |-> 0, of |-> Nowhere, saved |-> [t \in Names |-> 0]]] /\ golds = [d \in Docs |-> Nowhere]
  /\ pages = [written |-> FALSE, of |-> [d \in Docs |-> <<>>]]
  /\ html = [d \in Docs |-> Nowhere] /\ pageGold = [d \in Docs |-> Nowhere]
  /\ out = [d \in Docs |-> Nowhere]
  /\ behind = [d \in Docs |-> Steps] /\ spoilt = {} /\ odd = 0 /\ torn = {}

-----------------------------------------------------------------------------
(* What a command asked for some documents leaves alone: the others' rows, cuts and golds, *)
(* but for the names no draw has. *)
Drawn(d) == DOMAIN drawn[d]
Kept(d) == <<drawn[d], [p \in Drawn(d) |-> cuts[d][p]], [p \in Drawn(d) |-> golds[d][p]], pages.of[d], ledger[d]>>
(* bound of the model: the commands asked for one document or cut off *)
Asked(only) == odd' = (IF only = {} THEN odd ELSE odd + 1) /\ odd' <= MaxOdd
Tells(only, ran, owed) ==
  /\ behind' = [d \in Docs |-> IF d \in Scope(only) THEN (behind[d] \ ran) \cup owed ELSE behind[d]]
  /\ spoilt' = spoilt \cup {d \in Docs \ Scope(only) : Kept(d) # Kept(d)'}

(* a release past the one fetched: a publisher's moves before the first fetch are its first release *)
Publishes(d) ==
  /\ disk[d] = upstream[d] /\ upstream[d] < Len(Titles) /\ Cardinality({e \in Docs : upstream[e] > 1}) < MaxReleases
  /\ upstream' = [upstream EXCEPT ![d] = @ + 1]
  /\ UNCHANGED <<disk, ledger, drawn, cuts, index, golds, pages, html, pageGold, out, behind, spoilt, odd, torn>>

(* fetch: a record written whole, so the pair checked over older files goes with them *)
Record(ver) == [ver |-> ver, pair |-> 0]
Fetch(only) ==
  /\ Asked(only)
  /\ disk' = [d \in Docs |-> IF d \in Scope(only) THEN upstream[d] ELSE disk[d]]
  /\ ledger' = [d \in Docs |-> IF d \in Scope(only) THEN Record(upstream[d]) ELSE ledger[d]]
  /\ torn' = torn \ (Scope(only) \X {"fetch"})
  /\ UNCHANGED <<upstream, drawn, cuts, index, golds, pages, html, pageGold, out>>
  /\ Tells(only, {}, Steps)
FetchCutOff(d) ==
  /\ Asked({d}) /\ disk[d] # upstream[d] /\ disk' = [disk EXCEPT ![d] = upstream[d]] /\ torn' = torn \cup {<<d, "fetch">>}
  /\ UNCHANGED <<upstream, ledger, drawn, cuts, index, golds, pages, html, pageGold, out>>
  /\ Tells({d}, {}, Steps)
(* pairs: the outline's titles found in the source, of the files as they lie *)
Pairs(only) ==
  /\ Asked(only)
  /\ ledger' = [d \in Docs |-> IF d \in Scope(only) \cap Books /\ disk[d] # 0 THEN [ledger[d] EXCEPT !.pair = disk[d]]
                               ELSE ledger[d]]
  /\ UNCHANGED <<upstream, disk, drawn, cuts, index, golds, pages, html, pageGold, out, torn>>
  /\ Tells(only, {}, {})

(* draw: the same seed over the same files draws the same sections; a draw of some keeps the others' rows *)
DrawOf(ver) == IF ver = 0 THEN <<>> ELSE [p \in DOMAIN Titles[ver] |-> Section(Titles[ver][p], ver)]
DrawnBeside(only, d) == IF d \in Scope(only) THEN DrawOf(disk[d]) ELSE drawn[d]
DrawnAlone(only, d) == IF d \in Scope(only) THEN DrawOf(disk[d]) ELSE <<>>
Redrawn(only, d) == DrawnBeside(only, d)
Draw(only) ==
  /\ Asked(only)
  /\ drawn' = [d \in Docs |-> Redrawn(only, d)]
  /\ UNCHANGED <<upstream, disk, ledger, cuts, index, golds, pages, html, pageGold, out, torn>>
  /\ Tells(only, {"draw"}, {"site", "cut", "gold", "convert"})

(* cut: the pages a row numbers, of the file as it lies; a cut no draw names is removed, whoever is asked for *)
PagesOf(section, ver) == IF section.ver = ver THEN section ELSE Section(Other, ver)
Cut(only) ==
  /\ Asked(only)
  /\ \E d \in Docs : drawn[d] # <<>>
  /\ cuts' = [d \in Docs |-> [p \in Places |->
       IF p \notin Drawn(d) THEN Nothing
       ELSE IF d \in Scope(only) THEN PagesOf(drawn[d][p], disk[d]) ELSE cuts[d][p]]]
  /\ UNCHANGED <<upstream, disk, ledger, drawn, index, golds, pages, html, pageGold, out, torn>>
  /\ Tells(only, {"cut"}, {"convert"})

-----------------------------------------------------------------------------
(* Site pages *)
PageRow(title, rev, ver) == [title |-> title, rev |-> rev, html |-> ver]
Places_(s) == [p \in Places |-> IF p \in DOMAIN s THEN s[p] ELSE Nothing]
Over(file, s) == [p \in Places |-> IF p \in DOMAIN s THEN s[p] ELSE file[p]]
(* what a walk leaves of each page it took: its row, the page as saved and its gold; the rows are written *)
(* document by document *)
Taken(row, page, gold) == [row |-> row, page |-> page, gold |-> gold]
Of(walk, part) == [p \in DOMAIN walk |-> walk[p][part]]
Walks(walks) ==
  /\ pages' = [written |-> pages.written \/ DOMAIN walks # {},
               of |-> [d \in Docs |-> IF d \in DOMAIN walks THEN Of(walks[d], "row") ELSE pages.of[d]]]
  /\ html' = [d \in Docs |-> IF d \in DOMAIN walks THEN Over(html[d], Of(walks[d], "page")) ELSE html[d]]
  /\ pageGold' = [d \in Docs |-> IF d \in DOMAIN walks THEN Over(pageGold[d], Of(walks[d], "gold")) ELSE pageGold[d]]
  /\ torn' = torn \ ((DOMAIN walks) \X {"walk"})
(* html: a page of each source file, fetched as the site shows it now; a page that is not there is passed over *)
HtmlPages(d) ==
  LET walked == SelectSeq(DrawOf(disk[d]), LAMBDA s : s.title \in Shown(upstream[d]))
      page(s) == Taken(PageRow(s.title, ledger[d].ver, upstream[d]), Section(s.title, upstream[d]), s)
  IN [p \in DOMAIN walked |-> page(walked[p])]
Html(only) ==
  /\ Asked(only)
  /\ \A d \in Scope(only) \cap Books : ledger[d].ver # 0
  /\ Walks([d \in Scope(only) \cap Books |-> HtmlPages(d)])
  /\ UNCHANGED <<upstream, disk, ledger, drawn, cuts, index, golds, out>>
  /\ Tells(only, {}, {})
(* cut off after a page is saved: the rows on disk are those of the walk before it *)
HtmlCutOff(d) ==
  /\ Asked({d}) /\ ledger[d].ver # 0 /\ HtmlPages(d) # <<>> /\ torn' = torn \cup {<<d, "walk">>}
  /\ html' = [html EXCEPT ![d][1] = HtmlPages(d)[1].page]
  /\ UNCHANGED <<upstream, disk, ledger, drawn, cuts, index, golds, pages, pageGold, out, behind, spoilt>>
(* site: the listing and every page saved once are kept, a page saved first by a later walk is as the site *)
(* shows it then; the places are matched anew by title, and a matched page that is gone ends the command *)
Listed(d) == IF index[d].ver = 0 THEN upstream[d] ELSE index[d].ver
Saved(d, titles) ==
  [t \in Names |-> IF index[d].saved[t] = 0 /\ t \in titles \cap Shown(upstream[d]) THEN upstream[d] ELSE index[d].saved[t]]
Matched(d, n) == {drawn[d][p].title : p \in Drawn(d) \cap 1..n} \cap Shown(Listed(d))
Reached(d) == LET saved == Saved(d, Names) IN \A t \in Matched(d, Len(drawn[d])) : saved[t] # 0
Indexed(d, titles) ==
  LET matched == Matched(d, Len(drawn[d]))
      saved == Saved(d, titles \cup matched)
  IN [ver |-> Listed(d), saved |-> saved,
      of |-> Places_([p \in Drawn(d) |->
        IF drawn[d][p].title \in matched THEN Section(drawn[d][p].title, saved[drawn[d][p].title]) ELSE Nothing])]
(* a listed page that is neither saved nor there is passed over; the gold is of the page as saved *)
SitePages(d) ==
  LET saved == Saved(d, Names)
      walked == SelectSeq(DrawOf(Listed(d)), LAMBDA s : saved[s.title] # 0)
      page(t) == Taken(PageRow(t, 0, saved[t]), Section(t, saved[t]), Section(t, saved[t]))
  IN [p \in DOMAIN walked |-> page(walked[p].title)]
Site(only) ==
  /\ Asked(only)
  /\ pages.written /\ \E d \in Docs : drawn[d] # <<>>
  /\ \A d \in Scope(only) \cap Sites : Reached(d)
  /\ index' = [d \in Docs |-> IF d \in Scope(only) \cap Sites THEN Indexed(d, Shown(Listed(d))) ELSE index[d]]
  /\ Walks([d \in Scope(only) \cap Sites |-> SitePages(d)])
  /\ UNCHANGED <<upstream, disk, ledger, drawn, cuts, golds, out>>
  /\ Tells(only, {"site"}, {"gold"})
(* cut off among the pages of the places, before the index is written; or after it, the pages of some rows *)
(* written and not the rows *)
SiteCutOff(d) ==
  /\ Asked({d}) /\ pages.written /\ \E e \in Docs : drawn[e] # <<>>
  /\ \/ /\ \E n \in DOMAIN drawn[d] : index' = [index EXCEPT ![d].saved = Saved(d, Matched(d, n))]
        /\ UNCHANGED <<html, pageGold, torn>>
     \/ \E n \in 0..Len(SitePages(d)) : LET walk == SubSeq(SitePages(d), 1, n) IN
          /\ Reached(d)
          /\ index' = [index EXCEPT ![d] = Indexed(d, {walk[p].page.title : p \in DOMAIN walk})]
          /\ html' = [html EXCEPT ![d] = Over(@, Of(walk, "page"))]
          /\ pageGold' = [pageGold EXCEPT ![d] = Over(@, Of(walk, "gold"))]
          /\ torn' = torn \cup {<<d, "walk">>}
  /\ UNCHANGED <<upstream, disk, ledger, drawn, cuts, golds, pages, out>>
  /\ Tells({d}, {}, {"gold"})

-----------------------------------------------------------------------------
(* gold: a book's section by its title in the source as it lies, a site's by the page its place was given *)
GoldOf(d, p) ==
  IF d \in Sites THEN index[d].of[p]
  ELSE IF drawn[d][p].title \in Shown(disk[d]) THEN Section(drawn[d][p].title, disk[d]) ELSE Nothing
MadeNow(only, d) == IF d \in Scope(only) THEN Drawn(d) ELSE {}
(* a gold of some documents keeps every name it did not make; a whole one keeps none *)
GoldKept(only, d, p) == IF p \in MadeNow(only, d) THEN GoldOf(d, p) ELSE IF only = {} THEN Nothing ELSE golds[d][p]
GoldKeptFirst(only, d, p) ==
  IF only # {} /\ golds[d][p] # Nothing THEN golds[d][p] ELSE IF p \in MadeNow(only, d) THEN GoldOf(d, p) ELSE Nothing
NewGold(only, d, p) == GoldKept(only, d, p)
(* _rebuild_page_golds: from the source files as they lie and the saved pages *)
Rebuilt(only, d, p) ==
  IF d \notin Scope(only) \/ p \notin DOMAIN pages.of[d] THEN pageGold[d][p]
  ELSE IF d \in Sites THEN html[d][p]
  ELSE IF pages.of[d][p].title \in Shown(disk[d]) THEN Section(pages.of[d][p].title, disk[d]) ELSE pageGold[d][p]
MakeGold(only) ==
  /\ Asked(only)
  /\ \E d \in Docs : drawn[d] # <<>>
  /\ golds' = [d \in Docs |-> [p \in Places |-> NewGold(only, d, p)]]
  /\ pageGold' = [d \in Docs |-> [p \in Places |-> Rebuilt(only, d, p)]]
  /\ UNCHANGED <<upstream, disk, ledger, drawn, cuts, index, pages, html, out, torn>>
  /\ Tells(only, {"gold"}, {})

(* a run of a converter over the cuts *)
Converts ==
  /\ Asked({})
  /\ out' = cuts
  /\ UNCHANGED <<upstream, disk, ledger, drawn, cuts, index, golds, pages, html, pageGold, torn>>
  /\ Tells({}, {"convert"}, {})

(* score: each name the run converted that has a gold, its section looked up in the draw and found by its *)
(* title in the output *)
Keys == {k \in Docs \X Places : out[k[1]][k[2]] # Nothing /\ golds[k[1]][k[2]] # Nothing}
Stumbles == \E k \in Keys : k[2] \notin Drawn(k[1])
ScoreRow(d, p) == [doc |-> d, section |-> drawn[d][p], gold |-> golds[d][p], out |-> out[d][p],
  found |-> out[d][p].title = drawn[d][p].title, fresh |-> behind[d] \ (IF d \in Books THEN {"site"} ELSE {}) = {}]
Score == {ScoreRow(k[1], k[2]) : k \in {j \in Keys : ~Stumbles}}

GdNext ==
  \/ \E d \in Docs : Publishes(d) \/ FetchCutOff(d) \/ (d \in Books /\ HtmlCutOff(d)) \/ (d \in Sites /\ SiteCutOff(d))
  \/ \E only \in {{}} \cup {{d} : d \in Docs} :
       \/ Fetch(only) \/ Pairs(only) \/ Draw(only) \/ Cut(only) \/ Html(only) \/ Site(only) \/ MakeGold(only)
  \/ Converts
GdSpec == GdInit /\ [][GdNext]_gdvars

-----------------------------------------------------------------------------
Whole(deed) == {d \in Docs : <<d, deed>> \notin torn}
GdTypeOK ==
  /\ disk \in [Docs -> 0..Len(Titles)] /\ spoilt \subseteq Docs /\ torn \subseteq Docs \X {"fetch", "walk"}
  /\ \A d \in Docs : Len(drawn[d]) <= 2 /\ behind[d] \subseteq Steps
(* The identity of a pair in the ledger was read over the files the ledger tells of. *)
PairIsOfItsFiles == \A d \in Whole("fetch") : ledger[d].pair \in {0, ledger[d].ver}
(* A command asked for some documents leaves the others' rows, cuts and golds as they were. *)
OthersStay == spoilt = {}
(* With the commands run in their order a row is found, and reads one section in its draw, its gold and *)
(* its output; a book's gold is of the very release its pages were cut from. *)
ScoredOnItsOwn ==
  \A r \in Score : r.fresh =>
    r.found /\ r.gold.title = r.section.title /\ (r.doc \in Books => r.gold.ver = r.out.ver)
(* A page row names the page that is saved, and its gold is of that page. *)
PagesAreTheirOwn ==
  \A d \in Whole("walk"), p \in Places : p \in DOMAIN pages.of[d] =>
    /\ html[d][p] = Section(pages.of[d][p].title, pages.of[d][p].html)
    /\ pageGold[d][p].title = pages.of[d][p].title
GoldHolds == GdTypeOK /\ PairIsOfItsFiles /\ OthersStay /\ ScoredOnItsOwn /\ PagesAreTheirOwn

(* Not run, violated: the source revision a page row names is the one its gold was made from        *)
(* (converter_gold.py:1241): a fetch and a gold after it rewrite the gold and not the row (:935).    *)
RevisionIsOfItsGold ==
  \A d \in Whole("walk") \cap Books, p \in Places : p \in DOMAIN pages.of[d] => pages.of[d][p].rev = pageGold[d][p].ver
(* Not run, violated: a site's gold is of the release its PDF was fetched at (:1305): the pages are saved once. *)
SiteIsOfItsRelease == \A r \in Score : r.fresh /\ r.found => r.gold.ver = r.out.ver
(* Not run, violated: a run can be scored (:1597): the gold of a name no draw has any more, kept by a *)
(* partial gold, is looked up in the draw. *)
NeverStumbles == ~Stumbles
=============================================================================
