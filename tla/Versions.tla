------------------------------ MODULE Versions -------------------------------
(***************************************************************************)
(* What happens to a source's chunks after the cut and before the base     *)
(* (sources/versioned.py, sources/base.py): a text that stands in many     *)
(* files is dropped where its section keeps another, and the chunks of     *)
(* several released versions become one set, a text told once with the     *)
(* versions it stands for.  Pure.                                          *)
(***************************************************************************)
EXTENDS Integers, Sequences, FiniteSets, SequencesExt, TLC

CONSTANTS Releases, Files, Texts, MaxDocs, WideFiles

VARIABLES cut, merged
uvars == <<cut, merged>>

(* A chunk of one file: its section and text; its number is its place in the file.  A release is its *)
(* place in the source's list, the newest first; a text is named with the version taken out of it. *)
Doc(f, i, s, t, v) == [file |-> f, index |-> i, section |-> s, text |-> t, versions |-> v]
Docs(release) == FlattenSeq([n \in 1..Len(Files) |->
  LET d == cut[release][Files[n]] IN [i \in DOMAIN d |-> Doc(Files[n], i, d[i].section, d[i].text, {release})]])

(* wide_bodies: the texts of at least that many files; drop_wide_boilerplate *)
Wide(docs) == {t \in Texts : Cardinality({d.file : d \in {e \in Range(docs) : e.text = t}}) >= WideFiles}
Carried(docs) == {<<d.file, d.section>> : d \in {e \in Range(docs) : e.text \notin Wide(docs)}}
DropBoilerplate(docs) ==
  LET wide == Wide(docs)
      carried == Carried(docs)
  IN  SelectSeq(docs, LAMBDA d : d.text \notin wide \/ <<d.file, d.section>> \notin carried)

(* merge_versions: the k-th copy of a text in one version meets the k-th copy in another *)
SameText(d, e) == d.section = e.section /\ d.text = e.text
Copy(docs, i) == Cardinality({j \in 1..i : SameText(docs[j], docs[i])})
Meets(kept, docs, i) == {k \in DOMAIN kept : SameText(kept[k], docs[i]) /\ kept[k].copy = Copy(docs, i)}
MergeOne(kept, docs) ==
  FoldLeftDomain(LAMBDA acc, i :
    LET same == Meets(acc, docs, i)
    IN  IF same = {} THEN Append(acc, docs[i] @@ [copy |-> Copy(docs, i)])
        ELSE [acc EXCEPT ![CHOOSE k \in same : TRUE].versions = @ \cup docs[i].versions], kept, docs)

(* _one_address_each: an older version's own chunk numbers past the file's newest *)
Highest(S) == CHOOSE x \in S : \A y \in S : y <= x
Readdress(out, d) ==
  LET mine == {out[k].index : k \in {j \in DOMAIN out : out[j].file = d.file}}
  IN  Append(out, IF d.index \in mine THEN [d EXCEPT !.index = Highest(mine) + 1] ELSE d)
OneAddressEach(kept) == FoldLeft(Readdress, <<>>, kept)

(* Versioned.documents *)
Documents == OneAddressEach(FoldLeft(LAMBDA kept, r : MergeOne(kept, DropBoilerplate(Docs(r))), <<>>, Releases))

-----------------------------------------------------------------------------
(* the first chunk of a file is alone in its section *)
SectionOf(i) == IF i = 1 THEN "s1" ELSE "s2"
OneFile == {[i \in DOMAIN ts |-> [section |-> SectionOf(i), text |-> ts[i]]] : ts \in UNION {[1..n -> Texts] : n \in 0..MaxDocs}}
OneCut == [Range(Files) -> OneFile]
UInit == cut \in [Range(Releases) -> OneCut] /\ merged = <<>>
Merges == merged = <<>> /\ merged' = Documents /\ merged' # <<>> /\ UNCHANGED cut
UNext == Merges
USpec == UInit /\ [][UNext]_uvars

Of(r, s, t) == {i \in DOMAIN merged : merged[i].section = s /\ merged[i].text = t /\ r \in merged[i].versions}
UTypeOK == \A i \in DOMAIN merged : merged[i].versions \subseteq Range(Releases) /\ merged[i].versions # {}

(* A version's search reads every text of its own release as often as the release has it, and no *)
(* other: a merge neither lends a text to a version nor takes a copy from one. *)
VersionKeepsItsTexts == merged # <<>> => \A r \in Range(Releases) : 
  LET docs == DropBoilerplate(Docs(r))
  IN  \A s \in {"s1", "s2"}, t \in Texts :
        Cardinality(Of(r, s, t)) = Cardinality({i \in DOMAIN docs : docs[i].section = s /\ docs[i].text = t})

(* A chunk is addressed by its file and number: golds and citations name it so, and no two of the *)
(* merged set share one. *)
AddressesApart == \A i, j \in DOMAIN merged :
  merged[i].file = merged[j].file /\ merged[i].index = merged[j].index => i = j

(* A text in many files goes, and yet no file's section is left without a chunk. *)
SectionKeepsAChunk == merged # <<>> => \A r \in Range(Releases) : \A d \in Range(Docs(r)) :
  \E e \in Range(DropBoilerplate(Docs(r))) : e.file = d.file /\ e.section = d.section

VersionsHold == UTypeOK /\ VersionKeepsItsTexts /\ AddressesApart /\ SectionKeepsAChunk
=============================================================================
