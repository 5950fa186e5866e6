------------------------------ MODULE LinkTags ------------------------------
(***************************************************************************)
(* The tag list of a link as LinkTagCollection and LinkTag compute it, and *)
(* the two conversions a tag goes through: the one to LinkTagEntity when   *)
(* the link is saved and the one back when it is loaded.                   *)
(*                                                                         *)
(* A collection is a sequence, as the code's List<LinkTag> is: which tag   *)
(* is last matters to Link.MergeTags.  A name is a number, so that names   *)
(* have an order; it stands for the trimmed, lower-cased string that the   *)
(* LinkTag constructor keeps.  Weights are in thousandths.                 *)
(***************************************************************************)
EXTENDS Naturals, Sequences, SequencesExt

CONSTANTS
    Names,   \* tag names, ordered as OrderBy(t => t.Name) orders them
    Dashed   \* Dashed[n]: the name n with every '/' replaced by '-'

ASSUME NamesAssumption == Names \subseteq Nat

ASSUME DashedAssumption ==
    /\ Dashed \in [Names -> Names]
    /\ \A n \in Names : Dashed[Dashed[n]] = Dashed[n]

Tag(name, count, weight) ==
    [name |-> name, count |-> count, weight |-> weight]

Tags == [name : Names, count : Nat, weight : Nat]

NewTag(name) == Tag(name, 1, 0)

NamesOf(tags) == {tags[i].name : i \in DOMAIN tags}

IsDistinct(tags) ==
    \A i, j \in DOMAIN tags : tags[i].name = tags[j].name => i = j

TotalCount(tags) == FoldLeft(LAMBDA sum, tag : sum + tag.count, 0, tags)

-----------------------------------------------------------------------------
(* LinkTag *)

\* decimal.Round(1m * count / total, 3): to the nearest thousandth, a tie to
\* the even one.
CalculateWeight(tag, total) ==
    LET whole == (1000 * tag.count) \div total
        twice == 2 * ((1000 * tag.count) % total)
        up    == twice > total \/ (twice = total /\ whole % 2 = 1)
    IN  [tag EXCEPT !.weight = IF up THEN whole + 1 ELSE whole]

\* With a total of 0 every tag keeps the weight it has.
RecalculateWeights(tags) ==
    LET total == TotalCount(tags)
    IN  IF total = 0
        THEN tags
        ELSE [i \in DOMAIN tags |-> CalculateWeight(tags[i], total)]

-----------------------------------------------------------------------------
(* LinkTagCollection *)

\* Mutant: a sort that turns ties round.
SortedUnstable(tags) ==
    LET Before(i, j) == \/ tags[i].name < tags[j].name
                        \/ tags[i].name = tags[j].name /\ i >= j
        Rank(j) == Cardinality({i \in DOMAIN tags : Before(i, j)})
    IN  [k \in DOMAIN tags |-> tags[CHOOSE j \in DOMAIN tags : Rank(j) = k]]

\* OrderBy is stable: equal names keep the order they had.
Sorted(tags) ==
    LET Before(i, j) == \/ tags[i].name < tags[j].name
                        \/ tags[i].name = tags[j].name /\ i <= j
        Rank(j) == Cardinality({i \in DOMAIN tags : Before(i, j)})
    IN  [k \in DOMAIN tags |-> tags[CHOOSE j \in DOMAIN tags : Rank(j) = k]]

Collection(tags) == RecalculateWeights(Sorted(tags))

\* Mutant: the name is not looked up.
AddTagUnseen(tags, name) == Append(tags, NewTag(name))

AddTag(tags, name) ==
    IF name \in NamesOf(tags) THEN tags ELSE Append(tags, NewTag(name))

\* Mutant: the weights are not recalculated.
AddUnweighed(tags, names) == FoldLeft(AddTag, tags, names)

\* Add(LinkTag) and Add(IEnumerable<LinkTag>): an empty argument changes
\* nothing, not even stale weights.
Add(tags, names) ==
    IF names = <<>>
    THEN tags
    ELSE RecalculateWeights(FoldLeft(AddTag, tags, names))

\* Find the first match, Remove it: a second entry of the name stays.
Delete(tags, name) ==
    IF name \notin NamesOf(tags)
    THEN tags
    ELSE RecalculateWeights(
            RemoveFirstMatch(tags, LAMBDA tag : tag.name = name))

-----------------------------------------------------------------------------
(* Link.MergeTags: the loop runs while i < existingTags.Length - 1, so the *)
(* last existing tag is never a candidate for deletion.                    *)

\* Mutant: the loop starts at the second tag.
MergeTagsFromSecond(tags, names) ==
    LET candidates == SubSeq(tags, 2, Len(tags) - 1)
        DropAbsent(kept, tag) ==
            IF tag.name \in ToSet(names) THEN kept ELSE Delete(kept, tag.name)
    IN  Add(FoldLeft(DropAbsent, tags, candidates), names)

MergeTags(tags, names) ==
    LET candidates == SubSeq(tags, 1, Len(tags) - 1)
        DropAbsent(kept, tag) ==
            IF tag.name \in ToSet(names) THEN kept ELSE Delete(kept, tag.name)
    IN  Add(FoldLeft(DropAbsent, tags, candidates), names)

-----------------------------------------------------------------------------
(* Persistence: UpdateLinkAsync writes a LinkTagEntity for every tag, and  *)
(* the constructor of the entity replaces '/' by '-'; Link.Map builds a    *)
(* collection from the entities.                                           *)

ToEntities(tags) ==
    [i \in DOMAIN tags |-> [tags[i] EXCEPT !.name = Dashed[@]]]

MapTags(entities) == Collection(entities)
=============================================================================
