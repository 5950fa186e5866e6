------------------------- MODULE LinkTagCollection -------------------------
(***************************************************************************)
(* The life of one link's tags: the collection held by a Link in memory,   *)
(* changed through the methods of LinkTagCollection, LinkTag and           *)
(* Link.MergeTags, saved by UpdateLinkAsync and loaded again by Link.Map.  *)
(* A load that drops unsaved changes leads back to an earlier state and    *)
(* needs no action.                                                        *)
(***************************************************************************)
EXTENDS LinkTags

CONSTANTS
    MaxTags,    \* bound: a list longer than this is not explored further
    MaxCount,   \* bound: the counts a tag reaches
    MaxNames    \* bound: the names one call passes

ASSUME BoundsAssumption == {MaxTags, MaxCount, MaxNames} \subseteq Nat

VARIABLE
    tags        \* LinkTagCollection._tags of the Link in memory

NameLists == SeqOf(Names, MaxNames)

\* A link starts from the tags it was submitted with.
TagsInit ==
    \E names \in NameLists : tags = Collection(Add(<<>>, names))

-----------------------------------------------------------------------------

AddOne(name) ==
    tags' = Add(tags, <<name>>)

AddMany(names) ==
    tags' = Add(tags, names)

DeleteName(name) ==
    tags' = Delete(tags, name)

Clear ==
    tags' = <<>>

\* Link.Edit (with any tags) and Link.UpdateTags (with at least one).
Merge(names) ==
    tags' = MergeTags(tags, names)

\* LinkTag.IncreaseCount, DecreaseCount and SetCount act on one tag; the
\* weights of the collection are not told.
IncreaseCount(i) ==
    /\ tags[i].count < MaxCount
    /\ tags' = [tags EXCEPT ![i].count = @ + 1]

DecreaseCount(i) ==
    /\ tags[i].count - 1 >= 0
    /\ tags' = [tags EXCEPT ![i].count = @ - 1]

SetTagCount(i, count) ==
    tags' = [tags EXCEPT ![i].count = count]

SaveAndLoadTags ==
    tags' = MapTags(ToEntities(tags))

CollectionStep ==
    \/ \E name \in Names : AddOne(name) \/ DeleteName(name)
    \/ \E names \in NameLists : AddMany(names) \/ Merge(names)

TagStep ==
    \E i \in DOMAIN tags :
        \/ IncreaseCount(i)
        \/ DecreaseCount(i)
        \/ \E count \in 0..MaxCount : SetTagCount(i, count)

TagsNext ==
    /\ CollectionStep \/ TagStep \/ Clear \/ SaveAndLoadTags
    /\ Len(tags') <= MaxTags

TagsSpec == TagsInit /\ [][TagsNext]_tags

-----------------------------------------------------------------------------

\* Stated without the rounding that computes them: the weights of a list
\* follow its counts when each is within half a thousandth of its share, and
\* together they miss 1 by no more than half a thousandth a tag.
WeightsMatch(list) ==
    LET total == TotalCount(list)
        sum == FoldLeft(LAMBDA s, tag : s + tag.weight, 0, list)
        Near(a, b, slack) == a <= b + slack /\ b <= a + slack
    IN  total > 0 =>
            /\ \A i \in DOMAIN list :
                  Near(2 * 1000 * list[i].count,
                       2 * list[i].weight * total, total)
            /\ Near(2 * sum, 2 * 1000, Len(list))

\* Every collection call that changes the list leaves weights that match the
\* counts, however stale LinkTag's own methods had left them.
\* (LinkTagCollection.Add, Delete; Link.MergeTags; the constructor in Map.)
WeightsFollowCounts ==
    [][CollectionStep \/ SaveAndLoadTags => WeightsMatch(tags')]_tags

\* Entry by entry, a document never holds a name twice that is stored as it is
\* and that no other name is stored as.  It rests on AddTag looking a name up
\* in the list as it grows.
CleanNamesDistinct ==
    LET Clean(n) == \A m \in Names : (Dashed[m] = n) = (m = n)
        entities == ToEntities(tags)
    IN  \A i, j \in DOMAIN entities :
            entities[i].name = entities[j].name /\ Clean(entities[i].name)
                => i = j

\* What a merge leaves of a list of distinct names: the entries named by the
\* caller and the last one, in the order they had, then the new names.  A
\* reference for the loop of Link.MergeTags.  (Of the counts it says nothing:
\* the documentation of Add counts a tag that is added again, AddTag does not.)
MergeKeeps(list, new, names) ==
    LET kept == ToSet(names) \union {list[Len(list)].name}
        Place(i) == Cardinality({j \in 1 .. i : list[j].name \in kept})
    IN  /\ \A i \in DOMAIN list : list[i].name \in kept =>
              /\ Place(i) \in DOMAIN new
              /\ new[Place(i)].name = list[i].name
        /\ NamesOf(new) = kept

MergeKeepsNamedAndLast ==
    [][\A names \in NameLists :
          Merge(names) /\ IsDistinct(tags) /\ tags # <<>> =>
              MergeKeeps(tags, tags', names)]_tags

\* A second round trip through the store changes nothing a first one has not.
RoundTripSettles ==
    LET RoundTrip(list) == MapTags(ToEntities(list))
    IN  RoundTrip(RoundTrip(tags)) = RoundTrip(tags)

-----------------------------------------------------------------------------
(* What the documentation says, and the code does not do.                  *)

\* "If a tag is not in the new list, it will be removed." (Link.cs:279): the
\* last existing tag never is.
MergeRemovesAbsent ==
    [][\A names \in NameLists \ {<<>>} :
          Merge(names) => NamesOf(tags') \subseteq ToSet(names)]_tags
=============================================================================
