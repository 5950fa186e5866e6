------------------------- MODULE LinkObject_proofs -------------------------
(***************************************************************************)
(* Theorems about one Link object and about the life of its tags, for any  *)
(* users, titles, names and slashes, lists of any length and any counts.   *)
(* What the operators of LinkTags make of the tags does not matter to the  *)
(* first two parts, and is what the others are about: the order the tags   *)
(* are sorted into, the weights they are given, and what is left of them   *)
(* by a deletion or a merge.                                               *)
(***************************************************************************)
EXTENDS LinkAggregate, LinkTagCollection, FoldTheorems

-----------------------------------------------------------------------------
(* The deletion of a link                                                  *)

\* A link is a record, deleted by somebody or not at all.
DeletedBySomebody(k) ==
    /\ k.isDeleted = TRUE /\ k.dateDeleted = TRUE /\ k.deletedBy # NoUser
    /\ k.isActive = FALSE /\ k.updatedBy = k.deletedBy

NotDeleted(k) ==
    k.isDeleted = FALSE /\ k.dateDeleted = FALSE /\ k.deletedBy = NoUser

LinkOK(k) ==
    /\ k = [title |-> k.title, tags |-> k.tags, isActive |-> k.isActive,
            isFlagged |-> k.isFlagged, updatedBy |-> k.updatedBy,
            isDeleted |-> k.isDeleted, deletedBy |-> k.deletedBy,
            dateDeleted |-> k.dateDeleted]
    /\ DeletedBySomebody(k) \/ NotDeleted(k)

\* What a method may make of a link: it stays sound, and of one that was and
\* is deleted only the tags differ.
SoundLink(k, after) ==
    /\ LinkOK(after)
    /\ k.isDeleted /\ after.isDeleted =>
          after = [k EXCEPT !.tags = after.tags]

LEMMA SameIsSound ==
    ASSUME NEW k, LinkOK(k)
    PROVE  SoundLink(k, k)
BY DEF SoundLink, LinkOK

LEMMA DeletedIsSound ==
    ASSUME NEW k, LinkOK(k), NEW user \in Users, NEW after,
           after = Deleted(k, user)
    PROVE  SoundLink(k, after)
<1>1. CASE k.isDeleted
  BY <1>1, SameIsSound DEF Deleted
<1>2. CASE ~k.isDeleted
  <2>1. after = [title |-> k.title, tags |-> k.tags, isActive |-> FALSE,
                 isFlagged |-> k.isFlagged, updatedBy |-> user,
                 isDeleted |-> TRUE, deletedBy |-> user, dateDeleted |-> TRUE]
    BY <1>2 DEF Deleted, LinkOK
  <2> QED
    BY <1>2, <2>1, NoUserAssumption
       DEF SoundLink, LinkOK, DeletedBySomebody, NotDeleted
<1> QED
  BY <1>1, <1>2

LEMMA UnDeletedIsSound ==
    ASSUME NEW k, LinkOK(k), NEW user \in Users, NEW after,
           after = UnDeleted(k, user)
    PROVE  SoundLink(k, after)
<1>1. CASE ~k.isDeleted
  BY <1>1, SameIsSound DEF UnDeleted
<1>2. CASE k.isDeleted
  <2>1. after = [title |-> k.title, tags |-> k.tags, isActive |-> k.isActive,
                 isFlagged |-> k.isFlagged, updatedBy |-> user,
                 isDeleted |-> FALSE, deletedBy |-> NoUser,
                 dateDeleted |-> FALSE]
    BY <1>2 DEF UnDeleted, LinkOK
  <2> QED
    BY <2>1 DEF SoundLink, LinkOK, DeletedBySomebody, NotDeleted
<1> QED
  BY <1>1, <1>2

LEMMA EditedIsSound ==
    ASSUME NEW k, LinkOK(k), NEW user, NEW title, NEW newTags, NEW after,
           after = Edited(k, user, title, newTags)
    PROVE  SoundLink(k, after)
<1>1. CASE k.isDeleted
  BY <1>1, SameIsSound DEF Edited
<1>2. CASE ~k.isDeleted
  <2>1. after = [title |-> title, tags |-> newTags, isActive |-> k.isActive,
                 isFlagged |-> k.isFlagged, updatedBy |-> user,
                 isDeleted |-> k.isDeleted, deletedBy |-> k.deletedBy,
                 dateDeleted |-> k.dateDeleted]
    BY <1>2 DEF Edited, LinkOK
  <2> QED
    BY <1>2, <2>1 DEF SoundLink, LinkOK, DeletedBySomebody, NotDeleted
<1> QED
  BY <1>1, <1>2

LEMMA TaggedIsSound ==
    ASSUME NEW k, LinkOK(k), NEW newTags,
           NEW after, after = WithTags(k, newTags)
    PROVE  SoundLink(k, after)
<1>1. after = [title |-> k.title, tags |-> newTags, isActive |-> k.isActive,
               isFlagged |-> k.isFlagged, updatedBy |-> k.updatedBy,
               isDeleted |-> k.isDeleted, deletedBy |-> k.deletedBy,
               dateDeleted |-> k.dateDeleted]
  BY DEF WithTags, LinkOK
<1>2. LinkOK(after)
  BY <1>1 DEF LinkOK, DeletedBySomebody, NotDeleted
<1>3. after = [k EXCEPT !.tags = after.tags]
  BY <1>1 DEF WithTags
<1> QED
  BY <1>2, <1>3 DEF SoundLink

LEMMA FlaggedIsSound ==
    ASSUME NEW k, LinkOK(k), NEW user, NEW flag, NEW after,
           after = WithFlaggedState(k, user, flag)
    PROVE  SoundLink(k, after)
<1>1. CASE k.isDeleted \/ k.isFlagged = flag
  BY <1>1, SameIsSound DEF WithFlaggedState
<1>2. CASE ~(k.isDeleted \/ k.isFlagged = flag)
  <2>1. after = [title |-> k.title, tags |-> k.tags, isActive |-> k.isActive,
                 isFlagged |-> flag, updatedBy |-> user,
                 isDeleted |-> k.isDeleted, deletedBy |-> k.deletedBy,
                 dateDeleted |-> k.dateDeleted]
    BY <1>2 DEF WithFlaggedState, LinkOK
  <2> QED
    BY <1>2, <2>1 DEF SoundLink, LinkOK, DeletedBySomebody, NotDeleted
<1> QED
  BY <1>1, <1>2

LEMMA ActivatedIsSound ==
    ASSUME NEW k, LinkOK(k), ~k.isDeleted, NEW user, NEW flag, NEW after,
           after = WithActiveState(k, user, flag)
    PROVE  SoundLink(k, after)
<1>1. after = [title |-> k.title, tags |-> k.tags, isActive |-> flag,
               isFlagged |-> k.isFlagged, updatedBy |-> user,
               isDeleted |-> k.isDeleted, deletedBy |-> k.deletedBy,
               dateDeleted |-> k.dateDeleted]
  BY DEF WithActiveState, LinkOK
<1> QED
  BY <1>1 DEF SoundLink, LinkOK, DeletedBySomebody, NotDeleted

LEMMA CountedIsSound ==
    ASSUME NEW k, LinkOK(k), ~k.isDeleted, NEW user, NEW after,
           after = [k EXCEPT !.updatedBy = user]
    PROVE  SoundLink(k, after)
<1>1. after = [title |-> k.title, tags |-> k.tags, isActive |-> k.isActive,
               isFlagged |-> k.isFlagged, updatedBy |-> user,
               isDeleted |-> k.isDeleted, deletedBy |-> k.deletedBy,
               dateDeleted |-> k.dateDeleted]
  BY DEF LinkOK
<1> QED
  BY <1>1 DEF SoundLink, LinkOK, DeletedBySomebody, NotDeleted

-----------------------------------------------------------------------------

\* Every method of the aggregate.  A count and the events change only on a link
\* that is not deleted, but a save drops the events.
LEMMA StepIsSound ==
    ASSUME LinkOK(link), Next
    PROVE  /\ SoundLink(link, link')
           /\ link.isDeleted => counts' = counts /\ events' \in {events, <<>>}
<1>1. ASSUME NEW user \in Users, DeleteLink(user)
      PROVE  SoundLink(link, link') /\ UNCHANGED <<counts, events>>
  BY <1>1, DeletedIsSound DEF DeleteLink
<1>2. ASSUME NEW user \in Users, UnDelete(user)
      PROVE  SoundLink(link, link') /\ UNCHANGED <<counts, events>>
  BY <1>2, UnDeletedIsSound DEF UnDelete
<1>3. ASSUME NEW user \in Users, NEW title, NEW names, Edit(user, title, names)
      PROVE  SoundLink(link, link') /\ UNCHANGED <<counts, events>>
  BY <1>3, EditedIsSound DEF Edit
<1>4. ASSUME NEW names, UpdateTags(names)
      PROVE  SoundLink(link, link') /\ UNCHANGED <<counts, events>>
  BY <1>4, TaggedIsSound DEF UpdateTags
<1>5. ASSUME NEW user \in Users, NEW flag, SetFlaggedState(user, flag)
      PROVE  SoundLink(link, link') /\ UNCHANGED <<counts, events>>
  BY <1>5, FlaggedIsSound DEF SetFlaggedState
<1>6. ASSUME NEW user \in Users, NEW flag, SetActiveState(user, flag)
      PROVE  SoundLink(link, link') /\ ~link.isDeleted
  BY <1>6, ActivatedIsSound DEF SetActiveState
<1>7. ASSUME NEW user \in Users, NEW counter, NEW count,
             SetCount(counter, user, count)
      PROVE  SoundLink(link, link') /\ ~link.isDeleted
  BY <1>7, CountedIsSound DEF SetCount
<1>8. ASSUME SaveAndLoad
      PROVE  SoundLink(link, link') /\ events' = <<>> /\ counts' = counts
  BY <1>8, TaggedIsSound DEF SaveAndLoad
<1> QED
  BY <1>1, <1>2, <1>3, <1>4, <1>5, <1>6, <1>7, <1>8 DEF Next

LEMMA LinkIsSound == Spec => []LinkOK(link)
<1>1. Init => LinkOK(link)
  BY DEF Init, NewLink, LinkOK, DeletedBySomebody, NotDeleted
<1>2. LinkOK(link) /\ [Next]_vars => LinkOK(link)'
  <2> SUFFICES ASSUME LinkOK(link), [Next]_vars PROVE LinkOK(link')
    OBVIOUS
  <2>1. CASE Next
    BY <2>1, StepIsSound DEF SoundLink
  <2>2. CASE UNCHANGED vars
    BY <2>2 DEF vars
  <2> QED
    BY <2>1, <2>2
<1> QED
  BY <1>1, <1>2, PTL DEF Spec

\* The fields of a soft delete agree after any sequence of calls.
THEOREM DeletionAgrees == Spec => []DeletionFieldsAgree
<1>1. LinkOK(link) => DeletionFieldsAgree
  BY DEF LinkOK, DeletedBySomebody, NotDeleted, DeletionFieldsAgree,
         DeletionConsistent
<1> QED
  BY <1>1, LinkIsSound, PTL

\* A deleted link stays as it is, but for its tags.
THEOREM DeletedStays == Spec => DeletedLinkFrozen
<1>1. LinkOK(link) /\ [Next]_vars =>
        [link.isDeleted /\ link'.isDeleted =>
            /\ link' = [link EXCEPT !.tags = link'.tags]
            /\ counts' = counts
            /\ events' \in {events, <<>>}]_vars
  BY StepIsSound DEF SoundLink
<1> QED
  BY <1>1, LinkIsSound, PTL DEF Spec, DeletedLinkFrozen

-----------------------------------------------------------------------------
(* The events                                                              *)

EventSet == [kind : {"Active"}, newStatus : BOOLEAN]
            \union [kind : Counters, old : Int, new : Int]

EventsInv ==
    /\ counts \in [Counters -> Int]
    /\ events \in Seq(EventSet)
    /\ EventsTellHistory

LEMMA OneMoreEvent ==
    ASSUME events \in Seq(EventSet), NEW event \in EventSet,
           events' = Append(events, event)
    PROVE  /\ events' \in Seq(EventSet) /\ Len(events) \in Nat
           /\ Len(events') = Len(events) + 1
           /\ \A i \in 1 .. Len(events) : events'[i] = events[i]
           /\ events'[Len(events')] = event
           /\ \A i \in 1 .. Len(events') : i \in 1 .. Len(events)
                                           \/ i = Len(events')
<1>1. /\ events' \in Seq(EventSet) /\ Len(events) \in Nat
      /\ Len(events') = Len(events) + 1
      /\ \A i \in 1 .. Len(events) : events'[i] = events[i]
      /\ events'[Len(events) + 1] = event
  BY AppendProperties, LenProperties
<1> QED
  BY <1>1

\* An event that is not of a counter's kind is none of its history.
LEMMA OtherEventsTell ==
    ASSUME EventsInv, NEW event \in EventSet, NEW counter \in Counters,
           event.kind # counter, events' = Append(events, event),
           counts'[counter] = counts[counter]
    PROVE  LET told == {i \in 1 .. Len(events') : events'[i].kind = counter}
           IN  /\ \A i, j \in told :
                     i < j /\ (\A k \in told : k <= i \/ j <= k) =>
                         events'[i].new = events'[j].old
               /\ \A i \in told : (\A k \in told : k <= i) =>
                     events'[i].new = counts'[counter]
<1> DEFINE told == {i \in 1 .. Len(events) : events[i].kind = counter}
           told1 == {i \in 1 .. Len(events') : events'[i].kind = counter}
<1>1. told1 = told
  BY OneMoreEvent DEF EventsInv
<1>2. \A i \in told : events'[i] = events[i]
  BY OneMoreEvent DEF EventsInv
<1>3. /\ \A i, j \in told : i < j /\ (\A k \in told : k <= i \/ j <= k) =>
            events[i].new = events[j].old
      /\ \A i \in told :
            (\A k \in told : k <= i) => events[i].new = counts[counter]
  BY DEF EventsInv, EventsTellHistory
<1> HIDE DEF told
<1> QED
  BY <1>1, <1>2, <1>3

\* One that is starts where the last one of its kind has ended.
LEMMA NewEventTells ==
    ASSUME EventsInv, NEW event \in EventSet, NEW counter \in Counters,
           event.kind = counter, events' = Append(events, event),
           event.old = counts[counter], event.new = counts'[counter]
    PROVE  LET told == {i \in 1 .. Len(events') : events'[i].kind = counter}
           IN  /\ \A i, j \in told :
                     i < j /\ (\A k \in told : k <= i \/ j <= k) =>
                         events'[i].new = events'[j].old
               /\ \A i \in told : (\A k \in told : k <= i) =>
                     events'[i].new = counts'[counter]
<1> DEFINE told == {i \in 1 .. Len(events) : events[i].kind = counter}
           told1 == {i \in 1 .. Len(events') : events'[i].kind = counter}
           n == Len(events')
<1>1. /\ told1 = told \union {n} /\ n \in Nat
      /\ \A i \in told : i \in Nat /\ i < n /\ events'[i] = events[i]
      /\ events'[n] = event
  BY OneMoreEvent DEF EventsInv
<1>2. /\ \A i, j \in told : i < j /\ (\A k \in told : k <= i \/ j <= k) =>
            events[i].new = events[j].old
      /\ \A i \in told :
            (\A k \in told : k <= i) => events[i].new = counts[counter]
  BY DEF EventsInv, EventsTellHistory
<1> HIDE DEF told, n
<1>3. ASSUME NEW i \in told1, NEW j \in told1, i < j,
             \A k \in told1 : k <= i \/ j <= k
      PROVE  events'[i].new = events'[j].old
  <2>1. i \in told
    BY <1>1, <1>3
  <2>2. CASE j \in told
    BY <1>1, <1>2, <1>3, <2>1, <2>2
  <2>3. CASE j = n
    <3>1. \A k \in told : k <= i
      BY <1>1, <1>3, <2>3
    <3> QED
      BY <1>1, <1>2, <2>1, <2>3, <3>1
  <2> QED
    BY <1>1, <2>2, <2>3
<1>4. ASSUME NEW i \in told1, \A k \in told1 : k <= i
      PROVE  events'[i].new = counts'[counter]
  <2>1. i = n
    BY <1>1, <1>4
  <2> QED
    BY <1>1, <2>1
<1> QED
  BY <1>3, <1>4

LEMMA ActiveEventTells ==
    ASSUME EventsInv, NEW user, NEW flag, SetActiveState(user, flag)
    PROVE  EventsInv'
<1> DEFINE event == [kind |-> "Active", newStatus |-> TRUE]
<1>1. /\ events' = Append(events, event) /\ counts' = counts
      /\ event \in EventSet /\ \A counter \in Counters : event.kind # counter
  BY DEF SetActiveState, EventSet, Counters
<1> HIDE DEF event
<1>2. EventsTellHistory'
  BY <1>1, OtherEventsTell DEF EventsTellHistory
<1> QED
  BY <1>1, <1>2, OneMoreEvent DEF EventsInv

LEMMA CountEventTells ==
    ASSUME EventsInv, NEW counter \in Counters, NEW user,
           NEW count \in 0 .. MaxSaves, SetCount(counter, user, count)
    PROVE  EventsInv'
<1> DEFINE event == [kind |-> counter, old |-> counts[counter], new |-> count]
<1>1. /\ events' = Append(events, event)
      /\ counts' \in [Counters -> Int] /\ counts'[counter] = count
      /\ \A other \in Counters : other # counter =>
            counts'[other] = counts[other]
      /\ event \in EventSet
      /\ event.kind = counter /\ event.old = counts[counter]
      /\ event.new = count
  BY DEF SetCount, EventsInv, EventSet
<1> HIDE DEF event
<1>2. EventsTellHistory'
  <2> SUFFICES ASSUME NEW other \in Counters
               PROVE  LET told == {i \in 1 .. Len(events') :
                                      events'[i].kind = other}
                      IN  /\ \A i, j \in told :
                                i < j /\ (\A k \in told : k <= i \/ j <= k) =>
                                    events'[i].new = events'[j].old
                          /\ \A i \in told : (\A k \in told : k <= i) =>
                                events'[i].new = counts'[other]
    BY DEF EventsTellHistory
  <2>1. CASE other = counter
    BY <1>1, <2>1, NewEventTells
  <2>2. CASE other # counter
    BY <1>1, <2>2, OtherEventsTell
  <2> QED
    BY <2>1, <2>2
<1> QED
  BY <1>1, <1>2, OneMoreEvent DEF EventsInv

\* The events of a Link tell how its counts came to be, for any calls.
THEOREM EventsTell == Spec => []EventsTellHistory
<1>1. Init => EventsInv
  BY EmptySeq DEF Init, EventsInv, EventsTellHistory
<1>2. EventsInv /\ [Next]_vars => EventsInv'
  <2> SUFFICES ASSUME EventsInv, [Next]_vars PROVE EventsInv'
    OBVIOUS
  <2>1. CASE UNCHANGED <<counts, events>>
    BY <2>1 DEF EventsInv, EventsTellHistory
  <2>2. CASE SaveAndLoad
    BY <2>2, EmptySeq DEF SaveAndLoad, EventsInv, EventsTellHistory
  <2>3. CASE \E user \in Users, flag \in BOOLEAN : SetActiveState(user, flag)
    BY <2>3, ActiveEventTells
  <2>4. CASE \E user \in Users, counter \in Counters, count \in 0 .. MaxSaves :
                SetCount(counter, user, count)
    BY <2>4, CountEventTells
  <2> QED
    BY <2>1, <2>2, <2>3, <2>4 DEF Next, DeleteLink, UnDelete, Edit, UpdateTags,
       SetFlaggedState, vars
<1>3. EventsInv => EventsTellHistory
  BY DEF EventsInv
<1> QED
  BY <1>1, <1>2, <1>3, PTL DEF Spec

-----------------------------------------------------------------------------
(* Sums over a list, and the tags that are added to one                    *)

\* The counts of the first k tags of q together.
CountSums(f, q) ==
    /\ f \in [0 .. Len(q) -> Nat]
    /\ f[0] = 0 /\ f[Len(q)] = TotalCount(q)
    /\ \A k \in Indices(Len(q)) : f[k] = f[k - 1] + q[k].count

LEMMA CountsAddUp ==
    ASSUME NEW q \in Seq(Tags)
    PROVE  \E f : CountSums(f, q)
<1> DEFINE n == Len(q)
           step == [i \in Indices(n) |-> [x \in Nat |-> x + q[i].count]]
           iter[t \in SUBSET Indices(n)] ==
               IF t = {} THEN 0 ELSE iter[t \ {Max(t)}] + q[Max(t)].count
           f == [k \in 0 .. n |-> iter[Indices(k)]]
<1>1. /\ n \in Nat /\ DOMAIN q = Indices(n)
      /\ \A i \in Indices(n) : q[i] \in Tags
  BY IndicesOfSeq
<1>2. 0 \in Nat /\ \A x \in Nat, e \in Tags : x + e.count \in Nat
  BY DEF Tags
<1>3. step \in [Indices(n) -> [Nat -> Nat]]
  <2> HIDE DEF n
  <2> QED
    BY <1>1, <1>2
<1>4. PICK it : IsFoldLeft(it, n, Nat, 0, step)
  <2> HIDE DEF n, step
  <2> QED
    BY <1>1, <1>2, <1>3, FoldLeftExists
<1>5. it = [t \in SUBSET Indices(n) |->
              IF t = {} THEN 0 ELSE it[t \ {Max(t)}] + q[Max(t)].count]
  BY <1>1, <1>4, MaxOfIndices DEF IsFoldLeft
<1>6. iter = [t \in SUBSET Indices(n) |->
                IF t = {} THEN 0 ELSE iter[t \ {Max(t)}] + q[Max(t)].count]
  BY <1>5
<1>7. TotalCount(q) = iter[Indices(n)]
  BY <1>1 DEF TotalCount, FoldLeft, MapThenFoldSet
<1>8. \A t \in SUBSET Indices(n) :
         iter[t] = IF t = {} THEN 0 ELSE iter[t \ {Max(t)}] + q[Max(t)].count
  <2> HIDE DEF iter, n
  <2> QED
    BY <1>6
<1> HIDE DEF iter, step
<1>9. ASSUME NEW t \in SUBSET Indices(n), t # {}, iter[t \ {Max(t)}] \in Nat
      PROVE  iter[t] \in Nat
  <2>1. Max(t) \in Indices(n)
    BY <1>1, <1>9, MaxOfIndices
  <2> HIDE DEF n
  <2> QED
    BY <1>1, <1>2, <1>8, <1>9, <2>1
<1>10. iter[{}] = 0
  BY <1>8
<1>11. \A k \in 0 .. n : iter[Indices(k)] \in Nat
  <2> HIDE DEF n
  <2> QED
    BY <1>1, <1>2, <1>9, <1>10, FoldLeftStays
<1>12. f \in [0 .. n -> Nat]
  BY <1>11
<1>13. f[0] = 0 /\ f[n] = TotalCount(q)
  <2>1. Indices(0) = {} /\ 0 \in 0 .. n /\ n \in 0 .. n
    BY <1>1, IndicesUpTo
  <2> HIDE DEF n
  <2> QED
    BY <1>7, <1>10, <2>1
<1>14. ASSUME NEW k \in Indices(n)
       PROVE  f[k] = f[k - 1] + q[k].count
  <2>1. f[k] = iter[Indices(k)] /\ f[k - 1] = iter[Indices(k - 1)]
    BY <1>1 DEF Indices
  <2>2. iter[Indices(k)] = iter[Indices(k - 1)] + q[k].count
    <3>1. /\ Indices(k) \in SUBSET Indices(n) /\ Indices(k) # {}
          /\ Max(Indices(k)) = k /\ Indices(k) \ {k} = Indices(k - 1)
      BY <1>1, IndicesUpTo
    <3> HIDE DEF n, f
    <3> QED
      BY <1>8, <3>1
  <2> QED
    BY <2>1, <2>2
<1> HIDE DEF f
<1> QED
  BY <1>12, <1>13, <1>14 DEF CountSums

TotalWeight(q) == FoldLeft(LAMBDA s, tag : s + tag.weight, 0, q)

\* Their weights together, as WeightsMatch adds them up.
WeightSums(f, q) ==
    /\ f \in [0 .. Len(q) -> Nat]
    /\ f[0] = 0 /\ f[Len(q)] = TotalWeight(q)
    /\ \A k \in Indices(Len(q)) : f[k] = f[k - 1] + q[k].weight

LEMMA WeightsAddUp ==
    ASSUME NEW q \in Seq(Tags)
    PROVE  \E f : WeightSums(f, q)
<1> DEFINE n == Len(q)
           step == [i \in Indices(n) |-> [x \in Nat |-> x + q[i].weight]]
           iter[t \in SUBSET Indices(n)] ==
               IF t = {} THEN 0 ELSE iter[t \ {Max(t)}] + q[Max(t)].weight
           f == [k \in 0 .. n |-> iter[Indices(k)]]
<1>1. /\ n \in Nat /\ DOMAIN q = Indices(n)
      /\ \A i \in Indices(n) : q[i] \in Tags
  BY IndicesOfSeq
<1>2. 0 \in Nat /\ \A x \in Nat, e \in Tags : x + e.weight \in Nat
  BY DEF Tags
<1>3. step \in [Indices(n) -> [Nat -> Nat]]
  <2> HIDE DEF n
  <2> QED
    BY <1>1, <1>2
<1>4. PICK it : IsFoldLeft(it, n, Nat, 0, step)
  <2> HIDE DEF n, step
  <2> QED
    BY <1>1, <1>2, <1>3, FoldLeftExists
<1>5. it = [t \in SUBSET Indices(n) |->
              IF t = {} THEN 0 ELSE it[t \ {Max(t)}] + q[Max(t)].weight]
  BY <1>1, <1>4, MaxOfIndices DEF IsFoldLeft
<1>6. iter = [t \in SUBSET Indices(n) |->
                IF t = {} THEN 0 ELSE iter[t \ {Max(t)}] + q[Max(t)].weight]
  BY <1>5
<1>7. TotalWeight(q) = iter[Indices(n)]
  BY <1>1 DEF TotalWeight, FoldLeft, MapThenFoldSet
<1>8. \A t \in SUBSET Indices(n) :
         iter[t] = IF t = {} THEN 0 ELSE iter[t \ {Max(t)}] + q[Max(t)].weight
  <2> HIDE DEF iter, n
  <2> QED
    BY <1>6
<1> HIDE DEF iter, step
<1>9. ASSUME NEW t \in SUBSET Indices(n), t # {}, iter[t \ {Max(t)}] \in Nat
      PROVE  iter[t] \in Nat
  <2>1. Max(t) \in Indices(n)
    BY <1>1, <1>9, MaxOfIndices
  <2> HIDE DEF n
  <2> QED
    BY <1>1, <1>2, <1>8, <1>9, <2>1
<1>10. iter[{}] = 0
  BY <1>8
<1>11. \A k \in 0 .. n : iter[Indices(k)] \in Nat
  <2> HIDE DEF n
  <2> QED
    BY <1>1, <1>2, <1>9, <1>10, FoldLeftStays
<1>12. f \in [0 .. n -> Nat]
  BY <1>11
<1>13. f[0] = 0 /\ f[n] = TotalWeight(q)
  <2>1. Indices(0) = {} /\ 0 \in 0 .. n /\ n \in 0 .. n
    BY <1>1, IndicesUpTo
  <2> HIDE DEF n
  <2> QED
    BY <1>7, <1>10, <2>1
<1>14. ASSUME NEW k \in Indices(n)
       PROVE  f[k] = f[k - 1] + q[k].weight
  <2>1. f[k] = iter[Indices(k)] /\ f[k - 1] = iter[Indices(k - 1)]
    BY <1>1 DEF Indices
  <2>2. iter[Indices(k)] = iter[Indices(k - 1)] + q[k].weight
    <3>1. /\ Indices(k) \in SUBSET Indices(n) /\ Indices(k) # {}
          /\ Max(Indices(k)) = k /\ Indices(k) \ {k} = Indices(k - 1)
      BY <1>1, IndicesUpTo
    <3> HIDE DEF n, f
    <3> QED
      BY <1>8, <3>1
  <2> QED
    BY <2>1, <2>2
<1> HIDE DEF f
<1> QED
  BY <1>12, <1>13, <1>14 DEF WeightSums

LEMMA AddTagAt ==
    ASSUME NEW list \in Seq(Tags), NEW name \in Names
    PROVE  /\ AddTag(list, name) \in Seq(Tags)
           /\ name \notin NamesOf(list) =>
                 /\ Len(AddTag(list, name)) = Len(list) + 1
                 /\ \A i \in 1 .. Len(list) : AddTag(list, name)[i] = list[i]
                 /\ AddTag(list, name)[Len(list) + 1].name = name
<1>1. NewTag(name) \in Tags /\ NewTag(name).name = name
  BY DEF NewTag, Tag, Tags
<1> QED
  BY <1>1, AppendProperties DEF AddTag

\* What the first k names of q have made of the list.
Added(f, list, q) ==
    /\ f \in [0 .. Len(q) -> Seq(Tags)]
    /\ f[0] = list /\ f[Len(q)] = FoldLeft(AddTag, list, q)
    /\ \A k \in Indices(Len(q)) : f[k] = AddTag(f[k - 1], q[k])

LEMMA NamesAreAdded ==
    ASSUME NEW list \in Seq(Tags), NEW q \in Seq(Names)
    PROVE  \E f : Added(f, list, q)
<1> DEFINE n == Len(q)
           step == [i \in Indices(n) |-> [x \in Seq(Tags) |-> AddTag(x, q[i])]]
           iter[t \in SUBSET Indices(n)] ==
               IF t = {} THEN list ELSE AddTag(iter[t \ {Max(t)}], q[Max(t)])
           f == [k \in 0 .. n |-> iter[Indices(k)]]
<1>1. /\ n \in Nat /\ DOMAIN q = Indices(n)
      /\ \A i \in Indices(n) : q[i] \in Names
  BY IndicesOfSeq
<1>2. list \in Seq(Tags) /\ \A x \in Seq(Tags), e \in Names :
         AddTag(x, e) \in Seq(Tags)
  BY AddTagAt
<1>3. step \in [Indices(n) -> [Seq(Tags) -> Seq(Tags)]]
  <2> HIDE DEF n
  <2> QED
    BY <1>1, <1>2
<1>4. PICK it : IsFoldLeft(it, n, Seq(Tags), list, step)
  <2> HIDE DEF n, step
  <2> QED
    BY <1>1, <1>2, <1>3, FoldLeftExists
<1>5. it = [t \in SUBSET Indices(n) |->
              IF t = {} THEN list ELSE AddTag(it[t \ {Max(t)}], q[Max(t)])]
  BY <1>1, <1>4, MaxOfIndices DEF IsFoldLeft
<1>6. iter = [t \in SUBSET Indices(n) |->
                IF t = {} THEN list ELSE AddTag(iter[t \ {Max(t)}], q[Max(t)])]
  BY <1>5
<1>7. FoldLeft(AddTag, list, q) = iter[Indices(n)]
  BY <1>1 DEF FoldLeft, MapThenFoldSet
<1>8. \A t \in SUBSET Indices(n) :
         iter[t] = IF t = {} THEN list
                   ELSE AddTag(iter[t \ {Max(t)}], q[Max(t)])
  <2> HIDE DEF iter, n
  <2> QED
    BY <1>6
<1> HIDE DEF iter, step
<1>9. ASSUME NEW t \in SUBSET Indices(n), t # {},
             iter[t \ {Max(t)}] \in Seq(Tags)
      PROVE  iter[t] \in Seq(Tags)
  <2>1. Max(t) \in Indices(n)
    BY <1>1, <1>9, MaxOfIndices
  <2> HIDE DEF n
  <2> QED
    BY <1>1, <1>2, <1>8, <1>9, <2>1
<1>10. iter[{}] = list
  BY <1>8
<1>11. \A k \in 0 .. n : iter[Indices(k)] \in Seq(Tags)
  <2> HIDE DEF n
  <2> QED
    BY <1>1, <1>2, <1>9, <1>10, FoldLeftStays
<1>12. f \in [0 .. n -> Seq(Tags)]
  BY <1>11
<1>13. f[0] = list /\ f[n] = FoldLeft(AddTag, list, q)
  <2>1. Indices(0) = {} /\ 0 \in 0 .. n /\ n \in 0 .. n
    BY <1>1, IndicesUpTo
  <2> HIDE DEF n
  <2> QED
    BY <1>7, <1>10, <2>1
<1>14. ASSUME NEW k \in Indices(n)
       PROVE  f[k] = AddTag(f[k - 1], q[k])
  <2>1. f[k] = iter[Indices(k)] /\ f[k - 1] = iter[Indices(k - 1)]
    BY <1>1 DEF Indices
  <2>2. iter[Indices(k)] = AddTag(iter[Indices(k - 1)], q[k])
    <3>1. /\ Indices(k) \in SUBSET Indices(n) /\ Indices(k) # {}
          /\ Max(Indices(k)) = k /\ Indices(k) \ {k} = Indices(k - 1)
      BY <1>1, IndicesUpTo
    <3> HIDE DEF n, f
    <3> QED
      BY <1>8, <3>1
  <2> QED
    BY <2>1, <2>2
<1> HIDE DEF f
<1> QED
  BY <1>12, <1>13, <1>14 DEF Added

-----------------------------------------------------------------------------
(* Sorting by rank                                                         *)

NotAfter(key, i, j) == key[i] < key[j] \/ (key[i] = key[j] /\ i <= j)

UpTo(key, n, j) == {i \in 1 .. n : NotAfter(key, i, j)}

RankIn(key, n, j) == Cardinality(UpTo(key, n, j))

\* The ranks of 1 .. n are 1 .. n, each once, and in the order of the keys.
LEMMA RanksOrder ==
    ASSUME NEW n \in Nat, NEW key \in [1 .. n -> Nat]
    PROVE  /\ \A j \in 1 .. n : RankIn(key, n, j) \in 1 .. n
           /\ \A i, j \in 1 .. n : i # j /\ NotAfter(key, i, j) =>
                 RankIn(key, n, i) < RankIn(key, n, j)
<1>1. IsFiniteSet(1 .. n) /\ Cardinality(1 .. n) = n
  BY FS_Interval
<1>2. ASSUME NEW j \in 1 .. n
      PROVE  /\ IsFiniteSet(UpTo(key, n, j)) /\ RankIn(key, n, j) \in 1 .. n
  <2>1. UpTo(key, n, j) \in SUBSET (1 .. n) /\ j \in UpTo(key, n, j)
    BY DEF UpTo, NotAfter
  <2>2. /\ IsFiniteSet(UpTo(key, n, j)) /\ RankIn(key, n, j) <= n
        /\ RankIn(key, n, j) \in Nat
    BY <1>1, <2>1, FS_Subset, FS_CardinalityType DEF RankIn
  <2>3. RankIn(key, n, j) # 0
    BY <2>1, <2>2, FS_EmptySet DEF RankIn
  <2> QED
    BY <2>2, <2>3
<1>3. ASSUME NEW i \in 1 .. n, NEW j \in 1 .. n, i # j, NotAfter(key, i, j)
      PROVE  RankIn(key, n, i) < RankIn(key, n, j)
  <2>1. UpTo(key, n, i) \subseteq UpTo(key, n, j)
    BY <1>3 DEF UpTo, NotAfter
  <2>2. j \in UpTo(key, n, j) /\ j \notin UpTo(key, n, i)
    BY <1>3 DEF UpTo, NotAfter
  <2>3. /\ RankIn(key, n, i) <= RankIn(key, n, j)
        /\ RankIn(key, n, i) # RankIn(key, n, j)
    BY <1>2, <2>1, <2>2, FS_Subset DEF RankIn
  <2> QED
    BY <1>2, <2>3
<1> QED
  BY <1>2, <1>3

LEMMA RanksCover ==
    ASSUME NEW n \in Nat, NEW key \in [1 .. n -> Nat]
    PROVE  \A k \in 1 .. n : \E j \in 1 .. n : RankIn(key, n, j) = k
<1> DEFINE S == 1 .. n
           rank == [j \in S |-> RankIn(key, n, j)]
<1>1. IsFiniteSet(S)
  BY FS_Interval
<1>2. rank \in [S -> S]
  BY RanksOrder
<1>3. ASSUME NEW i \in S, NEW j \in S, i # j
      PROVE  rank[i] # rank[j]
  <2>1. NotAfter(key, i, j) \/ NotAfter(key, j, i)
    BY DEF NotAfter
  <2>2. RankIn(key, n, i) \in Int /\ RankIn(key, n, j) \in Int
    BY RanksOrder
  <2>3. \/ RankIn(key, n, i) < RankIn(key, n, j)
        \/ RankIn(key, n, j) < RankIn(key, n, i)
    BY <1>3, <2>1, RanksOrder
  <2>4. rank[i] = RankIn(key, n, i) /\ rank[j] = RankIn(key, n, j)
    OBVIOUS
  <2> HIDE DEF rank
  <2> QED
    BY <2>2, <2>3, <2>4
<1> HIDE DEF S
<1>4. rank \in Injection(S, S)
  BY <1>2, <1>3 DEF Injection, IsInjective
<1>5. rank \in Surjection(S, S)
  BY <1>1, <1>4, FS_Injection
<1> QED
  BY <1>5 DEF Surjection, S

\* The rank of a place in a list, and the place of a rank, as Sorted has them.
NameAt(list) == [i \in 1 .. Len(list) |-> list[i].name]

RankOf(list, j) ==
    Cardinality({i \in DOMAIN list :
                    \/ list[i].name < list[j].name
                    \/ list[i].name = list[j].name /\ i <= j})

PlaceOf(list, k) == CHOOSE j \in DOMAIN list : RankOf(list, j) = k

LEMMA TagListShape ==
    ASSUME NEW list \in Seq(Tags)
    PROVE  /\ Len(list) \in Nat /\ DOMAIN list = 1 .. Len(list)
           /\ \A i \in 1 .. Len(list) : list[i] \in Tags
           /\ \A i \in 1 .. Len(list) : list[i].name \in Names
           /\ \A i \in 1 .. Len(list) : list[i].name \in Nat
           /\ NameAt(list) \in [1 .. Len(list) -> Nat]
<1>1. /\ Len(list) \in Nat /\ DOMAIN list = 1 .. Len(list)
      /\ \A i \in 1 .. Len(list) : list[i] \in Tags
  BY IndicesOfSeq DEF Indices
<1>2. \A i \in 1 .. Len(list) : list[i].name \in Names /\ list[i].name \in Nat
  BY <1>1, NamesAssumption DEF Tags
<1> QED
  BY <1>1, <1>2 DEF NameAt

LEMMA SortedPlaces ==
    ASSUME NEW list
    PROVE  Sorted(list) = [k \in DOMAIN list |-> list[PlaceOf(list, k)]]
BY DEF Sorted, PlaceOf, RankOf

LEMMA RankOfIs ==
    ASSUME NEW list \in Seq(Tags), NEW j \in DOMAIN list
    PROVE  RankOf(list, j) = RankIn(NameAt(list), Len(list), j)
<1>1. {i \in DOMAIN list : \/ list[i].name < list[j].name
                           \/ list[i].name = list[j].name /\ i <= j}
          = UpTo(NameAt(list), Len(list), j)
  BY TagListShape DEF UpTo, NotAfter, NameAt
<1> QED
  BY <1>1 DEF RankOf, RankIn

\* What sorting does: it moves every tag to a place of its own, smaller names
\* first and equal names in the order they had.
LEMMA SortedIs ==
    ASSUME NEW list \in Seq(Tags)
    PROVE  /\ Sorted(list) \in Seq(Tags) /\ Len(Sorted(list)) = Len(list)
           /\ \A k \in 1 .. Len(list) :
                 /\ PlaceOf(list, k) \in 1 .. Len(list)
                 /\ Sorted(list)[k] = list[PlaceOf(list, k)]
           /\ \A k, l \in 1 .. Len(list) : k < l =>
                 /\ PlaceOf(list, k) # PlaceOf(list, l)
                 /\ NotAfter(NameAt(list), PlaceOf(list, k), PlaceOf(list, l))
<1> DEFINE n == Len(list)
           key == NameAt(list)
<1>1. /\ n \in Nat /\ DOMAIN list = 1 .. n /\ key \in [1 .. n -> Nat]
      /\ \A i \in 1 .. n : list[i] \in Tags
  BY TagListShape
<1>2. ASSUME NEW k \in 1 .. n
      PROVE  PlaceOf(list, k) \in 1 .. n /\ RankOf(list, PlaceOf(list, k)) = k
  <2>1. \E j \in 1 .. n : RankOf(list, j) = k
    <3> HIDE DEF n, key
    <3>1. \E j \in 1 .. n : RankIn(key, n, j) = k
      BY <1>1, RanksCover
    <3> QED
      BY <1>1, <3>1, RankOfIs DEF n, key
  <2> HIDE DEF n
  <2> QED
    BY <1>1, <2>1 DEF PlaceOf
<1>3. Sorted(list) = [k \in 1 .. n |-> list[PlaceOf(list, k)]]
  BY <1>1, SortedPlaces
<1>4. Sorted(list) \in Seq(Tags) /\ Len(Sorted(list)) = n
  <2>1. \A k \in 1 .. n : list[PlaceOf(list, k)] \in Tags
    BY <1>1, <1>2
  <2> DEFINE tagAt(k) == list[PlaceOf(list, k)]
  <2>2. [k \in 1 .. n |-> tagAt(k)] \in Seq(Tags)
    <3> HIDE DEF n, tagAt
    <3>1. \A k \in 1 .. n : tagAt(k) \in Tags
      BY <2>1 DEF tagAt
    <3> QED
      BY <1>1, <3>1, IsASeq
  <2> HIDE DEF n
  <2> QED
    BY <1>1, <1>3, <2>2, LenProperties
<1>5. ASSUME NEW k \in 1 .. n, NEW l \in 1 .. n, k < l
      PROVE  /\ PlaceOf(list, k) # PlaceOf(list, l)
             /\ NotAfter(key, PlaceOf(list, k), PlaceOf(list, l))
  <2> DEFINE i == PlaceOf(list, k)
             j == PlaceOf(list, l)
  <2>1. /\ i \in 1 .. n /\ j \in 1 .. n
        /\ RankOf(list, i) = k /\ RankOf(list, j) = l
    BY <1>2
  <2> HIDE DEF i, j
  <2>2. i # j
    BY <1>5, <2>1
  <2>3. NotAfter(key, i, j) \/ NotAfter(key, j, i)
    <3> HIDE DEF key, n
    <3> QED
      BY <1>1, <2>1 DEF NotAfter
  <2>4. ~NotAfter(key, j, i)
    <3> SUFFICES ASSUME NotAfter(key, j, i) PROVE FALSE
      OBVIOUS
    <3>1. RankIn(key, n, j) < RankIn(key, n, i)
      <4> HIDE DEF key, n
      <4> QED
        BY <1>1, <2>1, <2>2, RanksOrder
    <3>2. RankIn(key, n, j) = l /\ RankIn(key, n, i) = k
      BY <1>1, <2>1, RankOfIs
    <3> QED
      BY <1>5, <3>1, <3>2
  <2> QED
    BY <2>2, <2>3, <2>4 DEF i, j
<1> HIDE DEF n
<1> QED
  BY <1>2, <1>3, <1>4, <1>5 DEF n

InOrderOfNames(list) ==
    \A i, j \in 1 .. Len(list) : i < j => list[i].name <= list[j].name

LEMMA SortedInOrder ==
    ASSUME NEW list \in Seq(Tags)
    PROVE  InOrderOfNames(Sorted(list))
<1> SUFFICES ASSUME NEW i \in 1 .. Len(list), NEW j \in 1 .. Len(list), i < j
             PROVE  Sorted(list)[i].name <= Sorted(list)[j].name
  BY SortedIs DEF InOrderOfNames
<1>1. /\ PlaceOf(list, i) \in 1 .. Len(list)
      /\ PlaceOf(list, j) \in 1 .. Len(list)
      /\ NotAfter(NameAt(list), PlaceOf(list, i), PlaceOf(list, j))
      /\ Sorted(list)[i] = list[PlaceOf(list, i)]
      /\ Sorted(list)[j] = list[PlaceOf(list, j)]
  BY SortedIs
<1>2. /\ list[PlaceOf(list, i)].name \in Nat
      /\ list[PlaceOf(list, j)].name \in Nat
  BY <1>1, TagListShape
<1> QED
  BY <1>1, <1>2 DEF NotAfter, NameAt

LEMMA SortedAgain ==
    ASSUME NEW list \in Seq(Tags), InOrderOfNames(list)
    PROVE  Sorted(list) = list
<1> DEFINE n == Len(list)
<1>1. /\ n \in Nat /\ DOMAIN list = 1 .. n
      /\ \A i \in 1 .. n : list[i].name \in Nat
  BY TagListShape
<1>2. ASSUME NEW j \in 1 .. n PROVE RankOf(list, j) = j
  <2>1. UpTo(NameAt(list), n, j) = 1 .. j
    <3>1. ASSUME NEW i \in 1 .. n
          PROVE  NotAfter(NameAt(list), i, j) <=> i <= j
      <4>1. /\ list[i].name \in Nat /\ list[j].name \in Nat
            /\ i < j => list[i].name <= list[j].name
            /\ j < i => list[j].name <= list[i].name
        BY <1>1 DEF InOrderOfNames
      <4>2. NameAt(list)[i] = list[i].name /\ NameAt(list)[j] = list[j].name
        BY DEF NameAt
      <4> HIDE DEF n
      <4> QED
        BY <1>1, <4>1, <4>2 DEF NotAfter
    <3>2. UpTo(NameAt(list), n, j) = {i \in 1 .. n : i <= j}
      BY <3>1 DEF UpTo
    <3> HIDE DEF n
    <3> QED
      BY <1>1, <3>2
  <2>2. Cardinality(1 .. j) = j
    BY <1>1, FS_Interval
  <2> QED
    BY <1>1, <2>1, <2>2, RankOfIs DEF RankIn
<1>3. ASSUME NEW k \in 1 .. n PROVE PlaceOf(list, k) = k
  <2> HIDE DEF n
  <2> QED
    BY <1>1, <1>2 DEF PlaceOf
<1>4. Sorted(list) = [k \in DOMAIN list |-> list[k]]
  BY <1>1, <1>3, SortedPlaces
<1>5. list = [k \in DOMAIN list |-> list[k]]
  BY <1>1, LenProperties
<1> QED
  BY <1>4, <1>5

-----------------------------------------------------------------------------
(* Weighing                                                                *)

\* What rounding to the nearest thousandth leaves of a share.
LEMMA QuotientIs ==
    ASSUME NEW a \in Nat, NEW total \in Nat \ {0}
    PROVE  /\ a \div total \in Nat /\ a % total \in 0 .. (total - 1)
           /\ a = (a \div total) * total + (a % total)
<1>1. /\ a \div total \in Int /\ a % total \in 0 .. (total - 1)
      /\ a = total * (a \div total) + (a % total)
  OBVIOUS
<1>2. a \div total >= 0
  OBVIOUS
<1> QED
  BY <1>1, <1>2

RoundedShare(count, total) ==
    LET whole == (1000 * count) \div total
        twice == 2 * ((1000 * count) % total)
        up    == twice > total \/ (twice = total /\ whole % 2 = 1)
    IN  IF up THEN whole + 1 ELSE whole

NearShare(weight, count, total) ==
    /\ 2 * (weight * total) <= 2 * (1000 * count) + total
    /\ 2 * (1000 * count) <= 2 * (weight * total) + total

\* Twice a weight misses twice the share by one at most.
LEMMA RoundedShareIs ==
    ASSUME NEW count \in Nat, NEW total \in Nat \ {0}
    PROVE  /\ RoundedShare(count, total) \in Nat
           /\ NearShare(RoundedShare(count, total), count, total)
<1> DEFINE a == 1000 * count
           whole == a \div total
           rest == a % total
           w == RoundedShare(count, total)
<1>1. a \in Nat
  OBVIOUS
<1>2. /\ whole \in Nat /\ rest \in 0 .. (total - 1)
      /\ a = whole * total + rest
  <2> HIDE DEF a
  <2> QED
    BY <1>1, QuotientIs
<1>3. \/ w = whole /\ 2 * rest <= total
      \/ w = whole + 1 /\ 2 * rest >= total
  <2>1. w = IF 2 * rest > total \/ (2 * rest = total /\ whole % 2 = 1)
            THEN whole + 1 ELSE whole
    BY DEF RoundedShare
  <2> HIDE DEF w, whole, rest
  <2> QED
    BY <1>2, <2>1
<1> SUFFICES w \in Nat /\ NearShare(w, count, total)
  OBVIOUS
<1> USE DEF NearShare
<1> HIDE DEF w, whole, rest, a
<1>4. CASE w = whole /\ 2 * rest <= total
  <2>1. w * total = whole * total /\ whole * total \in Int
    BY <1>2, <1>4
  <2> DEFINE p == whole * total
  <2> HIDE DEF p
  <2>2. p \in Int /\ a = p + rest /\ w * total = p
    BY <1>2, <2>1 DEF p
  <2>3. w \in Nat
    BY <1>2, <1>4
  <2> QED
    BY <1>1, <1>2, <1>4, <2>2, <2>3 DEF w, a
<1>5. CASE w = whole + 1 /\ 2 * rest >= total
  <2>1. w * total = whole * total + total /\ whole * total \in Int
    BY <1>2, <1>5
  <2> DEFINE p == whole * total
  <2> HIDE DEF p
  <2>2. p \in Int /\ a = p + rest /\ w * total = p + total
    BY <1>2, <2>1 DEF p
  <2>3. w \in Nat
    BY <1>2, <1>5
  <2> QED
    BY <1>1, <1>2, <1>5, <2>2, <2>3 DEF w, a
<1> QED
  BY <1>3, <1>4, <1>5

\* Two lists of the same length with the same counts count the same.
LEMMA SameCountsSum ==
    ASSUME NEW p \in Seq(Tags), NEW q \in Seq(Tags), Len(p) = Len(q),
           \A i \in 1 .. Len(p) : p[i].count = q[i].count
    PROVE  TotalCount(p) = TotalCount(q)
<1>1. PICK f : CountSums(f, p)
  BY CountsAddUp
<1>2. PICK g : CountSums(g, q)
  BY CountsAddUp
<1> DEFINE Same == {k \in Nat : f[k] = g[k]}
<1>3. Len(p) \in Nat
  BY LenProperties
<1>4. 0 \in Same
  BY <1>1, <1>2 DEF CountSums
<1>5. ASSUME NEW k \in 1 .. Len(p), k - 1 \in Same PROVE k \in Same
  <2>1. k \in Indices(Len(p)) /\ k \in Nat
    BY <1>3 DEF Indices
  <2>2. f[k] = f[k - 1] + p[k].count /\ g[k] = g[k - 1] + q[k].count
    BY <1>1, <1>2, <2>1 DEF CountSums
  <2> QED
    BY <1>5, <2>1, <2>2
<1>6. Len(p) \in Same
  <2> HIDE DEF Same
  <2>1. 0 .. Len(p) \subseteq Same
    BY <1>3, <1>4, <1>5, UpToInduction
  <2> QED
    BY <1>3, <2>1
<1> QED
  BY <1>1, <1>2, <1>6 DEF CountSums

LEMMA TotalCountIs ==
    ASSUME NEW list \in Seq(Tags)
    PROVE  TotalCount(list) \in Nat
<1>1. PICK f : CountSums(f, list)
  BY CountsAddUp
<1>2. Len(list) \in Nat
  BY LenProperties
<1> QED
  BY <1>1, <1>2 DEF CountSums

\* A list that is weighed keeps its names and counts.
LEMMA WeighedIs ==
    ASSUME NEW list \in Seq(Tags)
    PROVE  LET w == RecalculateWeights(list)
           IN  /\ w \in Seq(Tags) /\ Len(w) = Len(list)
               /\ \A i \in 1 .. Len(list) :
                     /\ w[i].name = list[i].name
                     /\ w[i].count = list[i].count
                     /\ TotalCount(list) # 0 =>
                           w[i].weight = RoundedShare(list[i].count,
                                                      TotalCount(list))
<1> DEFINE n == Len(list)
           total == TotalCount(list)
           w == RecalculateWeights(list)
<1>1. /\ n \in Nat /\ DOMAIN list = 1 .. n /\ total \in Nat
      /\ \A i \in 1 .. n : list[i] \in Tags
  BY TagListShape, TotalCountIs
<1>2. CASE total = 0
  BY <1>2 DEF RecalculateWeights
<1>3. CASE total # 0
  <2> DEFINE tagAt(i) == CalculateWeight(list[i], total)
  <2>1. w = [i \in 1 .. n |-> tagAt(i)]
    BY <1>1, <1>3 DEF RecalculateWeights
  <2>2. ASSUME NEW i \in 1 .. n
        PROVE  /\ tagAt(i) \in Tags
               /\ tagAt(i).name = list[i].name
               /\ tagAt(i).count = list[i].count
               /\ tagAt(i).weight = RoundedShare(list[i].count, total)
    <3>1. tagAt(i) = [list[i] EXCEPT !.weight =
                         RoundedShare(list[i].count, total)]
      BY DEF CalculateWeight, RoundedShare
    <3>2. list[i] \in Tags /\ list[i].count \in Nat
      BY <1>1 DEF Tags
    <3>3. RoundedShare(list[i].count, total) \in Nat
      <4> HIDE DEF total
      <4> QED
        BY <1>1, <1>3, <3>2, RoundedShareIs
    <3> HIDE DEF tagAt, total
    <3> QED
      BY <3>1, <3>2, <3>3 DEF Tags
  <2>3. [i \in 1 .. n |-> tagAt(i)] \in Seq(Tags)
    <3> HIDE DEF n, tagAt, total
    <3> QED
      BY <1>1, <2>2, IsASeq
  <2>4. Len(w) = n
    <3> HIDE DEF n, tagAt, w
    <3> QED
      BY <1>1, <2>1, <2>3, LenProperties
  <2> HIDE DEF tagAt, w
  <2> QED
    BY <1>3, <2>1, <2>2, <2>3, <2>4 DEF w
<1> QED
  BY <1>2, <1>3

\* Two lists that agree but for their weights are weighed alike.
LEMMA WeighedAgain ==
    ASSUME NEW list \in Seq(Tags)
    PROVE  RecalculateWeights(RecalculateWeights(list))
               = RecalculateWeights(list)
<1> DEFINE w == RecalculateWeights(list)
           v == RecalculateWeights(w)
<1>1. /\ w \in Seq(Tags) /\ Len(w) = Len(list)
      /\ \A i \in 1 .. Len(list) : w[i].name = list[i].name
                                   /\ w[i].count = list[i].count
  BY WeighedIs
<1>2. TotalCount(w) = TotalCount(list)
  <2> HIDE DEF w
  <2> QED
    BY <1>1, SameCountsSum
<1>3. CASE TotalCount(list) = 0
  BY <1>2, <1>3 DEF RecalculateWeights
<1>4. CASE TotalCount(list) # 0
  <2>1. \A i \in 1 .. Len(list) :
           w[i].weight = RoundedShare(list[i].count, TotalCount(list))
    BY <1>4, WeighedIs
  <2> HIDE DEF w
  <2>2. /\ v \in Seq(Tags) /\ Len(v) = Len(w)
        /\ \A i \in 1 .. Len(w) :
              /\ v[i].name = w[i].name /\ v[i].count = w[i].count
              /\ v[i].weight = RoundedShare(w[i].count, TotalCount(w))
    BY <1>1, <1>2, <1>4, WeighedIs
  <2> HIDE DEF v
  <2>3. ASSUME NEW i \in 1 .. Len(w) PROVE v[i] = w[i]
    <3>1. v[i] \in Tags /\ w[i] \in Tags
      BY <1>1, <2>2, TagListShape
    <3>2. /\ v[i].name = w[i].name /\ v[i].count = w[i].count
          /\ v[i].weight = w[i].weight
      BY <1>1, <1>2, <2>1, <2>2
    <3>3. /\ v[i] = [name |-> v[i].name, count |-> v[i].count,
                     weight |-> v[i].weight]
          /\ w[i] = [name |-> w[i].name, count |-> w[i].count,
                     weight |-> w[i].weight]
      BY <3>1 DEF Tags
    <3> QED
      BY <3>2, <3>3
  <2>4. v = w
    BY <1>1, <2>2, <2>3, SeqEqual
  <2> QED
    BY <2>4 DEF v, w
<1> QED
  BY <1>3, <1>4

-----------------------------------------------------------------------------
(* A round trip                                                            *)

LEMMA EntitiesAre ==
    ASSUME NEW list \in Seq(Tags)
    PROVE  LET e == ToEntities(list)
           IN  /\ e \in Seq(Tags) /\ Len(e) = Len(list)
               /\ \A i \in 1 .. Len(list) :
                     /\ e[i].name = Dashed[list[i].name]
                     /\ e[i] = [list[i] EXCEPT !.name = Dashed[@]]
<1> DEFINE n == Len(list)
           e == ToEntities(list)
           tagAt(i) == [list[i] EXCEPT !.name = Dashed[@]]
<1>1. /\ n \in Nat /\ DOMAIN list = 1 .. n
      /\ \A i \in 1 .. n : list[i] \in Tags
  BY TagListShape
<1>2. e = [i \in 1 .. n |-> tagAt(i)]
  BY <1>1 DEF ToEntities
<1>3. ASSUME NEW i \in 1 .. n
      PROVE  tagAt(i) \in Tags /\ tagAt(i).name = Dashed[list[i].name]
  BY <1>1, DashedAssumption DEF Tags
<1>4. [i \in 1 .. n |-> tagAt(i)] \in Seq(Tags)
  <2> HIDE DEF n, tagAt
  <2> QED
    BY <1>1, <1>3, IsASeq
<1>5. Len(e) = n
  <2> HIDE DEF n, tagAt, e
  <2> QED
    BY <1>1, <1>2, <1>4, LenProperties
<1>6. \A i \in 1 .. n : e[i] = tagAt(i)
  BY <1>2
<1> HIDE DEF e
<1> QED
  BY <1>2, <1>3, <1>4, <1>5, <1>6 DEF e

\* What is loaded is in order, weighed, and its names are stored as they are.
LEMMA LoadedIs ==
    ASSUME NEW list \in Seq(Tags)
    PROVE  LET loaded == MapTags(ToEntities(list))
           IN  /\ loaded \in Seq(Tags) /\ InOrderOfNames(loaded)
               /\ RecalculateWeights(loaded) = loaded
               /\ \A i \in 1 .. Len(loaded) :
                     Dashed[loaded[i].name] = loaded[i].name
<1> DEFINE e == ToEntities(list)
           s == Sorted(e)
           loaded == RecalculateWeights(s)
<1>1. /\ e \in Seq(Tags) /\ Len(e) = Len(list)
      /\ \A i \in 1 .. Len(list) : e[i].name = Dashed[list[i].name]
  BY EntitiesAre
<1>2. \A i \in 1 .. Len(e) : Dashed[e[i].name] = e[i].name
  <2>1. \A i \in 1 .. Len(list) : list[i].name \in Names
    BY TagListShape
  <2> HIDE DEF e
  <2> QED
    BY <1>1, <2>1, DashedAssumption
<1> HIDE DEF e
<1>3. /\ s \in Seq(Tags) /\ Len(s) = Len(e)
      /\ \A k \in 1 .. Len(e) : /\ PlaceOf(e, k) \in 1 .. Len(e)
                                /\ s[k] = e[PlaceOf(e, k)]
      /\ InOrderOfNames(s)
  BY <1>1, SortedIs, SortedInOrder
<1>4. \A k \in 1 .. Len(s) : Dashed[s[k].name] = s[k].name
  <2> HIDE DEF s
  <2> QED
    BY <1>2, <1>3
<1> HIDE DEF s
<1>5. /\ loaded \in Seq(Tags) /\ Len(loaded) = Len(s)
      /\ \A i \in 1 .. Len(s) : loaded[i].name = s[i].name
      /\ RecalculateWeights(loaded) = loaded
  BY <1>3, WeighedIs, WeighedAgain
<1>6. MapTags(ToEntities(list)) = loaded
  BY DEF MapTags, Collection, e, s
<1> HIDE DEF loaded
<1> QED
  BY <1>3, <1>4, <1>5, <1>6 DEF InOrderOfNames

LEMMA LoadedAgain ==
    ASSUME NEW list \in Seq(Tags)
    PROVE  MapTags(ToEntities(MapTags(ToEntities(list))))
               = MapTags(ToEntities(list))
<1> DEFINE loaded == MapTags(ToEntities(list))
<1>1. /\ loaded \in Seq(Tags) /\ InOrderOfNames(loaded)
      /\ RecalculateWeights(loaded) = loaded
      /\ \A i \in 1 .. Len(loaded) : Dashed[loaded[i].name] = loaded[i].name
  BY LoadedIs
<1> HIDE DEF loaded
<1>2. ToEntities(loaded) = loaded
  <2>1. /\ ToEntities(loaded) \in Seq(Tags)
        /\ Len(ToEntities(loaded)) = Len(loaded)
        /\ \A i \in 1 .. Len(loaded) :
              ToEntities(loaded)[i] = [loaded[i] EXCEPT !.name = Dashed[@]]
    BY <1>1, EntitiesAre
  <2>2. ASSUME NEW i \in 1 .. Len(loaded)
        PROVE  ToEntities(loaded)[i] = loaded[i]
    <3>1. loaded[i] \in Tags /\ Dashed[loaded[i].name] = loaded[i].name
      BY <1>1, TagListShape
    <3> QED
      BY <2>1, <3>1 DEF Tags
  <2> QED
    BY <1>1, <2>1, <2>2, SeqEqual
<1>3. Sorted(loaded) = loaded
  BY <1>1, SortedAgain
<1>4. MapTags(ToEntities(loaded)) = loaded
  BY <1>1, <1>2, <1>3 DEF MapTags, Collection
<1> QED
  BY <1>4 DEF loaded

-----------------------------------------------------------------------------
(* The weights of a list together                                          *)

LEMMA FactorCancels ==
    ASSUME NEW t \in Nat \ {0}, NEW x \in Nat, NEW y \in Nat,
           x * t <= y * t
    PROVE  x <= y
<1> SUFFICES ASSUME x >= y + 1 PROVE FALSE
  OBVIOUS
<1>1. PICK d \in Nat : x = (y + 1) + d
  <2>1. x - (y + 1) \in Nat
    OBVIOUS
  <2> QED
    BY <2>1
<1>2. x * t = (y * t + t) + d * t /\ y * t \in Nat /\ d * t \in Nat
  BY <1>1
<1> QED
  BY <1>2

\* A list that is weighed matches its counts: each weight misses its share by
\* half a thousandth at most, so k of them miss theirs by k halves.
LEMMA WeighedMatches ==
    ASSUME NEW list \in Seq(Tags)
    PROVE  WeightsMatch(RecalculateWeights(list))
<1> DEFINE w == RecalculateWeights(list)
           total == TotalCount(w)
           sum == TotalWeight(w)
<1>1. /\ w \in Seq(Tags) /\ Len(w) = Len(list)
      /\ \A i \in 1 .. Len(list) :
            /\ w[i].count = list[i].count
            /\ TotalCount(list) # 0 =>
                  w[i].weight = RoundedShare(list[i].count, TotalCount(list))
  BY WeighedIs
<1>2. TotalCount(list) = total
  <2> HIDE DEF w
  <2> QED
    BY <1>1, SameCountsSum DEF total
<1> HIDE DEF w
<1> SUFFICES ASSUME total > 0
             PROVE  /\ \A i \in DOMAIN w :
                          /\ 2 * 1000 * w[i].count
                                 <= 2 * w[i].weight * total + total
                          /\ 2 * w[i].weight * total
                                 <= 2 * 1000 * w[i].count + total
                    /\ 2 * sum <= 2 * 1000 + Len(w)
                    /\ 2 * 1000 <= 2 * sum + Len(w)
  BY DEF WeightsMatch, TotalWeight, w
<1> DEFINE n == Len(w)
<1>3. /\ n \in Nat /\ DOMAIN w = 1 .. n /\ total \in Nat \ {0}
      /\ \A i \in 1 .. n : w[i] \in Tags
  BY <1>1, TagListShape, TotalCountIs
<1> HIDE DEF total
<1>4. ASSUME NEW i \in 1 .. n
      PROVE  /\ w[i].count \in Nat /\ w[i].weight \in Nat
             /\ 2 * (w[i].weight * total) <= 2 * (1000 * w[i].count) + total
             /\ 2 * (1000 * w[i].count) <= 2 * (w[i].weight * total) + total
  <2>1. w[i].count \in Nat /\ w[i].weight \in Nat
    BY <1>3 DEF Tags
  <2>2. w[i].weight = RoundedShare(w[i].count, total)
    BY <1>1, <1>2, <1>3
  <2> DEFINE count == w[i].count
             share == RoundedShare(count, total)
  <2> HIDE DEF count
  <2>3. NearShare(share, count, total)
    <3>1. count \in Nat /\ total \in Nat \ {0}
      BY <1>3, <2>1 DEF count
    <3> QED
      BY <3>1, RoundedShareIs
  <2> QED
    BY <2>1, <2>2, <2>3 DEF count, NearShare
<1>5. \A i \in 1 .. n :
         /\ 2 * 1000 * w[i].count <= 2 * w[i].weight * total + total
         /\ 2 * w[i].weight * total <= 2 * 1000 * w[i].count + total
  <2> SUFFICES ASSUME NEW i \in 1 .. n
               PROVE  /\ 2 * 1000 * w[i].count
                             <= 2 * w[i].weight * total + total
                      /\ 2 * w[i].weight * total
                             <= 2 * 1000 * w[i].count + total
    OBVIOUS
  <2>1. 2 * w[i].weight * total = 2 * (w[i].weight * total)
    BY <1>3, <1>4
  <2> QED
    BY <1>3, <1>4, <2>1
<1>6. PICK c : CountSums(c, w)
  BY <1>1, CountsAddUp
<1>7. PICK s : WeightSums(s, w)
  BY <1>1, WeightsAddUp
<1> DEFINE Close == {k \in 0 .. n :
               /\ 2 * (s[k] * total) <= 2 * (1000 * c[k]) + k * total
               /\ 2 * (1000 * c[k]) <= 2 * (s[k] * total) + k * total}
<1>8. /\ c[0] = 0 /\ s[0] = 0 /\ c[n] = total /\ s[n] = sum
      /\ \A k \in 0 .. n : c[k] \in Nat /\ s[k] \in Nat
      /\ \A k \in 1 .. n : /\ c[k] = c[k - 1] + w[k].count
                           /\ s[k] = s[k - 1] + w[k].weight
  <2>1. Indices(n) = 1 .. n
    BY DEF Indices
  <2> QED
    BY <1>6, <1>7, <2>1 DEF CountSums, WeightSums, total
<1> HIDE DEF n
<1>9. 0 \in Close
  BY <1>3, <1>8
<1>10. ASSUME NEW k \in 1 .. n, k - 1 \in Close PROVE k \in Close
  <2>1. /\ c[k] \in Nat /\ s[k] \in Nat
        /\ c[k - 1] \in Nat /\ s[k - 1] \in Nat
        /\ w[k].count \in Nat /\ w[k].weight \in Nat
    BY <1>3, <1>4, <1>8
  <2> DEFINE a == s[k - 1] * total
             b == w[k].weight * total
             e == (k - 1) * total
  <2>2. a \in Int /\ b \in Int /\ e \in Int
    BY <1>3, <2>1
  <2>3. s[k] * total = a + b
    <3>1. s[k] = s[k - 1] + w[k].weight
      BY <1>8
    <3> QED
      BY <1>3, <2>1, <3>1
  <2>4. k * total = e + total
    BY <1>3
  <2>5. /\ 2 * a <= 2 * (1000 * c[k - 1]) + e
        /\ 2 * (1000 * c[k - 1]) <= 2 * a + e
    BY <1>10
  <2>6. /\ 2 * b <= 2 * (1000 * w[k].count) + total
        /\ 2 * (1000 * w[k].count) <= 2 * b + total
    BY <1>4
  <2>7. c[k] = c[k - 1] + w[k].count
    BY <1>8
  <2> DEFINE d == c[k - 1]
             g == w[k].count
  <2>10. d \in Nat /\ g \in Nat /\ c[k] = d + g
    BY <2>1, <2>7
  <2> HIDE DEF a, b, e, d, g, Close
  <2>11. /\ 2 * (a + b) <= 2 * (1000 * (d + g)) + (e + total)
         /\ 2 * (1000 * (d + g)) <= 2 * (a + b) + (e + total)
    <3>1. /\ 2 * a <= 2 * (1000 * d) + e /\ 2 * (1000 * d) <= 2 * a + e
          /\ 2 * b <= 2 * (1000 * g) + total
          /\ 2 * (1000 * g) <= 2 * b + total
      BY <2>5, <2>6 DEF d, g
    <3> QED
      BY <1>3, <2>2, <2>10, <3>1
  <2>8. /\ 2 * (s[k] * total) <= 2 * (1000 * c[k]) + k * total
        /\ 2 * (1000 * c[k]) <= 2 * (s[k] * total) + k * total
    BY <2>3, <2>4, <2>10, <2>11
  <2>9. k \in 0 .. n
    BY <1>3
  <2> QED
    BY <2>8, <2>9 DEF Close
<1>11. n \in Close
  <2> HIDE DEF Close
  <2> QED
    BY <1>3, <1>9, <1>10, UpToInduction
<1>12. sum \in Nat
  BY <1>3, <1>8
<1>13. /\ 2 * (sum * total) <= 2 * (1000 * total) + n * total
       /\ 2 * (1000 * total) <= 2 * (sum * total) + n * total
  BY <1>8, <1>11
<1>14. 2 * sum <= 2 * 1000 + n /\ 2 * 1000 <= 2 * sum + n
  <2> HIDE DEF sum, Close
  <2>1. /\ (2 * sum) * total = 2 * (sum * total)
        /\ (2000 + n) * total = 2 * (1000 * total) + n * total
        /\ 2000 * total = 2 * (1000 * total)
        /\ (2 * sum + n) * total = 2 * (sum * total) + n * total
    BY <1>3, <1>12
  <2>2. /\ 2 * sum \in Nat /\ 2000 + n \in Nat /\ 2 * sum + n \in Nat
    BY <1>3, <1>12
  <2>3. 2 * sum <= 2000 + n
    BY <1>3, <1>13, <2>1, <2>2, FactorCancels
  <2>4. 2000 <= 2 * sum + n
    BY <1>3, <1>13, <2>1, <2>2, FactorCancels
  <2> QED
    BY <2>3, <2>4
<1> QED
  BY <1>3, <1>5, <1>14 DEF n

-----------------------------------------------------------------------------
(* Names that are stored as they are                                       *)

StoredAsIs(n) == \A m \in Names : (Dashed[m] = n) = (m = n)

CleanOnce(list) ==
    \A i, j \in 1 .. Len(list) :
        list[i].name = list[j].name /\ StoredAsIs(list[i].name) => i = j

\* A list that takes its tags from places of another, each from its own.
LEMMA PlacesKeepOnce ==
    ASSUME NEW list \in Seq(Tags), CleanOnce(list),
           NEW new \in Seq(Tags),
           NEW from \in [1 .. Len(new) -> 1 .. Len(list)],
           \A i, j \in 1 .. Len(new) : i # j => from[i] # from[j],
           \A i \in 1 .. Len(new) : new[i].name = list[from[i]].name
    PROVE  CleanOnce(new)
<1> SUFFICES ASSUME NEW i \in 1 .. Len(new), NEW j \in 1 .. Len(new),
                    new[i].name = new[j].name, StoredAsIs(new[i].name)
             PROVE  i = j
  BY DEF CleanOnce
<1>1. from[i] \in 1 .. Len(list) /\ from[j] \in 1 .. Len(list)
  OBVIOUS
<1>2. from[i] = from[j]
  BY <1>1 DEF CleanOnce
<1> QED
  BY <1>2

LEMMA NamesKeepOnce ==
    ASSUME NEW list \in Seq(Tags), CleanOnce(list),
           NEW new \in Seq(Tags), Len(new) = Len(list),
           \A i \in 1 .. Len(list) : new[i].name = list[i].name
    PROVE  CleanOnce(new)
BY DEF CleanOnce

LEMMA WeighedKeepOnce ==
    ASSUME NEW list \in Seq(Tags), CleanOnce(list)
    PROVE  /\ RecalculateWeights(list) \in Seq(Tags)
           /\ CleanOnce(RecalculateWeights(list))
<1> DEFINE w == RecalculateWeights(list)
<1>1. /\ w \in Seq(Tags) /\ Len(w) = Len(list)
      /\ \A i \in 1 .. Len(list) : w[i].name = list[i].name
  BY WeighedIs
<1> HIDE DEF w
<1>2. CleanOnce(w)
  BY <1>1, NamesKeepOnce
<1> QED
  BY <1>1, <1>2 DEF w

LEMMA SortedKeepOnce ==
    ASSUME NEW list \in Seq(Tags), CleanOnce(list)
    PROVE  Sorted(list) \in Seq(Tags) /\ CleanOnce(Sorted(list))
<1> DEFINE s == Sorted(list)
           n == Len(list)
           from == [k \in 1 .. n |-> PlaceOf(list, k)]
<1>1. /\ s \in Seq(Tags) /\ Len(s) = n
      /\ \A k \in 1 .. n : /\ PlaceOf(list, k) \in 1 .. n
                           /\ s[k] = list[PlaceOf(list, k)]
      /\ \A k, l \in 1 .. n : k < l => PlaceOf(list, k) # PlaceOf(list, l)
  BY SortedIs
<1>2. n \in Nat
  BY LenProperties
<1>3. from \in [1 .. n -> 1 .. n]
  BY <1>1
<1>4. \A k \in 1 .. n : from[k] = PlaceOf(list, k)
  OBVIOUS
<1> HIDE DEF from
<1>5. \A i, j \in 1 .. n : i # j => from[i] # from[j]
  <2> SUFFICES ASSUME NEW i \in 1 .. n, NEW j \in 1 .. n, i # j
               PROVE  from[i] # from[j]
    OBVIOUS
  <2>1. i < j \/ j < i
    BY <1>2
  <2> HIDE DEF n
  <2> QED
    BY <1>1, <1>4, <2>1
<1>6. \A i \in 1 .. n : s[i].name = list[from[i]].name
  BY <1>1, <1>4
<1> HIDE DEF s
<1>7. CleanOnce(s)
  <2>1. /\ from \in [1 .. Len(s) -> 1 .. Len(list)]
        /\ \A i, j \in 1 .. Len(s) : i # j => from[i] # from[j]
        /\ \A i \in 1 .. Len(s) : s[i].name = list[from[i]].name
    BY <1>1, <1>3, <1>5, <1>6
  <2>2. s \in Seq(Tags)
    BY <1>1
  <2> HIDE DEF n
  <2> QED
    BY <2>1, <2>2, PlacesKeepOnce
<1> QED
  BY <1>1, <1>7 DEF s

LEMMA AddTagKeepsOnce ==
    ASSUME NEW list \in Seq(Tags), NEW name \in Names, CleanOnce(list)
    PROVE  AddTag(list, name) \in Seq(Tags) /\ CleanOnce(AddTag(list, name))
<1> DEFINE new == AddTag(list, name)
<1>1. new \in Seq(Tags)
  BY AddTagAt
<1>2. CASE name \in NamesOf(list)
  BY <1>1, <1>2 DEF AddTag
<1>3. CASE name \notin NamesOf(list)
  <2>1. /\ Len(new) = Len(list) + 1
        /\ \A i \in 1 .. Len(list) : new[i] = list[i]
        /\ new[Len(list) + 1].name = name
    BY <1>3, AddTagAt
  <2>2. /\ Len(list) \in Nat
        /\ \A i \in 1 .. Len(list) : list[i].name # name
    BY <1>3, TagListShape DEF NamesOf
  <2> HIDE DEF new
  <2>3. CleanOnce(new)
    BY <2>1, <2>2 DEF CleanOnce
  <2> QED
    BY <1>1, <2>3 DEF new
<1> QED
  BY <1>2, <1>3

\* The list of tags of a link stays a list of tags, and a name that is stored
\* as it is stays on it once.
SoundTags(list) == list \in Seq(Tags) /\ CleanOnce(list)

LEMMA AddKeepsSound ==
    ASSUME NEW list, SoundTags(list), NEW names \in Seq(Names)
    PROVE  SoundTags(Add(list, names))
<1>1. list \in Seq(Tags) /\ CleanOnce(list)
  BY DEF SoundTags
<1>2. PICK f : Added(f, list, names)
  BY <1>1, NamesAreAdded
<1> DEFINE n == Len(names)
           Kept == {k \in 0 .. n : SoundTags(f[k])}
<1>3. /\ n \in Nat /\ Indices(n) = 1 .. n
      /\ \A k \in 1 .. n : names[k] \in Names
  BY IndicesOfSeq DEF Indices
<1>4. /\ f[0] = list /\ f[n] = FoldLeft(AddTag, list, names)
      /\ \A k \in 1 .. n : f[k] = AddTag(f[k - 1], names[k])
  BY <1>2, <1>3 DEF Added
<1> HIDE DEF n
<1>5. 0 \in Kept
  BY <1>1, <1>3, <1>4 DEF SoundTags
<1>6. ASSUME NEW k \in 1 .. n, k - 1 \in Kept PROVE k \in Kept
  <2>1. f[k - 1] \in Seq(Tags) /\ CleanOnce(f[k - 1])
    BY <1>6 DEF SoundTags
  <2>2. names[k] \in Names /\ f[k] = AddTag(f[k - 1], names[k])
    BY <1>3, <1>4
  <2>3. SoundTags(f[k])
    BY <2>1, <2>2, AddTagKeepsOnce DEF SoundTags
  <2> QED
    BY <1>3, <2>3
<1>7. n \in Kept
  <2> HIDE DEF Kept
  <2>1. n \in Nat
    BY <1>3
  <2>2. 0 .. n \subseteq Kept
    BY <1>5, <1>6, <2>1, UpToInduction
  <2> QED
    BY <2>1, <2>2
<1>8. SoundTags(FoldLeft(AddTag, list, names))
  BY <1>4, <1>7
<1> QED
  BY <1>8, WeighedKeepOnce DEF Add, SoundTags

-----------------------------------------------------------------------------
(* Deleting and merging                                                    *)

FirstNamed(list, name) == Min({i \in 1 .. Len(list) : list[i].name = name})

\* The first tag of the name goes, and the tags behind it move up.
LEMMA DeleteIs ==
    ASSUME NEW list \in Seq(Tags), NEW name \in Names, name \in NamesOf(list)
    PROVE  LET d == RemoveFirstMatch(list, LAMBDA tag : tag.name = name)
               m == FirstNamed(list, name)
           IN  /\ m \in 1 .. Len(list)
               /\ d \in Seq(Tags) /\ Len(d) = Len(list) - 1
               /\ \A i \in 1 .. Len(list) - 1 :
                     d[i] = list[IF i < m THEN i ELSE i + 1]
<1> DEFINE n == Len(list)
           m == FirstNamed(list, name)
           T == {i \in 1 .. n : list[i].name = name}
           before == SubSeq(list, 1, m - 1)
           behind == SubSeq(list, m + 1, n)
           d == RemoveFirstMatch(list, LAMBDA tag : tag.name = name)
<1>1. /\ n \in Nat /\ DOMAIN list = 1 .. n
      /\ \A i \in 1 .. n : list[i] \in Tags
  BY TagListShape
<1>2. T \in SUBSET Nat /\ T # {}
  BY <1>1 DEF NamesOf
<1>3. m \in T
  <2>1. \E k \in T : \A l \in T : k <= l
    <3> HIDE DEF T
    <3> QED
      BY <1>2, LeastNumber
  <2>2. m = Min(T)
    BY DEF FirstNamed
  <2> HIDE DEF T, m
  <2> QED
    BY <2>1, <2>2 DEF Min
<1>4. d = before \o behind
  <2>1. \E i \in 1 .. Len(list) : list[i].name = name
    BY <1>2
  <2> QED
    BY <1>2, <2>1 DEF RemoveFirstMatch, SelectInSeq, RemoveAt, FirstNamed
<1>5. m \in 1 .. n
  BY <1>3
<1> HIDE DEF m, n, d
<1>6. /\ before \in Seq(Tags) /\ Len(before) = m - 1
      /\ \A i \in 1 .. (m - 1) : before[i] = list[i]
  <2>1. \A i \in 1 .. (m - 1) : list[i] \in Tags
    BY <1>1, <1>5
  <2>2. 1 \in Int /\ m - 1 \in Int
    BY <1>1, <1>5
  <2>3. /\ before \in Seq(Tags)
        /\ Len(before) = IF 1 <= m - 1 THEN (m - 1) - 1 + 1 ELSE 0
        /\ \A i \in 1 .. (m - 1) - 1 + 1 : before[i] = list[1 + i - 1]
    BY <2>1, <2>2, SubSeqProperties
  <2> HIDE DEF before
  <2>4. \A i \in 1 .. (m - 1) : 1 + i - 1 = i /\ i \in 1 .. (m - 1) - 1 + 1
    BY <1>1, <1>5
  <2> QED
    BY <1>1, <1>5, <2>3, <2>4
<1>7. /\ behind \in Seq(Tags) /\ Len(behind) = n - m
      /\ \A i \in 1 .. (n - m) : behind[i] = list[m + i]
  <2>1. \A i \in (m + 1) .. n : list[i] \in Tags
    BY <1>1, <1>5
  <2>2. m + 1 \in Int /\ n \in Int
    BY <1>1, <1>5
  <2>3. /\ behind \in Seq(Tags)
        /\ Len(behind) = IF m + 1 <= n THEN n - (m + 1) + 1 ELSE 0
        /\ \A i \in 1 .. n - (m + 1) + 1 : behind[i] = list[(m + 1) + i - 1]
    BY <2>1, <2>2, SubSeqProperties
  <2> HIDE DEF behind
  <2>4. \A i \in 1 .. (n - m) : (m + 1) + i - 1 = m + i
                                /\ i \in 1 .. n - (m + 1) + 1
    BY <1>1, <1>5
  <2> QED
    BY <1>1, <1>5, <2>3, <2>4
<1> HIDE DEF before, behind
<1>8. /\ d \in Seq(Tags) /\ Len(d) = (m - 1) + (n - m)
      /\ \A i \in 1 .. (m - 1) + (n - m) :
            d[i] = IF i <= m - 1 THEN before[i] ELSE behind[i - (m - 1)]
  <2>1. before \in Seq(Tags) /\ behind \in Seq(Tags)
    BY <1>6, <1>7
  <2>2. /\ before \o behind \in Seq(Tags)
        /\ Len(before \o behind) = Len(before) + Len(behind)
        /\ \A i \in 1 .. Len(before) + Len(behind) : (before \o behind)[i] =
              IF i <= Len(before) THEN before[i] ELSE behind[i - Len(before)]
    BY <2>1, ConcatProperties
  <2> QED
    BY <1>4, <1>6, <1>7, <2>2
<1>9. (m - 1) + (n - m) = n - 1
  BY <1>1, <1>5
<1>10. ASSUME NEW i \in 1 .. (n - 1)
       PROVE  d[i] = list[IF i < m THEN i ELSE i + 1]
  <2>1. d[i] = IF i <= m - 1 THEN before[i] ELSE behind[i - (m - 1)]
    BY <1>8, <1>9
  <2>2. CASE i < m
    <3>1. i \in 1 .. (m - 1)
      BY <1>1, <1>5, <2>2
    <3> QED
      BY <1>6, <2>1, <2>2, <3>1
  <2>3. CASE ~(i < m)
    <3>1. /\ i - (m - 1) \in 1 .. (n - m) /\ m + (i - (m - 1)) = i + 1
          /\ ~(i <= m - 1)
      BY <1>1, <1>5, <2>3
    <3> QED
      BY <1>7, <2>1, <2>3, <3>1
  <2> QED
    BY <2>2, <2>3
<1>11. /\ m \in 1 .. n /\ d \in Seq(Tags) /\ Len(d) = n - 1
       /\ \A i \in 1 .. (n - 1) : d[i] = list[IF i < m THEN i ELSE i + 1]
  BY <1>5, <1>8, <1>9, <1>10
<1> QED
  BY <1>11 DEF m, n, d

LEMMA DeleteKeepsSound ==
    ASSUME NEW list, SoundTags(list), NEW name \in Names
    PROVE  SoundTags(Delete(list, name))
<1> DEFINE d == RemoveFirstMatch(list, LAMBDA tag : tag.name = name)
           m == FirstNamed(list, name)
           from == [i \in 1 .. Len(d) |-> IF i < m THEN i ELSE i + 1]
<1>1. list \in Seq(Tags) /\ CleanOnce(list)
  BY DEF SoundTags
<1>2. CASE name \notin NamesOf(list)
  BY <1>2 DEF Delete
<1>3. CASE name \in NamesOf(list)
  <2>1. /\ m \in 1 .. Len(list)
        /\ d \in Seq(Tags) /\ Len(d) = Len(list) - 1
        /\ \A i \in 1 .. Len(list) - 1 :
              d[i] = list[IF i < m THEN i ELSE i + 1]
    BY <1>1, <1>3, DeleteIs
  <2>2. Delete(list, name) = RecalculateWeights(d)
    BY <1>3 DEF Delete
  <2>3. Len(list) \in Nat
    BY <1>1, LenProperties
  <2> HIDE DEF d, m
  <2>4. from \in [1 .. Len(d) -> 1 .. Len(list)]
    BY <2>1, <2>3
  <2>5. \A i, j \in 1 .. Len(d) : i # j => from[i] # from[j]
    BY <2>1, <2>3
  <2>6. \A i \in 1 .. Len(d) : d[i].name = list[from[i]].name
    BY <2>1, <2>3
  <2> HIDE DEF from
  <2>7. d \in Seq(Tags) /\ CleanOnce(d)
    BY <1>1, <2>1, <2>4, <2>5, <2>6, PlacesKeepOnce
  <2> QED
    BY <2>2, <2>7, WeighedKeepOnce DEF SoundTags
<1> QED
  BY <1>2, <1>3

\* Link.MergeTags, as far as it drops tags: one candidate, and the candidates
\* of q one after the other.
AfterDrop(kept, tag, names) ==
    IF tag.name \in ToSet(names) THEN kept ELSE Delete(kept, tag.name)

Drops(list, names, q) ==
    LET DropAbsent(kept, tag) ==
            IF tag.name \in ToSet(names) THEN kept ELSE Delete(kept, tag.name)
    IN  FoldLeft(DropAbsent, list, q)

LEMMA MergeIs ==
    ASSUME NEW list, NEW names
    PROVE  MergeTags(list, names) =
               Add(Drops(list, names, SubSeq(list, 1, Len(list) - 1)), names)
BY DEF MergeTags, Drops

SoundLists == {list \in Seq(Tags) : SoundTags(list)}

LEMMA AfterDropIsSound ==
    ASSUME NEW kept \in SoundLists, NEW tag \in Tags, NEW names
    PROVE  AfterDrop(kept, tag, names) \in SoundLists
<1>1. tag.name \in Names
  BY DEF Tags
<1>2. SoundTags(Delete(kept, tag.name))
  BY <1>1, DeleteKeepsSound DEF SoundLists
<1> QED
  BY <1>2 DEF AfterDrop, SoundLists, SoundTags

\* What the first k candidates of q have left of the list.
Dropped(f, list, names, q) ==
    /\ f \in [0 .. Len(q) -> SoundLists]
    /\ f[0] = list /\ f[Len(q)] = Drops(list, names, q)
    /\ \A k \in Indices(Len(q)) : f[k] = AfterDrop(f[k - 1], q[k], names)

LEMMA CandidatesDrop ==
    ASSUME NEW list \in SoundLists, NEW names, NEW q \in Seq(Tags)
    PROVE  \E f : Dropped(f, list, names, q)
<1> DEFINE n == Len(q)
           step == [i \in Indices(n) |->
                      [x \in SoundLists |-> AfterDrop(x, q[i], names)]]
           iter[t \in SUBSET Indices(n)] ==
               IF t = {} THEN list
               ELSE AfterDrop(iter[t \ {Max(t)}], q[Max(t)], names)
           f == [k \in 0 .. n |-> iter[Indices(k)]]
<1>1. /\ n \in Nat /\ DOMAIN q = Indices(n)
      /\ \A i \in Indices(n) : q[i] \in Tags
  BY IndicesOfSeq
<1>2. list \in SoundLists /\ \A x \in SoundLists, e \in Tags :
         AfterDrop(x, e, names) \in SoundLists
  BY AfterDropIsSound
<1>3. step \in [Indices(n) -> [SoundLists -> SoundLists]]
  <2> HIDE DEF n
  <2> QED
    BY <1>1, <1>2
<1>4. PICK it : IsFoldLeft(it, n, SoundLists, list, step)
  <2> HIDE DEF n, step
  <2> QED
    BY <1>1, <1>2, <1>3, FoldLeftExists
<1>5. it = [t \in SUBSET Indices(n) |->
              IF t = {} THEN list
              ELSE AfterDrop(it[t \ {Max(t)}], q[Max(t)], names)]
  BY <1>1, <1>4, MaxOfIndices DEF IsFoldLeft
<1>6. iter = [t \in SUBSET Indices(n) |->
                IF t = {} THEN list
               ELSE AfterDrop(iter[t \ {Max(t)}], q[Max(t)], names)]
  BY <1>5
<1>7. Drops(list, names, q) = iter[Indices(n)]
  BY <1>1 DEF Drops, AfterDrop, FoldLeft, MapThenFoldSet
<1>8. \A t \in SUBSET Indices(n) :
         iter[t] = IF t = {} THEN list
                   ELSE AfterDrop(iter[t \ {Max(t)}], q[Max(t)], names)
  <2> HIDE DEF iter, n
  <2> QED
    BY <1>6
<1> HIDE DEF iter, step
<1>9. ASSUME NEW t \in SUBSET Indices(n), t # {},
             iter[t \ {Max(t)}] \in SoundLists
      PROVE  iter[t] \in SoundLists
  <2>1. Max(t) \in Indices(n)
    BY <1>1, <1>9, MaxOfIndices
  <2> HIDE DEF n
  <2> QED
    BY <1>1, <1>2, <1>8, <1>9, <2>1
<1>10. iter[{}] = list
  BY <1>8
<1>11. \A k \in 0 .. n : iter[Indices(k)] \in SoundLists
  <2> HIDE DEF n
  <2> QED
    BY <1>1, <1>2, <1>9, <1>10, FoldLeftStays
<1>12. f \in [0 .. n -> SoundLists]
  BY <1>11
<1>13. f[0] = list /\ f[n] = Drops(list, names, q)
  <2>1. Indices(0) = {} /\ 0 \in 0 .. n /\ n \in 0 .. n
    BY <1>1, IndicesUpTo
  <2> HIDE DEF n
  <2> QED
    BY <1>7, <1>10, <2>1
<1>14. ASSUME NEW k \in Indices(n)
       PROVE  f[k] = AfterDrop(f[k - 1], q[k], names)
  <2>1. f[k] = iter[Indices(k)] /\ f[k - 1] = iter[Indices(k - 1)]
    BY <1>1 DEF Indices
  <2>2. iter[Indices(k)] = AfterDrop(iter[Indices(k - 1)], q[k], names)
    <3>1. /\ Indices(k) \in SUBSET Indices(n) /\ Indices(k) # {}
          /\ Max(Indices(k)) = k /\ Indices(k) \ {k} = Indices(k - 1)
      BY <1>1, IndicesUpTo
    <3> HIDE DEF n, f
    <3> QED
      BY <1>8, <3>1
  <2> QED
    BY <2>1, <2>2
<1> HIDE DEF f
<1> QED
  BY <1>12, <1>13, <1>14 DEF Dropped

LEMMA CandidatesAre ==
    ASSUME NEW list \in Seq(Tags)
    PROVE  SubSeq(list, 1, Len(list) - 1) \in Seq(Tags)
<1>1. /\ Len(list) \in Nat /\ \A i \in 1 .. Len(list) : list[i] \in Tags
  BY TagListShape
<1>2. /\ 1 \in Int /\ Len(list) - 1 \in Int
      /\ \A i \in 1 .. Len(list) - 1 : list[i] \in Tags
  BY <1>1
<1> QED
  BY <1>2, SubSeqProperties

LEMMA MergeKeepsSound ==
    ASSUME NEW list, SoundTags(list), NEW names \in Seq(Names)
    PROVE  SoundTags(MergeTags(list, names))
<1> DEFINE q == SubSeq(list, 1, Len(list) - 1)
<1>1. list \in SoundLists /\ list \in Seq(Tags)
  BY DEF SoundLists, SoundTags
<1>2. q \in Seq(Tags)
  BY <1>1, CandidatesAre
<1>3. MergeTags(list, names) = Add(Drops(list, names, q), names)
  BY MergeIs
<1> HIDE DEF q
<1>4. PICK f : Dropped(f, list, names, q)
  BY <1>1, <1>2, CandidatesDrop
<1>5. SoundTags(Drops(list, names, q))
  <2>1. Len(q) \in Nat
    BY <1>2, LenProperties
  <2>2. f[Len(q)] \in SoundLists
    BY <1>4, <2>1 DEF Dropped
  <2> QED
    BY <1>4, <2>2 DEF Dropped, SoundLists
<1> QED
  BY <1>3, <1>5, AddKeepsSound

\* Dropping leaves the list as it was or weighed.
LEMMA DropsLeaveWeighed ==
    ASSUME NEW list, SoundTags(list), NEW names, NEW q \in Seq(Tags)
    PROVE  \/ Drops(list, names, q) = list
           \/ \E p \in Seq(Tags) :
                 Drops(list, names, q) = RecalculateWeights(p)
<1>1. list \in SoundLists
  BY DEF SoundLists, SoundTags
<1>2. PICK f : Dropped(f, list, names, q)
  BY <1>1, CandidatesDrop
<1> DEFINE n == Len(q)
           Done(r) == \/ r = list
                      \/ \E p \in Seq(Tags) : r = RecalculateWeights(p)
           Fine == {k \in 0 .. n : Done(f[k])}
<1>3. /\ n \in Nat /\ Indices(n) = 1 .. n
      /\ \A k \in 1 .. n : q[k] \in Tags
  BY IndicesOfSeq DEF Indices
<1>4. /\ f[0] = list /\ f[n] = Drops(list, names, q)
      /\ \A k \in 0 .. n : f[k] \in SoundLists
      /\ \A k \in 1 .. n : f[k] = AfterDrop(f[k - 1], q[k], names)
  BY <1>2, <1>3 DEF Dropped
<1> HIDE DEF n
<1>5. 0 \in Fine
  BY <1>3, <1>4
<1>6. ASSUME NEW k \in 1 .. n, k - 1 \in Fine PROVE k \in Fine
  <2>1. /\ Done(f[k - 1]) /\ f[k - 1] \in Seq(Tags) /\ q[k].name \in Names
        /\ k \in 0 .. n
    <3>1. k - 1 \in 0 .. n /\ k \in 0 .. n
      BY <1>3
    <3> QED
      BY <1>3, <1>4, <1>6, <3>1 DEF SoundLists, Tags
  <2>2. CASE f[k] = f[k - 1]
    BY <2>1, <2>2
  <2>3. CASE f[k] # f[k - 1]
    <3> DEFINE r == f[k - 1]
               d == RemoveFirstMatch(r, LAMBDA tag : tag.name = q[k].name)
    <3>1. f[k] = Delete(r, q[k].name) /\ q[k].name \in NamesOf(r)
      BY <1>4, <2>3 DEF AfterDrop, Delete
    <3>2. f[k] = RecalculateWeights(d)
      BY <3>1 DEF Delete
    <3>3. d \in Seq(Tags)
      <4>1. r \in Seq(Tags) /\ q[k].name \in Names
        BY <2>1
      <4> HIDE DEF r
      <4> QED
        BY <3>1, <4>1, DeleteIs
    <3> HIDE DEF d
    <3>4. Done(f[k])
      BY <3>2, <3>3
    <3> QED
      BY <2>1, <3>4
  <2> QED
    BY <2>2, <2>3
<1>7. n \in Fine
  <2> HIDE DEF Fine
  <2>1. n \in Nat
    BY <1>3
  <2>2. 0 .. n \subseteq Fine
    BY <1>5, <1>6, <2>1, UpToInduction
  <2> QED
    BY <2>1, <2>2
<1> QED
  BY <1>4, <1>7

-----------------------------------------------------------------------------
(* The life of the tags                                                    *)

LEMMA EntitiesKeepSound ==
    ASSUME NEW list, SoundTags(list)
    PROVE  SoundTags(ToEntities(list))
<1> DEFINE e == ToEntities(list)
<1>1. list \in Seq(Tags) /\ CleanOnce(list)
  BY DEF SoundTags
<1>2. /\ e \in Seq(Tags) /\ Len(e) = Len(list)
      /\ \A i \in 1 .. Len(list) : e[i].name = Dashed[list[i].name]
  BY <1>1, EntitiesAre
<1>3. \A i \in 1 .. Len(list) : list[i].name \in Names
  BY <1>1, TagListShape
<1> HIDE DEF e
<1>4. CleanOnce(e)
  <2> SUFFICES ASSUME NEW i \in 1 .. Len(e), NEW j \in 1 .. Len(e),
                      e[i].name = e[j].name, StoredAsIs(e[i].name)
               PROVE  i = j
    BY DEF CleanOnce
  <2>1. list[i].name = e[i].name /\ list[j].name = e[i].name
    BY <1>2, <1>3 DEF StoredAsIs
  <2> QED
    BY <1>1, <1>2, <2>1 DEF CleanOnce
<1> QED
  BY <1>2, <1>4 DEF SoundTags, e

LEMMA CollectionKeepsSound ==
    ASSUME NEW list, SoundTags(list)
    PROVE  SoundTags(Collection(list))
<1>1. Sorted(list) \in Seq(Tags) /\ CleanOnce(Sorted(list))
  BY SortedKeepOnce DEF SoundTags
<1> QED
  BY <1>1, WeighedKeepOnce DEF Collection, SoundTags

LEMMA NameListsAreLists ==
    ASSUME NEW names \in NameLists
    PROVE  names \in Seq(Names)
<1>1. PICK m \in 0 .. MaxNames : names \in [1 .. m -> Names]
  BY DEF NameLists, SeqOf
<1>2. m \in Nat
  BY <1>1, BoundsAssumption
<1> DEFINE nameAt(i) == names[i]
<1>3. [i \in 1 .. m |-> nameAt(i)] \in Seq(Names)
  <2>1. \A i \in 1 .. m : nameAt(i) \in Names
    BY <1>1
  <2> HIDE DEF nameAt
  <2> QED
    BY <1>2, <2>1, IsASeq
<1>4. names = [i \in 1 .. m |-> nameAt(i)]
  BY <1>1
<1> QED
  BY <1>3, <1>4

TagsInv == SoundTags(tags)

LEMMA TagsStart == TagsInit => TagsInv
<1> SUFFICES ASSUME NEW names \in NameLists,
                    tags = Collection(Add(<<>>, names))
             PROVE  TagsInv
  BY DEF TagsInit
<1>1. SoundTags(<<>>)
  BY DEF SoundTags, CleanOnce
<1>2. SoundTags(Add(<<>>, names))
  BY <1>1, NameListsAreLists, AddKeepsSound
<1> QED
  BY <1>2, CollectionKeepsSound DEF TagsInv

\* A change of one count keeps the names.
LEMMA CountKeepsSound ==
    ASSUME NEW list, SoundTags(list), NEW i \in DOMAIN list, NEW count \in Nat
    PROVE  SoundTags([list EXCEPT ![i].count = count])
<1> DEFINE new == [list EXCEPT ![i].count = count]
           changed == [list[i] EXCEPT !.count = count]
<1>1. /\ list \in Seq(Tags) /\ CleanOnce(list)
      /\ Len(list) \in Nat /\ DOMAIN list = 1 .. Len(list)
      /\ \A k \in 1 .. Len(list) : list[k] \in Tags
  BY TagListShape DEF SoundTags
<1>2. changed \in Tags /\ changed.name = list[i].name
  BY <1>1 DEF Tags
<1>3. new = [list EXCEPT ![i] = changed]
  OBVIOUS
<1> HIDE DEF new, changed
<1>4. new \in Seq(Tags) /\ Len(new) = Len(list)
  BY <1>1, <1>2, <1>3, ExceptSeq
<1>5. \A k \in 1 .. Len(list) : new[k].name = list[k].name
  BY <1>1, <1>2, <1>3
<1>6. CleanOnce(new)
  BY <1>1, <1>4, <1>5, NamesKeepOnce
<1> QED
  BY <1>4, <1>6 DEF SoundTags, new

LEMMA TagsStay == TagsInv /\ [TagsNext]_tags => TagsInv'
<1> SUFFICES ASSUME TagsInv, [TagsNext]_tags PROVE SoundTags(tags')
  BY DEF TagsInv
<1>1. SoundTags(tags)
  BY DEF TagsInv
<1>2. CASE UNCHANGED tags
  BY <1>1, <1>2
<1>3. ASSUME NEW name \in Names, AddOne(name) PROVE SoundTags(tags')
  <2>1. <<name>> \in Seq(Names)
    OBVIOUS
  <2> QED
    BY <1>1, <1>3, <2>1, AddKeepsSound DEF AddOne
<1>4. ASSUME NEW name \in Names, DeleteName(name) PROVE SoundTags(tags')
  BY <1>1, <1>4, DeleteKeepsSound DEF DeleteName
<1>5. ASSUME NEW names \in NameLists, AddMany(names) PROVE SoundTags(tags')
  BY <1>1, <1>5, NameListsAreLists, AddKeepsSound DEF AddMany
<1>6. ASSUME NEW names \in NameLists, Merge(names) PROVE SoundTags(tags')
  BY <1>1, <1>6, NameListsAreLists, MergeKeepsSound DEF Merge
<1>7. ASSUME NEW i \in DOMAIN tags PROVE tags[i].count \in Nat
  BY <1>1, TagListShape DEF SoundTags, Tags
<1>8. ASSUME NEW i \in DOMAIN tags, IncreaseCount(i) PROVE SoundTags(tags')
  <2>1. tags' = [tags EXCEPT ![i].count = tags[i].count + 1]
    BY <1>8 DEF IncreaseCount
  <2>2. tags[i].count + 1 \in Nat
    BY <1>7
  <2> QED
    BY <1>1, <2>1, <2>2, CountKeepsSound
<1>9. ASSUME NEW i \in DOMAIN tags, DecreaseCount(i) PROVE SoundTags(tags')
  <2>1. tags' = [tags EXCEPT ![i].count = tags[i].count - 1]
    BY <1>9 DEF DecreaseCount
  <2>2. tags[i].count - 1 \in Nat
    BY <1>7, <1>9 DEF DecreaseCount
  <2> QED
    BY <1>1, <2>1, <2>2, CountKeepsSound
<1>10. ASSUME NEW i \in DOMAIN tags, NEW count \in 0 .. MaxCount,
              SetTagCount(i, count)
       PROVE  SoundTags(tags')
  <2>1. count \in Nat
    BY BoundsAssumption
  <2> QED
    BY <1>1, <1>10, <2>1, CountKeepsSound DEF SetTagCount
<1>11. CASE Clear
  BY <1>11 DEF Clear, SoundTags, CleanOnce
<1>12. CASE SaveAndLoadTags
  BY <1>1, <1>12, EntitiesKeepSound, CollectionKeepsSound
     DEF SaveAndLoadTags, MapTags
<1> QED
  BY <1>2, <1>3, <1>4, <1>5, <1>6, <1>8, <1>9, <1>10, <1>11, <1>12
     DEF TagsNext, CollectionStep, TagStep

LEMMA TagsInvariant == TagsSpec => []TagsInv
BY TagsStart, TagsStay, PTL DEF TagsSpec

LEMMA SoundIsDistinct == TagsInv => CleanNamesDistinct
<1> SUFFICES ASSUME TagsInv PROVE CleanNamesDistinct
  OBVIOUS
<1> DEFINE e == ToEntities(tags)
<1>1. SoundTags(e)
  BY EntitiesKeepSound DEF TagsInv
<1>2. DOMAIN e = 1 .. Len(e)
  BY <1>1, TagListShape DEF SoundTags
<1> HIDE DEF e
<1>3. \A i, j \in DOMAIN e : e[i].name = e[j].name /\ StoredAsIs(e[i].name)
                                 => i = j
  BY <1>1, <1>2 DEF SoundTags, CleanOnce
<1> QED
  BY <1>3 DEF e, CleanNamesDistinct, StoredAsIs

\* However a link's tags were added, merged, deleted, saved and loaded, a name
\* that is stored as it is stands in its document once.
THEOREM NamesStayDistinct == TagsSpec => []CleanNamesDistinct
BY TagsInvariant, SoundIsDistinct, PTL

LEMMA SoundSettles == TagsInv => RoundTripSettles
BY LoadedAgain DEF TagsInv, SoundTags, RoundTripSettles

\* After one round trip through the store the tags are what they will be after
\* every later one: the order, the names and the weights have settled.
THEOREM TagsSettle == TagsSpec => []RoundTripSettles
BY TagsInvariant, SoundSettles, PTL

LEMMA AddWeighs ==
    ASSUME NEW list \in Seq(Tags), NEW names \in Seq(Names),
           Add(list, names) # list
    PROVE  WeightsMatch(Add(list, names))
<1>1. PICK f : Added(f, list, names)
  BY NamesAreAdded
<1>2. Len(names) \in Nat
  BY LenProperties
<1>3. FoldLeft(AddTag, list, names) \in Seq(Tags)
  BY <1>1, <1>2 DEF Added
<1> QED
  BY <1>3, WeighedMatches DEF Add

LEMMA DeleteWeighs ==
    ASSUME NEW list \in Seq(Tags), NEW name \in Names,
           Delete(list, name) # list
    PROVE  WeightsMatch(Delete(list, name))
<1> DEFINE d == RemoveFirstMatch(list, LAMBDA tag : tag.name = name)
<1>1. name \in NamesOf(list) /\ Delete(list, name) = RecalculateWeights(d)
  BY DEF Delete
<1>2. d \in Seq(Tags)
  BY <1>1, DeleteIs
<1> HIDE DEF d
<1> QED
  BY <1>1, <1>2, WeighedMatches

LEMMA MergeWeighs ==
    ASSUME NEW list, SoundTags(list), NEW names \in Seq(Names),
           MergeTags(list, names) # list
    PROVE  WeightsMatch(MergeTags(list, names))
<1> DEFINE q == SubSeq(list, 1, Len(list) - 1)
           r == Drops(list, names, q)
<1>1. list \in Seq(Tags) /\ q \in Seq(Tags)
  BY CandidatesAre DEF SoundTags
<1>2. MergeTags(list, names) = Add(r, names)
  BY MergeIs
<1> HIDE DEF q
<1>3. r = list \/ \E p \in Seq(Tags) : r = RecalculateWeights(p)
  BY <1>1, DropsLeaveWeighed
<1>4. r \in Seq(Tags)
  BY <1>1, <1>3, WeighedIs
<1> HIDE DEF r
<1>5. CASE Add(r, names) # r
  BY <1>2, <1>4, <1>5, AddWeighs
<1>6. CASE Add(r, names) = r
  BY <1>2, <1>3, <1>6, WeighedMatches
<1> QED
  BY <1>5, <1>6

LEMMA StepsWeigh ==
    TagsInv /\ [TagsNext]_tags
        => [CollectionStep \/ SaveAndLoadTags => WeightsMatch(tags')]_tags
<1> SUFFICES ASSUME TagsInv, tags' # tags
             PROVE  CollectionStep \/ SaveAndLoadTags => WeightsMatch(tags')
  OBVIOUS
<1>1. SoundTags(tags) /\ tags \in Seq(Tags)
  BY DEF TagsInv, SoundTags
<1>2. ASSUME NEW name \in Names, AddOne(name) PROVE WeightsMatch(tags')
  <2>1. <<name>> \in Seq(Names)
    OBVIOUS
  <2> QED
    BY <1>1, <1>2, <2>1, AddWeighs DEF AddOne
<1>3. ASSUME NEW name \in Names, DeleteName(name) PROVE WeightsMatch(tags')
  BY <1>1, <1>3, DeleteWeighs DEF DeleteName
<1>4. ASSUME NEW names \in NameLists, AddMany(names)
      PROVE  WeightsMatch(tags')
  BY <1>1, <1>4, NameListsAreLists, AddWeighs DEF AddMany
<1>5. ASSUME NEW names \in NameLists, Merge(names) PROVE WeightsMatch(tags')
  BY <1>1, <1>5, NameListsAreLists, MergeWeighs DEF Merge
<1>6. CASE SaveAndLoadTags
  <2> DEFINE s == Sorted(ToEntities(tags))
  <2>1. s \in Seq(Tags)
    BY <1>1, EntitiesAre, SortedIs
  <2>2. tags' = RecalculateWeights(s)
    BY <1>6 DEF SaveAndLoadTags, MapTags, Collection
  <2> HIDE DEF s
  <2> QED
    BY <2>1, <2>2, WeighedMatches
<1> QED
  BY <1>2, <1>3, <1>4, <1>5, <1>6 DEF CollectionStep

\* Every call of the collection that changes the list, and every load, leaves
\* each weight within half a thousandth of its share, and their sum within
\* half a thousandth a tag of 1, whatever LinkTag's methods did in between.
THEOREM WeightsAreRight == TagsSpec => WeightsFollowCounts
BY TagsInvariant, StepsWeigh, PTL DEF TagsSpec, WeightsFollowCounts

-----------------------------------------------------------------------------
(* What a merge keeps                                                      *)

\* A list that holds the tags of another at the places of T, in order, but for
\* their weights.
Picks(from, new, list, T) ==
    /\ from \in [1 .. Len(new) -> T]
    /\ \A i, j \in 1 .. Len(new) : i < j => from[i] < from[j]
    /\ \A t \in T : \E i \in 1 .. Len(new) : from[i] = t
    /\ \A i \in 1 .. Len(new) : /\ new[i].name = list[from[i]].name
                                /\ new[i].count = list[from[i]].count

\* The candidates up to k have been looked at.
Left(list, names, k) ==
    {i \in 1 .. Len(list) : i > k \/ list[i].name \in ToSet(names)}

LEMMA LookedAt ==
    ASSUME NEW list \in Seq(Tags), IsDistinct(list), NEW names,
           NEW k \in 1 .. Len(list), NEW old \in Seq(Tags),
           NEW from, Picks(from, old, list, Left(list, names, k - 1))
    PROVE  LET new == AfterDrop(old, list[k], names)
           IN  /\ new \in Seq(Tags)
               /\ \E g : Picks(g, new, list, Left(list, names, k))
<1> DEFINE n == Len(list)
           name == list[k].name
           T == Left(list, names, k - 1)
           U == Left(list, names, k)
<1>1. /\ n \in Nat /\ DOMAIN list = 1 .. n
      /\ \A i \in 1 .. n : list[i] \in Tags
      /\ \A i \in 1 .. n : list[i].name \in Names
      /\ \A i, j \in 1 .. n : list[i].name = list[j].name => i = j
  BY TagListShape DEF IsDistinct
<1>2. /\ T \subseteq 1 .. n /\ k \in T
      /\ U = IF name \in ToSet(names) THEN T ELSE T \ {k}
  BY <1>1 DEF Left
<1>3. CASE name \in ToSet(names)
  BY <1>2, <1>3 DEF AfterDrop
<1>4. CASE name \notin ToSet(names)
  <2> DEFINE d == RemoveFirstMatch(old, LAMBDA tag : tag.name = name)
             m == FirstNamed(old, name)
             r == RecalculateWeights(d)
             len == Len(old)
  <2>1. len \in Nat /\ DOMAIN old = 1 .. len /\ name \in Names
    BY <1>1, TagListShape
  <2>2. PICK p \in 1 .. len : from[p] = k
    BY <1>2 DEF Picks
  <2>3. old[p].name = name
    BY <2>2 DEF Picks
  <2>4. name \in NamesOf(old)
    BY <2>1, <2>3 DEF NamesOf
  <2>5. AfterDrop(old, list[k], names) = r
    BY <1>4, <2>4 DEF AfterDrop, Delete
  <2>6. /\ m \in 1 .. len /\ d \in Seq(Tags) /\ Len(d) = len - 1
        /\ \A i \in 1 .. (len - 1) : d[i] = old[IF i < m THEN i ELSE i + 1]
    <3> HIDE DEF name
    <3> QED
      BY <2>1, <2>4, DeleteIs
  <2>7. old[m].name = name
    <3> DEFINE Same == {i \in 1 .. len : old[i].name = name}
    <3>1. Same \in SUBSET Nat /\ Same # {} /\ m = Min(Same)
      BY <2>1, <2>3 DEF FirstNamed
    <3>2. \E i \in Same : \A j \in Same : i <= j
      <4> HIDE DEF Same
      <4> QED
        BY <3>1, LeastNumber
    <3> HIDE DEF m
    <3>3. m \in Same
      <4> HIDE DEF Same
      <4> QED
        BY <3>1, <3>2 DEF Min
    <3> QED
      BY <3>3
  <2>8. from[m] = k
    <3>1. from[m] \in 1 .. n /\ list[from[m]].name = name
      BY <1>2, <2>6, <2>7 DEF Picks
    <3> QED
      BY <1>1, <3>1
  <2> HIDE DEF d, m
  <2>9. /\ r \in Seq(Tags) /\ Len(r) = len - 1
        /\ \A i \in 1 .. (len - 1) : /\ r[i].name = d[i].name
                                     /\ r[i].count = d[i].count
    BY <2>6, WeighedIs
  <2> HIDE DEF r
  <2> DEFINE shift(i) == IF i < m THEN i ELSE i + 1
             g == [i \in 1 .. (len - 1) |-> from[shift(i)]]
  <2>10. \A i \in 1 .. (len - 1) : shift(i) \in 1 .. len /\ shift(i) # m
    BY <2>1, <2>6
  <2>11. /\ from \in [1 .. len -> T]
         /\ \A i, j \in 1 .. len : i < j => from[i] < from[j]
         /\ \A t \in T : \E i \in 1 .. len : from[i] = t
         /\ \A i \in 1 .. len : /\ old[i].name = list[from[i]].name
                                /\ old[i].count = list[from[i]].count
    BY DEF Picks
  <2>12. \A i \in 1 .. len : i # m => from[i] \in U
    <3> SUFFICES ASSUME NEW i \in 1 .. len, i # m PROVE from[i] # k
      BY <1>2, <1>4, <2>11
    <3>1. i < m \/ m < i
      BY <2>1, <2>6
    <3>2. from[i] \in 1 .. n /\ from[m] \in 1 .. n
      <4>1. m \in 1 .. len
        BY <2>6
      <4>2. from[i] \in T /\ from[m] \in T
        <5> HIDE DEF T
        <5> QED
          BY <2>11, <4>1
      <4> HIDE DEF T
      <4> QED
        BY <1>2, <4>2
    <3> HIDE DEF T
    <3> QED
      BY <2>6, <2>8, <2>11, <3>1, <3>2
  <2>13. g \in [1 .. (len - 1) -> U]
    BY <2>10, <2>12
  <2>14. \A i, j \in 1 .. (len - 1) : i < j => g[i] < g[j]
    <3> SUFFICES ASSUME NEW i \in 1 .. (len - 1), NEW j \in 1 .. (len - 1),
                        i < j
                 PROVE  from[shift(i)] < from[shift(j)]
      OBVIOUS
    <3>1. shift(i) < shift(j)
      BY <2>1, <2>6
    <3> HIDE DEF shift
    <3> QED
      BY <2>10, <2>11, <3>1
  <2>15. ASSUME NEW t \in U PROVE \E i \in 1 .. (len - 1) : g[i] = t
    <3>1. t \in T /\ t # k
      BY <1>2, <1>4
    <3>2. PICK i \in 1 .. len : from[i] = t
      BY <2>11, <3>1
    <3>3. i # m
      BY <2>8, <3>1, <3>2
    <3>4. \E j \in 1 .. (len - 1) : shift(j) = i
      <4>1. CASE i < m
        <5>1. i \in 1 .. (len - 1) /\ shift(i) = i
          BY <2>1, <2>6, <4>1
        <5> QED
          BY <5>1
      <4>2. CASE i > m
        <5>1. i - 1 \in 1 .. (len - 1) /\ shift(i - 1) = i
          BY <2>1, <2>6, <4>2
        <5> QED
          BY <5>1
      <4> QED
        BY <2>1, <2>6, <3>3, <4>1, <4>2
    <3> HIDE DEF shift
    <3> QED
      BY <3>2, <3>4
  <2>16. \A i \in 1 .. (len - 1) : /\ r[i].name = list[g[i]].name
                                   /\ r[i].count = list[g[i]].count
    <3> SUFFICES ASSUME NEW i \in 1 .. (len - 1)
                 PROVE  /\ r[i].name = list[g[i]].name
                        /\ r[i].count = list[g[i]].count
      OBVIOUS
    <3>1. d[i] = old[shift(i)] /\ g[i] = from[shift(i)]
      BY <2>6
    <3>2. shift(i) \in 1 .. len
      BY <2>10
    <3>3. /\ old[shift(i)].name = list[from[shift(i)]].name
          /\ old[shift(i)].count = list[from[shift(i)]].count
      <4> HIDE DEF shift, len
      <4> QED
        BY <2>11, <3>2
    <3>4. r[i].name = d[i].name /\ r[i].count = d[i].count
      BY <2>9
    <3> HIDE DEF shift, g
    <3> QED
      BY <3>1, <3>3, <3>4
  <2> HIDE DEF g, U, len
  <2>17. Picks(g, r, list, U)
    BY <2>9, <2>13, <2>14, <2>15, <2>16 DEF Picks
  <2> QED
    BY <2>5, <2>9, <2>17 DEF U
<1> QED
  BY <1>3, <1>4

\* The place of a tag of T in the new list is the number of those up to it.
NumberUpTo(T, m) == Cardinality({j \in 1 .. m : j \in T})

LEMMA PlacesCount ==
    ASSUME NEW n \in Nat, NEW T \in SUBSET (1 .. n), NEW len \in Nat,
           NEW from \in [1 .. len -> T],
           \A i, j \in 1 .. len : i < j => from[i] < from[j],
           \A t \in T : \E i \in 1 .. len : from[i] = t,
           NEW p \in 1 .. len
    PROVE  NumberUpTo(T, from[p]) = p
<1> DEFINE A == 1 .. p
           B == {j \in 1 .. from[p] : j \in T}
           h == [i \in A |-> from[i]]
<1>1. \A i \in 1 .. len : from[i] \in 1 .. n /\ from[i] \in T
  OBVIOUS
<1>2. \A i, j \in 1 .. len : i <= j <=> from[i] <= from[j]
  <2> SUFFICES ASSUME NEW i \in 1 .. len, NEW j \in 1 .. len
               PROVE  i <= j <=> from[i] <= from[j]
    OBVIOUS
  <2>1. from[i] \in Int /\ from[j] \in Int
    BY <1>1
  <2>2. i < j \/ i = j \/ j < i
    OBVIOUS
  <2>3. (i < j => from[i] < from[j]) /\ (j < i => from[j] < from[i])
    OBVIOUS
  <2> DEFINE a == from[i]
             b == from[j]
  <2> HIDE DEF a, b
  <2>4. a \in Int /\ b \in Int /\ (i < j => a < b) /\ (j < i => b < a)
        /\ (i = j => a = b)
    BY <2>1, <2>3 DEF a, b
  <2>5. i <= j <=> a <= b
    BY <2>2, <2>4
  <2> QED
    BY <2>5 DEF a, b
<1>3. h \in [A -> B]
  <2> SUFFICES ASSUME NEW i \in A PROVE from[i] \in B
    OBVIOUS
  <2>1. i \in 1 .. len /\ i <= p
    OBVIOUS
  <2>2. from[i] <= from[p] /\ from[i] \in 1 .. n /\ from[i] \in T
        /\ from[p] \in 1 .. n
    BY <1>1, <1>2, <2>1
  <2> QED
    BY <2>2
<1>4. \A i, j \in A : h[i] = h[j] => i = j
  <2> SUFFICES ASSUME NEW i \in A, NEW j \in A, from[i] = from[j]
               PROVE  i = j
    OBVIOUS
  <2>1. i \in 1 .. len /\ j \in 1 .. len /\ from[i] \in Int
    BY <1>1
  <2>2. i <= j /\ j <= i
    <3>1. from[i] <= from[j] /\ from[j] <= from[i]
      BY <2>1
    <3> QED
      BY <1>2, <2>1, <3>1
  <2> QED
    BY <2>1, <2>2
<1>5. \A t \in B : \E i \in A : h[i] = t
  <2> SUFFICES ASSUME NEW t \in B PROVE \E i \in A : from[i] = t
    OBVIOUS
  <2>1. PICK i \in 1 .. len : from[i] = t
    OBVIOUS
  <2>2. from[i] <= from[p]
    BY <1>1, <2>1
  <2>3. i <= p
    BY <1>2, <2>2
  <2> QED
    BY <2>1, <2>3
<1>6. IsFiniteSet(A) /\ Cardinality(A) = p
  BY FS_Interval
<1> HIDE DEF A, B, h
<1>7. h \in Bijection(A, B)
  BY <1>3, <1>4, <1>5 DEF Bijection, Injection, Surjection, IsInjective
<1>8. Cardinality(A) = Cardinality(B)
  BY <1>6, <1>7, FS_Bijection DEF ExistsBijection
<1> QED
  BY <1>6, <1>8 DEF B, NumberUpTo

\* What the loop of Link.MergeTags leaves of a list of distinct names.
LEMMA LoopLeaves ==
    ASSUME NEW list, SoundTags(list), IsDistinct(list), list # <<>>, NEW names
    PROVE  LET n == Len(list)
               r == Drops(list, names, SubSeq(list, 1, n - 1))
           IN  /\ n \in Nat \ {0} /\ r \in Seq(Tags)
               /\ \E g : Picks(g, r, list, Left(list, names, n - 1))
<1> DEFINE n == Len(list)
           q == SubSeq(list, 1, n - 1)
<1>1. list \in Seq(Tags) /\ list \in SoundLists
  BY DEF SoundTags, SoundLists
<1>2. /\ n \in Nat \ {0} /\ DOMAIN list = 1 .. n
      /\ \A i \in 1 .. n : list[i] \in Tags
  BY <1>1, TagListShape, EmptySeq
<1>3. /\ q \in Seq(Tags) /\ Len(q) = n - 1
      /\ \A i \in 1 .. (n - 1) : q[i] = list[i]
  <2>1. \A i \in 1 .. (n - 1) : list[i] \in Tags
    BY <1>2
  <2>2. 1 \in Int /\ n - 1 \in Int
    BY <1>2
  <2>3. /\ q \in Seq(Tags)
        /\ Len(q) = IF 1 <= n - 1 THEN (n - 1) - 1 + 1 ELSE 0
        /\ \A i \in 1 .. (n - 1) - 1 + 1 : q[i] = list[1 + i - 1]
    BY <2>1, <2>2, SubSeqProperties
  <2> HIDE DEF q, n
  <2>4. \A i \in 1 .. (n - 1) : 1 + i - 1 = i /\ i \in 1 .. (n - 1) - 1 + 1
    BY <1>2
  <2> QED
    BY <1>2, <2>3, <2>4
<1> HIDE DEF q
<1>4. PICK f : Dropped(f, list, names, q)
  BY <1>1, <1>3, CandidatesDrop
<1>5. /\ f[0] = list /\ f[n - 1] = Drops(list, names, q)
      /\ \A k \in 0 .. (n - 1) : f[k] \in Seq(Tags)
      /\ \A k \in 1 .. (n - 1) : f[k] = AfterDrop(f[k - 1], list[k], names)
  BY <1>3, <1>4 DEF Dropped, Indices, SoundLists
<1> DEFINE Good == {k \in 0 .. (n - 1) :
                       \E g : Picks(g, f[k], list, Left(list, names, k))}
<1>6. 0 \in Good
  <2> DEFINE g == [i \in 1 .. n |-> i]
  <2>1. Left(list, names, 0) = 1 .. n
    BY <1>2 DEF Left
  <2>2. Picks(g, list, list, 1 .. n)
    BY <1>2 DEF Picks
  <2> HIDE DEF g
  <2>3. 0 \in 0 .. (n - 1)
    BY <1>2
  <2> QED
    BY <1>5, <2>1, <2>2, <2>3
<1>7. ASSUME NEW k \in 1 .. (n - 1), k - 1 \in Good PROVE k \in Good
  <2>1. PICK g : Picks(g, f[k - 1], list, Left(list, names, k - 1))
    BY <1>7
  <2>2. /\ k \in 1 .. n /\ k - 1 \in 0 .. (n - 1) /\ k \in 0 .. (n - 1)
    BY <1>2
  <2>3. f[k - 1] \in Seq(Tags) /\ f[k] = AfterDrop(f[k - 1], list[k], names)
    BY <1>5, <2>2
  <2>4. \E h : Picks(h, f[k], list, Left(list, names, k))
    <3> HIDE DEF n
    <3>1. k \in 1 .. Len(list)
      BY <2>2 DEF n
    <3> QED
      BY <1>1, <2>1, <2>3, <3>1, LookedAt
  <2> QED
    BY <2>2, <2>4
<1>8. n - 1 \in Good
  <2> HIDE DEF Good, n
  <2>1. n - 1 \in Nat
    BY <1>2
  <2>2. 0 .. (n - 1) \subseteq Good
    BY <1>6, <1>7, <2>1, UpToInduction
  <2> QED
    BY <2>1, <2>2
<1>9. n - 1 \in 0 .. (n - 1)
  BY <1>2
<1> QED
  BY <1>2, <1>5, <1>8, <1>9 DEF q

\* What is added stands behind what was there.
LEMMA AddedBehind ==
    ASSUME NEW list \in Seq(Tags), NEW names \in Seq(Names)
    PROVE  LET new == Add(list, names)
           IN  /\ new \in Seq(Tags) /\ Len(list) <= Len(new)
               /\ \A i \in 1 .. Len(list) : /\ new[i].name = list[i].name
                                            /\ new[i].count = list[i].count
               /\ NamesOf(new) = NamesOf(list) \union ToSet(names)
<1> DEFINE n == Len(names)
           len == Len(list)
           new == Add(list, names)
<1>1. PICK f : Added(f, list, names)
  BY NamesAreAdded
<1>2. /\ n \in Nat /\ Indices(n) = 1 .. n /\ DOMAIN names = 1 .. n
      /\ \A k \in 1 .. n : names[k] \in Names
      /\ len \in Nat /\ DOMAIN list = 1 .. len
  BY IndicesOfSeq, LenProperties DEF Indices
<1>3. /\ f[0] = list /\ f[n] = FoldLeft(AddTag, list, names)
      /\ \A k \in 0 .. n : f[k] \in Seq(Tags)
      /\ \A k \in 1 .. n : f[k] = AddTag(f[k - 1], names[k])
  BY <1>1, <1>2 DEF Added
<1> HIDE DEF n, len
<1> DEFINE Fine == {k \in 0 .. n :
               /\ len <= Len(f[k]) /\ \A i \in 1 .. len : f[k][i] = list[i]
               /\ NamesOf(f[k]) = NamesOf(list) \union {names[i] : i \in 1 .. k}}
<1>4. 0 \in Fine
  <2>1. {names[i] : i \in 1 .. 0} = {} /\ 0 \in 0 .. n
    BY <1>2
  <2> QED
    BY <1>2, <1>3, <2>1 DEF len
<1>5. ASSUME NEW k \in 1 .. n, k - 1 \in Fine PROVE k \in Fine
  <2> DEFINE old == f[k - 1]
             name == names[k]
             r == f[k]
  <2>1. /\ k \in 0 .. n /\ k - 1 \in 0 .. n
        /\ {names[i] : i \in 1 .. k}
               = {names[i] : i \in 1 .. (k - 1)} \union {name}
    <3>1. 1 .. k = (1 .. (k - 1)) \union {k}
      BY <1>2
    <3> QED
      BY <1>2, <3>1
  <2>2. old \in Seq(Tags) /\ r \in Seq(Tags) /\ name \in Names
        /\ r = AddTag(old, name)
    BY <1>2, <1>3, <2>1
  <2>3. /\ len <= Len(old) /\ \A i \in 1 .. len : old[i] = list[i]
        /\ NamesOf(old) = NamesOf(list) \union {names[i] : i \in 1 .. (k - 1)}
    BY <1>5
  <2> HIDE DEF old, name, r
  <2>4. Len(old) \in Nat /\ DOMAIN old = 1 .. Len(old)
        /\ Len(r) \in Nat /\ DOMAIN r = 1 .. Len(r)
    BY <2>2, TagListShape
  <2>5. /\ len <= Len(r) /\ \A i \in 1 .. len : r[i] = list[i]
        /\ NamesOf(r) = NamesOf(old) \union {name}
    <3>1. CASE name \in NamesOf(old)
      BY <2>2, <2>3, <3>1 DEF AddTag
    <3>2. CASE name \notin NamesOf(old)
      <4>1. /\ Len(r) = Len(old) + 1
            /\ \A i \in 1 .. Len(old) : r[i] = old[i]
            /\ r[Len(old) + 1].name = name
        BY <2>2, <3>2, AddTagAt
      <4>2. NamesOf(r) = NamesOf(old) \union {name}
        <5>1. 1 .. Len(r) = (1 .. Len(old)) \union {Len(old) + 1}
          BY <2>4, <4>1
        <5> QED
          BY <2>4, <4>1, <5>1 DEF NamesOf
      <4>3. len <= Len(r)
        BY <1>2, <2>3, <2>4, <4>1
      <4>4. \A i \in 1 .. len : r[i] = list[i]
        BY <1>2, <2>3, <2>4, <4>1
      <4> QED
        BY <4>2, <4>3, <4>4
    <3> QED
      BY <3>1, <3>2
  <2>6. NamesOf(r) = NamesOf(list) \union {names[i] : i \in 1 .. k}
    BY <2>1, <2>3, <2>5
  <2> QED
    BY <2>1, <2>5, <2>6 DEF r
<1>6. n \in Fine
  <2> HIDE DEF Fine
  <2>1. n \in Nat
    BY <1>2
  <2>2. 0 .. n \subseteq Fine
    BY <1>4, <1>5, <2>1, UpToInduction
  <2> QED
    BY <2>1, <2>2
<1> DEFINE p == f[n]
<1>7. /\ p \in Seq(Tags) /\ len <= Len(p) /\ \A i \in 1 .. len : p[i] = list[i]
      /\ NamesOf(p) = NamesOf(list) \union ToSet(names)
  <2>1. n \in 0 .. n
    BY <1>2
  <2> QED
    BY <1>2, <1>3, <1>6, <2>1 DEF ToSet
<1>8. new = IF names = <<>> THEN list ELSE RecalculateWeights(p)
  BY <1>3 DEF Add
<1> HIDE DEF p, new
<1>9. CASE names = <<>>
  <2>1. ToSet(names) = {}
    BY <1>2, <1>9 DEF ToSet
  <2> QED
    BY <1>2, <1>8, <1>9, <2>1 DEF new, len
<1>10. CASE names # <<>>
  <2>1. /\ new \in Seq(Tags) /\ Len(new) = Len(p)
        /\ \A i \in 1 .. Len(p) : /\ new[i].name = p[i].name
                                  /\ new[i].count = p[i].count
    BY <1>7, <1>8, <1>10, WeighedIs
  <2>2. /\ DOMAIN new = 1 .. Len(p) /\ DOMAIN p = 1 .. Len(p)
        /\ Len(p) \in Nat
    BY <1>7, <2>1, TagListShape
  <2>3. NamesOf(new) = NamesOf(p)
    BY <2>1, <2>2 DEF NamesOf
  <2>4. \A i \in 1 .. len : /\ new[i].name = list[i].name
                            /\ new[i].count = list[i].count
    BY <1>2, <1>7, <2>1, <2>2
  <2> QED
    BY <1>7, <2>1, <2>3, <2>4 DEF new, len
<1> QED
  BY <1>9, <1>10

LEMMA MergeIsKept ==
    ASSUME NEW list, SoundTags(list), IsDistinct(list), list # <<>>,
           NEW names \in Seq(Names)
    PROVE  MergeKeeps(list, MergeTags(list, names), names)
<1> DEFINE n == Len(list)
           r == Drops(list, names, SubSeq(list, 1, n - 1))
           new == MergeTags(list, names)
           T == Left(list, names, n - 1)
           kept == ToSet(names) \union {list[n].name}
           Place(i) == Cardinality({j \in 1 .. i : list[j].name \in kept})
<1>1. /\ list \in Seq(Tags) /\ DOMAIN list = 1 .. n
      /\ n \in Nat \ {0} /\ r \in Seq(Tags)
  BY LoopLeaves, TagListShape DEF SoundTags
<1>2. PICK g : Picks(g, r, list, T)
  BY LoopLeaves
<1>3. T = {i \in 1 .. n : list[i].name \in kept}
  <2>1. /\ \A i \in 1 .. n : i > n - 1 <=> i = n
        /\ n \in 1 .. n
    <3> HIDE DEF n
    <3> QED
      BY <1>1
  <2>2. \A i \in 1 .. n : list[i].name = list[n].name => i = n
    <3> HIDE DEF n
    <3> QED
      BY <1>1, <2>1 DEF IsDistinct
  <2>3. T = {i \in 1 .. n : i > n - 1 \/ list[i].name \in ToSet(names)}
    BY DEF Left
  <2> HIDE DEF n, T
  <2> QED
    BY <2>1, <2>2, <2>3
<1>4. new = Add(r, names)
  BY MergeIs
<1> HIDE DEF r, new, n
<1>5. /\ new \in Seq(Tags) /\ Len(r) <= Len(new)
      /\ \A i \in 1 .. Len(r) : new[i].name = r[i].name
      /\ NamesOf(new) = NamesOf(r) \union ToSet(names)
  BY <1>1, <1>4, AddedBehind
<1>6. /\ Len(r) \in Nat /\ DOMAIN r = 1 .. Len(r)
      /\ Len(new) \in Nat /\ DOMAIN new = 1 .. Len(new)
  BY <1>1, <1>5, TagListShape
<1> HIDE DEF T
<1>7. /\ g \in [1 .. Len(r) -> T]
      /\ \A i, j \in 1 .. Len(r) : i < j => g[i] < g[j]
      /\ \A t \in T : \E i \in 1 .. Len(r) : g[i] = t
      /\ \A i \in 1 .. Len(r) : r[i].name = list[g[i]].name
  BY <1>2 DEF Picks
<1>8. T \subseteq 1 .. n
  BY <1>3
<1>9. ASSUME NEW i \in 1 .. n, list[i].name \in kept
      PROVE  /\ Place(i) \in 1 .. Len(r)
             /\ r[Place(i)].name = list[i].name
  <2>1. i \in T
    BY <1>3, <1>9
  <2>2. PICK p \in 1 .. Len(r) : g[p] = i
    BY <1>7, <2>1
  <2>3. NumberUpTo(T, g[p]) = p
    <3> DEFINE len == Len(r)
    <3> HIDE DEF len
    <3>1. /\ n \in Nat /\ T \in SUBSET (1 .. n) /\ len \in Nat
          /\ g \in [1 .. len -> T] /\ p \in 1 .. len
          /\ \A i_1, j \in 1 .. len : i_1 < j => g[i_1] < g[j]
          /\ \A t \in T : \E i_1 \in 1 .. len : g[i_1] = t
      BY <1>1, <1>6, <1>7, <1>8 DEF len
    <3> QED
      BY <3>1, PlacesCount
  <2>4. {j \in 1 .. i : j \in T} = {j \in 1 .. i : list[j].name \in kept}
    BY <1>1, <1>3
  <2>5. Place(i) = p
    BY <2>2, <2>3, <2>4 DEF NumberUpTo
  <2> HIDE DEF Place
  <2> QED
    BY <1>7, <2>2, <2>5
<1>10. \A i \in DOMAIN list : list[i].name \in kept =>
          /\ Place(i) \in DOMAIN new
          /\ new[Place(i)].name = list[i].name
  <2> SUFFICES ASSUME NEW i \in 1 .. n, list[i].name \in kept
               PROVE  /\ Place(i) \in DOMAIN new
                      /\ new[Place(i)].name = list[i].name
    BY <1>1
  <2> HIDE DEF Place, kept
  <2> QED
    BY <1>5, <1>6, <1>9
<1>11. NamesOf(r) = {list[t].name : t \in T}
  <2>1. \A i \in 1 .. Len(r) : g[i] \in T /\ r[i].name = list[g[i]].name
    BY <1>7
  <2>2. NamesOf(r) = {r[i].name : i \in 1 .. Len(r)}
    BY <1>6 DEF NamesOf
  <2>3. \A t \in T : list[t].name \in NamesOf(r)
    BY <1>7, <2>1, <2>2
  <2> QED
    BY <2>1, <2>2, <2>3
<1>12. n \in T
  BY <1>1, <1>3
<1>13. NamesOf(new) = kept
  BY <1>3, <1>5, <1>11, <1>12
<1> HIDE DEF Place
<1> QED
  BY <1>10, <1>13 DEF MergeKeeps, n, new, kept, Place

LEMMA StepsKeep ==
    TagsInv /\ [TagsNext]_tags =>
        [\A names \in NameLists :
            Merge(names) /\ IsDistinct(tags) /\ tags # <<>> =>
                MergeKeeps(tags, tags', names)]_tags
BY NameListsAreLists, MergeIsKept DEF TagsInv, Merge

\* However long a list of distinct names is and whatever is merged into it, the
\* merge keeps the tags it names and the last one, in the order they had.
THEOREM MergeKeepsTags == TagsSpec => MergeKeepsNamedAndLast
BY TagsInvariant, StepsKeep, PTL
DEF TagsSpec, MergeKeepsNamedAndLast
=============================================================================
