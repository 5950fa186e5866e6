--------------------------- MODULE LinkAggregate ---------------------------
(***************************************************************************)
(* One Link object in memory under any sequence of calls of its methods,   *)
(* with its counts and the domain events it collects.  SaveAndLoad is what *)
(* happens to it between two requests: UpdateLinkAsync writes it, the      *)
(* events are dropped with the object (DispatchDomainEventsAsync is called *)
(* from nowhere), Link.Map builds it again with its tags sorted.           *)
(***************************************************************************)
EXTENDS Link, LinkTags, FiniteSets

CONSTANTS
    MaxBatch,   \* bound: the tag names one call passes
    MaxSaves,   \* bound: the counts SetLikesCount and SetSavesCount are given
    MaxEvents   \* bound: events collected before the object is saved

VARIABLES
    link,       \* the Link: the fields of module Link
    counts,     \* its SavesCount and LikesCount
    events      \* Entity.DomainEvents

vars == <<link, counts, events>>

Counters == {"Saves", "Likes"}

Batches == SeqOf(Names, MaxBatch)

Init ==
    /\ \E title \in Titles, names \in Batches :
          link = NewLink(title, Collection(Add(<<>>, names)))
    /\ counts = [counter \in Counters |-> 0]
    /\ events = <<>>

-----------------------------------------------------------------------------

DeleteLink(user) ==
    /\ link' = Deleted(link, user)
    /\ UNCHANGED <<counts, events>>

UnDelete(user) ==
    /\ link' = UnDeleted(link, user)
    /\ UNCHANGED <<counts, events>>

Edit(user, title, names) ==
    /\ link' = Edited(link, user, title, MergeTags(link.tags, names))
    /\ UNCHANGED <<counts, events>>

UpdateTags(names) ==
    /\ names # <<>>
    /\ link' = WithTags(link, MergeTags(link.tags, names))
    /\ UNCHANGED <<counts, events>>

SetFlaggedState(user, isFlagged) ==
    /\ link' = WithFlaggedState(link, user, isFlagged)
    /\ UNCHANGED <<counts, events>>

\* The event says TRUE whatever the new state is.
SetActiveState(user, isActive) ==
    /\ ~link.isDeleted
    /\ link' = WithActiveState(link, user, isActive)
    /\ events' = Append(events, [kind |-> "Active", newStatus |-> TRUE])
    /\ UNCHANGED counts

\* Mutant: the old value is read after the new one is set.
SetCountOldLost(counter, user, count) ==
    /\ ~link.isDeleted
    /\ link' = [link EXCEPT !.updatedBy = user]
    /\ counts' = [counts EXCEPT ![counter] = count]
    /\ events' = Append(events, [kind |-> counter,
                                 old |-> count, new |-> count])

\* SetLikesCount and SetSavesCount.
SetCount(counter, user, count) ==
    /\ ~link.isDeleted
    /\ link' = [link EXCEPT !.updatedBy = user]
    /\ counts' = [counts EXCEPT ![counter] = count]
    /\ events' = Append(events, [kind |-> counter,
                                 old |-> counts[counter], new |-> count])

SaveAndLoad ==
    /\ link' = WithTags(link, MapTags(ToEntities(link.tags)))
    /\ events' = <<>>
    /\ UNCHANGED counts

Next ==
    /\ \/ \E user \in Users :
             \/ DeleteLink(user) \/ UnDelete(user)
             \/ \E title \in Titles, names \in Batches :
                   Edit(user, title, names)
             \/ \E flag \in BOOLEAN :
                   SetActiveState(user, flag) \/ SetFlaggedState(user, flag)
             \/ \E counter \in Counters, count \in 0..MaxSaves :
                   SetCount(counter, user, count)
       \/ \E names \in Batches : UpdateTags(names)
       \/ SaveAndLoad
    /\ Len(events') <= MaxEvents

Spec == Init /\ [][Next]_vars

-----------------------------------------------------------------------------

\* DeletedById, DateDeleted and IsDeleted never disagree, and a deleted link is
\* neither active nor last updated by anyone but its deleter, whatever the
\* order of calls.  (The !IsDeleted guards of Link's methods.)
DeletionFieldsAgree == DeletionConsistent(link)

\* The events a Link has collected tell the history of its counts: each one
\* starts from the value the previous one of its kind ended with, and the last
\* one ends with the current value.  (oldValue of Link.SetLikesCount and
\* SetSavesCount.)
EventsTellHistory ==
    \A counter \in Counters :
        LET told == {i \in 1 .. Len(events) : events[i].kind = counter}
        IN  /\ \A i, j \in told :
                  i < j /\ (\A k \in told : k <= i \/ j <= k) =>
                      events[i].new = events[j].old
            /\ \A i \in told :
                  (\A k \in told : k <= i) => events[i].new = counts[counter]

\* Until UnDelete, calls on a deleted link change nothing but its tags: not its
\* title, flags, counts or update info, and no event tells of a change.
\* (Link.UpdateTags and the save, which sorts tags, are the exceptions.)
DeletedLinkFrozen ==
    [][link.isDeleted /\ link'.isDeleted =>
          /\ link' = [link EXCEPT !.tags = link'.tags]
          /\ counts' = counts
          /\ events' \in {events, <<>>}]_vars
=============================================================================
