-------------------------------- MODULE Link --------------------------------
(***************************************************************************)
(* The Link aggregate: what each of its methods makes of the state of one  *)
(* link.  A method that changes nothing returns the link it was given.     *)
(*                                                                         *)
(* Title and description are set together and are one field here.  Dates   *)
(* are reduced to whether DateDeleted is set.  The tags are whatever the   *)
(* extending module makes of them: an operator that merges tags is given   *)
(* the merged ones.  SavesCount and LikesCount, which no command of the    *)
(* application changes, are kept by LinkAggregate.                         *)
(***************************************************************************)

CONSTANTS
    Users,      \* the users who act on links
    NoUser,     \* ObjectId.Empty
    Titles      \* titles (with their descriptions)

ASSUME NoUserAssumption == NoUser \notin Users

\* Link.New: active, not flagged, never updated, not deleted.
NewLink(title, tags) ==
    [title |-> title, tags |-> tags,
     isActive |-> TRUE, isFlagged |-> FALSE,
     updatedBy |-> NoUser,
     isDeleted |-> FALSE, deletedBy |-> NoUser, dateDeleted |-> FALSE]

LinkStates(TagLists) ==
    [title : Titles, tags : TagLists,
     isActive : BOOLEAN, isFlagged : BOOLEAN,
     updatedBy : Users \union {NoUser},
     isDeleted : BOOLEAN, deletedBy : Users \union {NoUser},
     dateDeleted : BOOLEAN]

-----------------------------------------------------------------------------

Deleted(link, user) ==
    IF link.isDeleted
    THEN link
    ELSE [link EXCEPT !.isDeleted = TRUE, !.deletedBy = user,
                      !.dateDeleted = TRUE, !.isActive = FALSE,
                      !.updatedBy = user]

\* Mutant: who deleted the link is not cleared.
UnDeletedByStays(link, user) ==
    IF link.isDeleted
    THEN [link EXCEPT !.isDeleted = FALSE, !.dateDeleted = FALSE,
                      !.updatedBy = user]
    ELSE link

\* The link stays inactive: UnDelete does not restore what Delete cleared.
UnDeleted(link, user) ==
    IF link.isDeleted
    THEN [link EXCEPT !.isDeleted = FALSE, !.deletedBy = NoUser,
                      !.dateDeleted = FALSE, !.updatedBy = user]
    ELSE link

Edited(link, user, title, mergedTags) ==
    IF link.isDeleted
    THEN link
    ELSE [link EXCEPT !.title = title, !.tags = mergedTags,
                      !.updatedBy = user]

\* Mutant: a deleted link can be activated.
WithActiveStateDeleted(link, user, isActive) ==
    [link EXCEPT !.isActive = isActive, !.updatedBy = user]

WithActiveState(link, user, isActive) ==
    IF link.isDeleted
    THEN link
    ELSE [link EXCEPT !.isActive = isActive, !.updatedBy = user]

\* Mutant: a deleted link can be flagged.
WithFlaggedStateDeleted(link, user, isFlagged) ==
    IF link.isFlagged = isFlagged
    THEN link
    ELSE [link EXCEPT !.isFlagged = isFlagged, !.updatedBy = user]

WithFlaggedState(link, user, isFlagged) ==
    IF link.isDeleted \/ link.isFlagged = isFlagged
    THEN link
    ELSE [link EXCEPT !.isFlagged = isFlagged, !.updatedBy = user]

\* UpdateTags: neither the deleted state nor the update info is looked at.
WithTags(link, mergedTags) == [link EXCEPT !.tags = mergedTags]

-----------------------------------------------------------------------------

\* The fields of a soft delete agree: IsDeleted, DeletedById and DateDeleted
\* say the same, a deleted link is inactive, and the last user to update a
\* deleted link is the one who deleted it.
DeletionConsistent(link) ==
    /\ link.isDeleted = (link.deletedBy # NoUser)
    /\ link.isDeleted = link.dateDeleted
    /\ link.isDeleted => ~link.isActive /\ link.updatedBy = link.deletedBy
=============================================================================
