---------------------------- MODULE LinkRequests ----------------------------
(***************************************************************************)
(* The commands of the Links module and what the handler of each makes of  *)
(* the link it has loaded.  A document holds a duplicate-free tag list     *)
(* that Link.Map sorts, and a handler merges once per load, so here the    *)
(* tags of a link are the set of their names: LinkTagCollection shows that *)
(* the merged list names exactly MergeNames.                               *)
(***************************************************************************)
EXTENDS Link, Naturals, Sequences

CONSTANTS
    Links,      \* link ids
    Names,      \* tag names, ordered; none has a '/'
    Ops,        \* the kinds of command that clients send
    MaxBatch    \* bound: the links one DeleteLinksCommand names

AllOps ==
    {"Edit", "Delete", "UnDelete", "SetActive", "SetFlagged", "DeleteLinks"}

ASSUME RequestsAssumption ==
    /\ Names \subseteq Nat
    /\ Ops \subseteq AllOps
    /\ MaxBatch \in Nat

\* The merge keeps the last of the sorted existing tags, named or not.
MergeNames(existing, new) ==
    new \union {last \in existing : \A name \in existing : name <= last}

Documents == LinkStates(SUBSET Names)

\* The commands on the links of a set.  Each names the links it is about.
Batches(targets) ==
    UNION {[1..n -> targets] : n \in 1..MaxBatch}

Commands(targets) ==
    LET one == [1..1 -> targets]
    IN  {command \in
            [op : {"Edit"}, ids : one, user : Users,
             title : Titles, names : SUBSET Names]
            \union [op : {"Delete", "UnDelete"}, ids : one, user : Users]
            \union [op : {"SetActive", "SetFlagged"}, ids : one,
                    user : Users, flag : BOOLEAN]
            \union [op : {"DeleteLinks"}, ids : Batches(targets), user : Users]
         : command.op \in Ops}

Perform(command, link) ==
    LET user == command.user
    IN  CASE command.op = "Edit" ->
                Edited(link, user, command.title,
                       MergeNames(link.tags, command.names))
          [] command.op \in {"Delete", "DeleteLinks"} -> Deleted(link, user)
          [] command.op = "UnDelete" -> UnDeleted(link, user)
          [] command.op = "SetActive" ->
                WithActiveState(link, user, command.flag)
          [] command.op = "SetFlagged" ->
                WithFlaggedState(link, user, command.flag)
=============================================================================
