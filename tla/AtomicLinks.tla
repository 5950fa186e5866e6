---------------------------- MODULE AtomicLinks ----------------------------
(***************************************************************************)
(* What the Links module promises its callers: every command acts on a     *)
(* link as it is at that moment, all of it or nothing of it.  DeleteLinks  *)
(* promises this link by link.                                             *)
(***************************************************************************)
EXTENDS LinkRequests

CONSTANT NoLink     \* no document has this id

VARIABLE store      \* the links collection: id -> document or NoLink

Init ==
    store \in [Links -> {NoLink} \union
                        {NewLink(title, names) : title \in Titles,
                                                 names \in SUBSET Names}]

Act(command, id) ==
    /\ store[id] # NoLink
    /\ store' = [store EXCEPT ![id] = Perform(command, @)]

Remove(id) == store' = [store EXCEPT ![id] = NoLink]

Next ==
    \E id \in Links :
        \/ Remove(id)
        \/ \E command \in Commands(Links) :
              /\ \E i \in DOMAIN command.ids : command.ids[i] = id
              /\ Act(command, id)

Spec == Init /\ [][Next]_store

-----------------------------------------------------------------------------

\* A deleted document changes only by being undeleted, by whom it then says,
\* or by being removed: no edit, no flag, no second deletion.
DeletedFrozen ==
    [][\A id \in Links :
          store[id] # NoLink /\ store[id].isDeleted =>
              \/ store'[id] \in {store[id], NoLink}
              \/ \E user \in Users : store'[id] = UnDeleted(store[id], user)
      ]_store
=============================================================================
