---------------------------- MODULE LinkCommands ----------------------------
(***************************************************************************)
(* The command handlers of the Links module running concurrently against   *)
(* the links collection.  A handler loads the link (GetLinkByIdAsync),     *)
(* changes the object in memory, and has UpdateLinkAsync read the document *)
(* again, copy every field of the object over it and replace it.  Nothing  *)
(* relates the three: no version is compared and no lock is held.          *)
(*                                                                         *)
(* An action is one answer of the store and what the handler does until    *)
(* its next await.                                                         *)
(***************************************************************************)
EXTENDS LinkRequests

CONSTANTS
    Requests,   \* the requests the web server handles at a time
    Targets,    \* Targets[r]: the links the commands of request r are about
    NoLink,     \* no document; no object in memory
    NoCommand

ASSUME TargetsAssumption == Targets \in [Requests -> SUBSET Links]
ASSUME NoLinkAssumption == NoLink \notin Documents

VARIABLES
    store,      \* the links collection: id -> document or NoLink
    pc,         \* pc[r]: the await request r is at, or "idle"
    command,    \* command[r]: the command it handles
    ids,        \* ids[r]: the links it still has to do, the current one first
    copy,       \* copy[r]: the Link object it has loaded and changed
    deletedIds, \* deletedIds[r]: the ids DeleteLinks has collected
    reply       \* reply[r]: its last answer

request == <<pc, command, ids, copy, deletedIds, reply>>
vars == <<store, request>>

Answer(status, reported) == [status |-> status, ids |-> reported]

Init ==
    /\ store \in [Links -> {NoLink} \union
                           {NewLink(title, names) : title \in Titles,
                                                    names \in SUBSET Names}]
    /\ pc = [r \in Requests |-> "idle"]
    /\ command = [r \in Requests |-> NoCommand]
    /\ ids = [r \in Requests |-> <<>>]
    /\ copy = [r \in Requests |-> NoLink]
    /\ deletedIds = [r \in Requests |-> <<>>]
    /\ reply = [r \in Requests |-> Answer("none", <<>>)]

-----------------------------------------------------------------------------
(* The steps of a handler                                                  *)

Finish(r, status, reported) ==
    /\ pc' = [pc EXCEPT ![r] = "idle"]
    /\ command' = [command EXCEPT ![r] = NoCommand]
    /\ ids' = [ids EXCEPT ![r] = <<>>]
    /\ copy' = [copy EXCEPT ![r] = NoLink]
    /\ deletedIds' = [deletedIds EXCEPT ![r] = <<>>]
    /\ reply' = [reply EXCEPT ![r] = Answer(status, reported)]

\* Mutant: one round more than there are links.
NextLinkTooFar(r, reported) ==
    IF Len(ids[r]) >= 1
    THEN /\ pc' = [pc EXCEPT ![r] = "get"]
         /\ ids' = [ids EXCEPT ![r] = Tail(@)]
         /\ copy' = [copy EXCEPT ![r] = NoLink]
         /\ deletedIds' = [deletedIds EXCEPT ![r] = reported]
         /\ UNCHANGED <<command, reply>>
    ELSE Finish(r, IF reported = <<>> THEN "fail" ELSE "ok", reported)

\* Mutant: the next link is not loaded.
NextLinkSameObject(r, reported) ==
    IF Len(ids[r]) > 1
    THEN /\ pc' = [pc EXCEPT ![r] = "reread"]
         /\ ids' = [ids EXCEPT ![r] = Tail(@)]
         /\ deletedIds' = [deletedIds EXCEPT ![r] = reported]
         /\ UNCHANGED <<command, copy, reply>>
    ELSE Finish(r, IF reported = <<>> THEN "fail" ELSE "ok", reported)

\* The end of the loop body of DeleteLinks.
NextLink(r, reported) ==
    IF Len(ids[r]) > 1
    THEN /\ pc' = [pc EXCEPT ![r] = "get"]
         /\ ids' = [ids EXCEPT ![r] = Tail(@)]
         /\ copy' = [copy EXCEPT ![r] = NoLink]
         /\ deletedIds' = [deletedIds EXCEPT ![r] = reported]
         /\ UNCHANGED <<command, reply>>
    ELSE Finish(r, IF reported = <<>> THEN "fail" ELSE "ok", reported)

\* Mutant: a link that is missing is waited for.
NotLoadedWaits(r) ==
    IF command[r].op = "DeleteLinks"
    THEN UNCHANGED request
    ELSE Finish(r, "fail", <<>>)

\* What the handler does with a link that could not be loaded.
NotLoaded(r) ==
    IF command[r].op = "DeleteLinks"
    THEN NextLink(r, deletedIds[r])
    ELSE Finish(r, "fail", <<>>)

\* Mutant: no handler looks at the result.
UpdatedUnchecked(r, isSuccess) ==
    IF command[r].op = "DeleteLinks"
    THEN NextLink(r, Append(deletedIds[r], Head(ids[r])))
    ELSE Finish(r, "ok", <<>>)

\* What it does with the result of UpdateLinkAsync: Delete, UnDelete and Edit
\* do not look at it.
Updated(r, isSuccess) ==
    IF command[r].op = "DeleteLinks"
    THEN NextLink(r, IF isSuccess THEN Append(deletedIds[r], Head(ids[r]))
                                  ELSE deletedIds[r])
    ELSE Finish(r,
                IF isSuccess \/ command[r].op \in {"Delete", "UnDelete", "Edit"}
                THEN "ok" ELSE "fail",
                <<>>)

Begin(r) ==
    /\ pc[r] = "idle"
    /\ \E c \in Commands(Targets[r]) :
          /\ command' = [command EXCEPT ![r] = c]
          /\ ids' = [ids EXCEPT ![r] = c.ids]
    /\ pc' = [pc EXCEPT ![r] = "get"]
    /\ reply' = [reply EXCEPT ![r] = Answer("none", <<>>)]
    /\ UNCHANGED <<store, copy, deletedIds>>

\* A command without a link id, a user or a title is refused at once.
Refuse(r) ==
    /\ pc[r] = "idle"
    /\ Finish(r, "fail", <<>>)
    /\ UNCHANGED store

GetLink(r) ==
    /\ pc[r] = "get"
    /\ LET document == store[Head(ids[r])]
       IN  IF document = NoLink
           THEN NotLoaded(r)
           ELSE /\ copy' = [copy EXCEPT ![r] = Perform(command[r], document)]
                /\ pc' = [pc EXCEPT ![r] = "reread"]
                /\ UNCHANGED <<command, ids, deletedIds, reply>>
    /\ UNCHANGED store

\* The GetAsync of UpdateLinkAsync.
Reread(r) ==
    /\ pc[r] = "reread"
    /\ IF store[Head(ids[r])] = NoLink
       THEN Updated(r, FALSE)
       ELSE /\ pc' = [pc EXCEPT ![r] = "replace"]
            /\ UNCHANGED <<command, ids, copy, deletedIds, reply>>
    /\ UNCHANGED store

\* Mutant: IsDeleted is not copied over.
WriteKeepingDeleted(r) ==
    LET document == store[Head(ids[r])]
    IN  store' = [store EXCEPT ![Head(ids[r])] =
                     IF @ = NoLink
                     THEN NoLink
                     ELSE [copy[r] EXCEPT !.isDeleted = document.isDeleted]]

\* Mutant: the replacement upserts.
WriteUpserting(r) ==
    store' = [store EXCEPT ![Head(ids[r])] = copy[r]]

Write(r) ==
    store' = [store EXCEPT ![Head(ids[r])] =
                 IF @ = NoLink THEN NoLink ELSE copy[r]]

\* ReplaceOne: nothing matches a removed document.  ModifiedCount is 0 too when
\* the document was the same before, DateUpdated to the millisecond included.
Replace(r) ==
    /\ pc[r] = "replace"
    /\ Write(r)
    /\ LET document == store[Head(ids[r])]
       IN  \/ document # NoLink /\ Updated(r, TRUE)
           \/ document \in {NoLink, copy[r]} /\ Updated(r, FALSE)

Step(r) == GetLink(r) \/ Reread(r) \/ Replace(r)

\* An exception out of the await: the store cannot be reached, the client has
\* gone and the token is cancelled, a tag name of an edit is blank.  The answer
\* to a replacement that took place may be lost too.
Fault(r) ==
    /\ pc[r] # "idle"
    /\ Finish(r, "error", <<>>)
    /\ UNCHANGED store \/ (pc[r] = "replace" /\ Write(r))

\* A document is removed from the collection, past the handlers.
Remove(id) ==
    /\ store' = [store EXCEPT ![id] = NoLink]
    /\ UNCHANGED request

Next ==
    \/ \E r \in Requests : Begin(r) \/ Refuse(r) \/ Step(r) \/ Fault(r)
    \/ \E id \in Links : Remove(id)

Spec == Init /\ [][Next]_vars

\* A handler that waits for the store gets its answer and goes on.
FairSpec == Spec /\ \A r \in Requests : WF_vars(Step(r))

-----------------------------------------------------------------------------

StoreOK == store \in [Links -> Documents \union {NoLink}]

RequestsOK ==
    /\ pc \in [Requests -> {"idle", "get", "reread", "replace"}]
    /\ command \in [Requests -> Commands(Links) \union {NoCommand}]
    /\ ids \in [Requests -> Seq(Links)]
    /\ copy \in [Requests -> Documents \union {NoLink}]
    /\ deletedIds \in [Requests -> Seq(Links)]
    /\ reply \in [Requests -> [status : {"none", "ok", "fail", "error"},
                               ids : Seq(Links)]]
    /\ \A r \in Requests :
          pc[r] # "idle" => /\ command[r] \in Commands(Targets[r])
                            /\ ids[r] \in Seq(Targets[r]) \ {<<>>}

\* A handler between two of its awaits has a command of its own request to
\* carry out and a link of that command still to do.
TypeOK == StoreOK /\ RequestsOK

\* However requests interleave, a stored document never mixes two versions:
\* IsDeleted, DeletedById, DateDeleted and IsActive belong together, and a
\* deleted link was last updated by its deleter.  (UpdateLinkAsync copies all
\* of them, from one object, in one ReplaceOne.)
StoredDeletionConsistent ==
    \A id \in Links : store[id] # NoLink => DeletionConsistent(store[id])

CopiesConsistent ==
    \A r \in Requests :
        /\ pc[r] \in {"reread", "replace"} => copy[r] # NoLink
        /\ copy[r] # NoLink => DeletionConsistent(copy[r])

\* A handler works through the ids of its command, one object at a time, and
\* DeleteLinks only ever carries objects it has marked.
InFlight ==
    \A r \in Requests :
        /\ pc[r] \in {"idle", "get"} => copy[r] = NoLink
        /\ pc[r] # "idle" =>
              \A i \in DOMAIN ids[r] :
                  \E j \in DOMAIN command[r].ids : ids[r][i] = command[r].ids[j]
        /\ copy[r] # NoLink /\ command[r].op = "DeleteLinks" =>
              copy[r].isDeleted

\* The strengthening of StoredDeletionConsistent that is inductive: the objects
\* in flight agree as well, and a handler about to write has one.
Inv == StoredDeletionConsistent /\ CopiesConsistent /\ InFlight

\* A handler that was under way when its document was removed does not bring
\* it back: ReplaceOne is no upsert.
RemovedStaysRemoved ==
    [][\A id \in Links : store[id] = NoLink => store'[id] = NoLink]_vars

\* The ids DeleteLinks has collected after a step of request r.
Collected(r) == IF pc'[r] = "idle" THEN reply'[r].ids ELSE deletedIds'[r]

\* In a step of request r it answers ok for a link or, DeleteLinks, counts the
\* link in.
Acknowledges(r) ==
    /\ pc[r] # "idle"
    /\ IF command[r].op = "DeleteLinks"
       THEN Len(Collected(r)) > Len(deletedIds[r])
       ELSE pc'[r] = "idle" /\ reply'[r].status = "ok"

\* Each id that DeleteLinks reports it collected in a step that left the
\* document deleted.  (DeleteLinksCommandHandler adds the ids UpdateLinkAsync
\* succeeded on, one in a round.)
ReportedAreDeleted ==
    [][\A r \in Requests :
          Acknowledges(r) /\ command[r].op = "DeleteLinks" =>
              /\ Collected(r) = Append(deletedIds[r], Head(ids[r]))
              /\ store'[Head(ids[r])] # NoLink
              /\ store'[Head(ids[r])].isDeleted]_vars

OkMeansWritten(ops) ==
    \A r \in Requests :
        Acknowledges(r) /\ command[r].op \in ops =>
            copy[r] # NoLink /\ store'[Head(ids[r])] = copy[r]

\* A handler that looks at the result of UpdateLinkAsync answers ok only in the
\* step that wrote what it answers for.
CheckedOkMeansWritten ==
    [][OkMeansWritten({"SetActive", "SetFlagged", "DeleteLinks"})]_vars

\* Every command is answered.
EveryCommandAnswered ==
    \A r \in Requests : pc[r] # "idle" ~> pc[r] = "idle"

\* Requests that are about different links do not disturb each other: seen
\* from the store each command is one atomic step on the link as it is.
Disjoint ==
    \A r, q \in Requests : r # q => Targets[r] \intersect Targets[q] = {}

Atomic == INSTANCE AtomicLinks WITH store <- store, NoLink <- NoLink

AtomicSpec == Atomic!Spec

\* Between requests that do not share a link a deleted document changes only by
\* being undeleted, by whom it then says, or by being removed: no edit, no
\* flag, no second deletion gets through.
DeletedFrozen == Atomic!DeletedFrozen

\* With disjoint targets an object in flight is what its command makes of the
\* document as it still is, unless that was removed.
CopiesCurrent ==
    \A r \in Requests :
        /\ pc[r] \in {"reread", "replace"}
        /\ store[Head(ids[r])] # NoLink
        => copy[r] = Perform(command[r], store[Head(ids[r])])

-----------------------------------------------------------------------------
(* What the documentation says, and the code does not do.                  *)

\* "If the Link is marked as IsDeleted, then the Edit method should not be
\* able to be called." (LinkTests.cs:340): an edit never changes a document
\* that is deleted.  One that loaded the link before the deletion does, and
\* brings the link back.
EditLeavesDeleted ==
    [][\A r \in Requests :
          LET document == store[Head(ids[r])]
          IN  pc[r] # "idle" /\ command[r].op = "Edit"
              /\ document # NoLink /\ document.isDeleted
              /\ pc' # pc =>
                store'[Head(ids[r])] = document]_vars
=============================================================================
