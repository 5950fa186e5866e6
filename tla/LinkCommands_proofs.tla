------------------------ MODULE LinkCommands_proofs ------------------------
(***************************************************************************)
(* Theorems about LinkCommands, for every set of links, users, titles,     *)
(* tag names, kinds of commands and requests.                              *)
(***************************************************************************)
EXTENDS LinkCommands, TLAPS

-----------------------------------------------------------------------------
(* The commands and what they make of a document                           *)

\* What every command has, and what its kind adds.
LEMMA CommandFields ==
    ASSUME NEW targets, NEW c \in Commands(targets)
    PROVE  /\ c.op \in AllOps
           /\ c.user \in Users
           /\ c.op = "Edit" => c.title \in Titles /\ c.names \in SUBSET Names
           /\ c.op \in {"SetActive", "SetFlagged"} => c.flag \in BOOLEAN
<1> DEFINE one == [1..1 -> targets]
<1>1. CASE c \in [op : {"Edit"}, ids : one, user : Users,
                  title : Titles, names : SUBSET Names]
  BY <1>1 DEF AllOps
<1>2. CASE c \in [op : {"Delete", "UnDelete"}, ids : one, user : Users]
  BY <1>2 DEF AllOps
<1>3. CASE c \in [op : {"SetActive", "SetFlagged"}, ids : one,
                  user : Users, flag : BOOLEAN]
  BY <1>3 DEF AllOps
<1>4. CASE c \in [op : {"DeleteLinks"}, ids : Batches(targets), user : Users]
  BY <1>4 DEF AllOps
<1> QED
  BY <1>1, <1>2, <1>3, <1>4 DEF Commands

\* The links a command names are a non-empty list of its targets.
LEMMA CommandIds ==
    ASSUME NEW targets, NEW c \in Commands(targets)
    PROVE  c.ids \in Seq(targets) /\ c.ids # <<>>
<1>1. ASSUME NEW n \in Nat \ {0}, NEW s \in [1..n -> targets]
      PROVE  s \in Seq(targets) /\ s # <<>>
  <2>1. s \in Seq(targets)
    BY <1>1
  <2>2. DOMAIN s = 1..n /\ 1 \in 1..n
    BY <1>1
  <2>3. Len(s) = n
    BY <2>2, <1>1
  <2> QED BY <2>1, <2>3
<1>2. c.ids \in [1..1 -> targets] \/ c.ids \in Batches(targets)
  BY DEF Commands
<1>3. CASE c.ids \in [1..1 -> targets]
  <2>1. 1 \in Nat \ {0}
    OBVIOUS
  <2> QED BY <1>1, <1>3, <2>1, Zenon
<1>4. CASE c.ids \in Batches(targets)
  <2>1. PICK n \in 1..MaxBatch : c.ids \in [1..n -> targets]
    BY <1>4 DEF Batches
  <2>2. n \in Nat \ {0}
    BY <2>1, RequestsAssumption
  <2> QED BY <1>1, <2>1, <2>2
<1> QED
  BY <1>2, <1>3, <1>4

\* A command about some links is one about any larger set of them.
LEMMA CommandsMonotone ==
    ASSUME NEW all, NEW some \in SUBSET all
    PROVE  Commands(some) \subseteq Commands(all)
<1>1. \A n \in Nat : [1..n -> some] \subseteq [1..n -> all]
  OBVIOUS
<1>2. Batches(some) \subseteq Batches(all)
  BY <1>1, RequestsAssumption DEF Batches
<1>3. [1..1 -> some] \subseteq [1..1 -> all]
  BY <1>1
<1> QED
  BY <1>2, <1>3 DEF Commands

LEMMA MergeNamesType ==
    ASSUME NEW existing \in SUBSET Names, NEW new \in SUBSET Names
    PROVE  MergeNames(existing, new) \in SUBSET Names
BY DEF MergeNames

LEMMA PerformType ==
    ASSUME NEW targets, NEW c \in Commands(targets), NEW link \in Documents
    PROVE  Perform(c, link) \in Documents
<1>1. /\ c.op \in AllOps
      /\ c.user \in Users
      /\ c.op = "Edit" => c.title \in Titles /\ c.names \in SUBSET Names
      /\ c.op \in {"SetActive", "SetFlagged"} => c.flag \in BOOLEAN
  BY CommandFields
<1>2. link.tags \in SUBSET Names
  BY DEF Documents, LinkStates
<1> USE DEF Perform, Documents, LinkStates
<1>3. CASE c.op = "Edit"
  <2>1. MergeNames(link.tags, c.names) \in SUBSET Names
    BY <1>1, <1>2, <1>3, MergeNamesType
  <2> QED BY <1>1, <1>3, <2>1 DEF Edited
<1>4. CASE c.op \in {"Delete", "DeleteLinks"}
  BY <1>1, <1>4 DEF Deleted
<1>5. CASE c.op = "UnDelete"
  BY <1>1, <1>5 DEF UnDeleted
<1>6. CASE c.op = "SetActive"
  BY <1>1, <1>6 DEF WithActiveState
<1>7. CASE c.op = "SetFlagged"
  BY <1>1, <1>7 DEF WithFlaggedState
<1> QED
  BY <1>1, <1>3, <1>4, <1>5, <1>6, <1>7 DEF AllOps

\* No command makes the fields of a soft delete disagree.
LEMMA PerformConsistent ==
    ASSUME NEW targets, NEW c \in Commands(targets), NEW link \in Documents,
           DeletionConsistent(link)
    PROVE  DeletionConsistent(Perform(c, link))
<1>1. c.op \in AllOps /\ c.user \in Users /\ c.user # NoUser
  BY CommandFields, NoUserAssumption
<1> USE DEF Perform, DeletionConsistent, Documents, LinkStates
<1>2. CASE c.op = "Edit"
  BY <1>1, <1>2 DEF Edited
<1>3. CASE c.op \in {"Delete", "DeleteLinks"}
  BY <1>1, <1>3 DEF Deleted
<1>4. CASE c.op = "UnDelete"
  BY <1>1, <1>4 DEF UnDeleted
<1>5. CASE c.op = "SetActive"
  BY <1>1, <1>5 DEF WithActiveState
<1>6. CASE c.op = "SetFlagged"
  BY <1>1, <1>6 DEF WithFlaggedState
<1> QED
  BY <1>1, <1>2, <1>3, <1>4, <1>5, <1>6 DEF AllOps

-----------------------------------------------------------------------------
(* Type correctness: first what the pieces of a handler's step preserve.   *)

LEMMA FinishType ==
    ASSUME RequestsOK, NEW r \in Requests,
           NEW status \in {"ok", "fail", "error"}, NEW reported \in Seq(Links),
           Finish(r, status, reported)
    PROVE  RequestsOK'
<1>1. <<>> \in Seq(Links)
  OBVIOUS
<1> QED
  BY <1>1 DEF RequestsOK, Finish, Answer

\* A list with a second element has a tail to go on with.
LEMMA TailNotEmpty ==
    ASSUME NEW S, NEW s \in Seq(S), Len(s) > 1
    PROVE  Tail(s) \in Seq(S) /\ Tail(s) # <<>>
<1>1. Tail(s) \in Seq(S) /\ Len(Tail(s)) = Len(s) - 1
  OBVIOUS
<1>2. Len(Tail(s)) # 0
  BY <1>1
<1>3. Len(<<>>) = 0
  OBVIOUS
<1> QED
  BY <1>1, <1>2, <1>3, Zenon

LEMMA NextLinkType ==
    ASSUME RequestsOK, NEW r \in Requests, pc[r] # "idle",
           NEW reported \in Seq(Links), NextLink(r, reported)
    PROVE  RequestsOK'
<1>1. CASE Len(ids[r]) > 1
  <2>1. /\ ids[r] \in Seq(Links) /\ ids[r] \in Seq(Targets[r])
        /\ command[r] \in Commands(Targets[r])
    BY DEF RequestsOK
  <2>2. /\ Tail(ids[r]) \in Seq(Links)
        /\ Tail(ids[r]) \in Seq(Targets[r])
        /\ Tail(ids[r]) # <<>>
    BY <1>1, <2>1, TailNotEmpty
  <2> QED BY <1>1, <2>1, <2>2 DEF RequestsOK, NextLink
<1>2. CASE ~(Len(ids[r]) > 1)
  BY <1>2, FinishType DEF NextLink
<1> QED
  BY <1>1, <1>2

LEMMA NotLoadedType ==
    ASSUME RequestsOK, NEW r \in Requests, pc[r] # "idle", NotLoaded(r)
    PROVE  RequestsOK'
<1>1. deletedIds[r] \in Seq(Links) /\ <<>> \in Seq(Links)
  BY DEF RequestsOK
<1> QED
  BY <1>1, NextLinkType, FinishType DEF NotLoaded

LEMMA UpdatedType ==
    ASSUME RequestsOK, NEW r \in Requests, pc[r] # "idle",
           NEW isSuccess \in BOOLEAN, Updated(r, isSuccess)
    PROVE  RequestsOK'
<1>1. CASE command[r].op = "DeleteLinks"
  <2> DEFINE reported == IF isSuccess THEN Append(deletedIds[r], Head(ids[r]))
                                      ELSE deletedIds[r]
  <2>1. ids[r] \in Seq(Links) /\ ids[r] # <<>> /\ deletedIds[r] \in Seq(Links)
    BY DEF RequestsOK
  <2>2. reported \in Seq(Links)
    BY <2>1
  <2>3. NextLink(r, reported)
    BY <1>1 DEF Updated
  <2> QED BY <2>2, <2>3, NextLinkType
<1>2. CASE command[r].op # "DeleteLinks"
  <2>1. PICK status \in {"ok", "fail"} : Finish(r, status, <<>>)
    BY <1>2 DEF Updated
  <2>2. <<>> \in Seq(Links)
    OBVIOUS
  <2> QED BY <2>1, <2>2, FinishType
<1> QED
  BY <1>1, <1>2

\* The link a request works on is one of its targets.
LEMMA CurrentLink ==
    ASSUME RequestsOK, NEW r \in Requests, pc[r] # "idle"
    PROVE  /\ Head(ids[r]) \in Targets[r]
           /\ Head(ids[r]) \in Links
           /\ command[r] \in Commands(Targets[r])
<1>1. ids[r] \in Seq(Targets[r]) /\ ids[r] # <<>> /\ Targets[r] \subseteq Links
  BY TargetsAssumption DEF RequestsOK
<1> QED
  BY <1>1 DEF RequestsOK

LEMMA WriteType ==
    ASSUME TypeOK, NEW r \in Requests, pc[r] # "idle", Write(r)
    PROVE  StoreOK'
<1>1. copy[r] \in Documents \union {NoLink} /\ Head(ids[r]) \in Links
  BY CurrentLink DEF TypeOK, RequestsOK
<1> QED
  BY <1>1 DEF TypeOK, StoreOK, Write

\* Every reachable state has the types of TypeOK; in particular a handler in
\* the middle of its command has a link of its own to work on.
THEOREM TypeCorrect == Spec => []TypeOK
<1>1. Init => TypeOK
  <2> SUFFICES ASSUME Init PROVE TypeOK
    OBVIOUS
  <2>1. \A title \in Titles, names \in SUBSET Names :
            NewLink(title, names) \in Documents
    BY DEF NewLink, Documents, LinkStates
  <2>2. StoreOK
    BY <2>1 DEF Init, StoreOK
  <2>3. <<>> \in Seq(Links)
    OBVIOUS
  <2>4. RequestsOK
    BY <2>3 DEF Init, RequestsOK, Answer
  <2> QED BY <2>2, <2>4 DEF TypeOK
<1>2. TypeOK /\ [Next]_vars => TypeOK'
  <2> SUFFICES ASSUME TypeOK, [Next]_vars PROVE TypeOK'
    OBVIOUS
  <2> USE DEF TypeOK
  <2>1. ASSUME NEW r \in Requests, Begin(r)
        PROVE  TypeOK'
    <3>1. PICK c \in Commands(Targets[r]) :
              /\ command' = [command EXCEPT ![r] = c]
              /\ ids' = [ids EXCEPT ![r] = c.ids]
      BY <2>1 DEF Begin
    <3>2. c.ids \in Seq(Targets[r]) /\ c.ids # <<>>
      BY CommandIds
    <3>3. Targets[r] \in SUBSET Links
      BY TargetsAssumption
    <3>4. c \in Commands(Links) /\ c.ids \in Seq(Links)
      BY <3>2, <3>3, CommandsMonotone
    <3>5. <<>> \in Seq(Links)
      OBVIOUS
    <3> QED
      BY <2>1, <3>1, <3>2, <3>4, <3>5 DEF Begin, RequestsOK, StoreOK, Answer
  <2>2. ASSUME NEW r \in Requests, Refuse(r)
        PROVE  TypeOK'
    <3>1. <<>> \in Seq(Links)
      OBVIOUS
    <3> QED BY <2>2, <3>1, FinishType DEF Refuse, StoreOK
  <2>3. ASSUME NEW r \in Requests, GetLink(r)
        PROVE  TypeOK'
    <3>1. pc[r] # "idle" /\ StoreOK'
      BY <2>3 DEF GetLink, StoreOK
    <3>2. Head(ids[r]) \in Links /\ command[r] \in Commands(Targets[r])
      BY <3>1, CurrentLink
    <3>3. CASE store[Head(ids[r])] = NoLink
      BY <2>3, <3>1, <3>3, NotLoadedType DEF GetLink
    <3>4. CASE store[Head(ids[r])] # NoLink
      <4>1. store[Head(ids[r])] \in Documents
        BY <3>2, <3>4 DEF StoreOK
      <4>2. Perform(command[r], store[Head(ids[r])]) \in Documents
        BY <3>2, <4>1, PerformType
      <4>3. /\ copy' = [copy EXCEPT ![r] =
                           Perform(command[r], store[Head(ids[r])])]
            /\ pc' = [pc EXCEPT ![r] = "reread"]
            /\ UNCHANGED <<command, ids, deletedIds, reply>>
        BY <2>3, <3>4 DEF GetLink
      <4> QED BY <3>1, <4>2, <4>3 DEF RequestsOK
    <3> QED BY <3>3, <3>4
  <2>4. ASSUME NEW r \in Requests, Reread(r)
        PROVE  TypeOK'
    <3>1. pc[r] # "idle" /\ StoreOK'
      BY <2>4 DEF Reread, StoreOK
    <3>2. CASE store[Head(ids[r])] = NoLink
      BY <2>4, <3>1, <3>2, UpdatedType DEF Reread
    <3>3. CASE store[Head(ids[r])] # NoLink
      BY <2>4, <3>1, <3>3 DEF Reread, RequestsOK
    <3> QED BY <3>2, <3>3
  <2>5. ASSUME NEW r \in Requests, Replace(r)
        PROVE  TypeOK'
    <3>1. pc[r] # "idle" /\ StoreOK'
      BY <2>5, WriteType DEF Replace
    <3> QED BY <2>5, <3>1, UpdatedType DEF Replace
  <2>6. ASSUME NEW r \in Requests, Fault(r)
        PROVE  TypeOK'
    <3>1. <<>> \in Seq(Links)
      OBVIOUS
    <3>2. StoreOK'
      BY <2>6, WriteType DEF Fault, StoreOK
    <3> QED BY <2>6, <3>1, <3>2, FinishType DEF Fault
  <2>7. ASSUME NEW id \in Links, Remove(id)
        PROVE  TypeOK'
    BY <2>7 DEF Remove, request, StoreOK, RequestsOK
  <2>8. CASE UNCHANGED vars
    BY <2>8 DEF vars, request, StoreOK, RequestsOK
  <2> QED
    BY <2>1, <2>2, <2>3, <2>4, <2>5, <2>6, <2>7, <2>8 DEF Next, Step
<1> QED
  BY <1>1, <1>2, PTL DEF Spec

-----------------------------------------------------------------------------
(* The documents stay consistent                                           *)

\* A handler that is done with a link, loaded or not, updated or not, drops the
\* object it had of it, and answers or goes on to the next link.
Leaves(r) ==
    /\ copy' = [copy EXCEPT ![r] = NoLink]
    /\ \/ pc' = [pc EXCEPT ![r] = "idle"]
       \/ /\ pc' = [pc EXCEPT ![r] = "get"]
          /\ pc[r] # "idle" /\ Len(ids[r]) > 1
          /\ ids' = [ids EXCEPT ![r] = Tail(@)]
          /\ UNCHANGED command
    /\ \A q \in Requests \ {r} : ids'[q] = ids[q] /\ command'[q] = command[q]

LEMMA LeavesLink ==
    ASSUME RequestsOK, NEW r \in Requests,
           \/ \E status, reported : Finish(r, status, reported)
           \/ pc[r] # "idle" /\ NotLoaded(r)
           \/ pc[r] # "idle" /\ \E isSuccess \in BOOLEAN : Updated(r, isSuccess)
    PROVE  Leaves(r)
<1>1. ASSUME NEW status, NEW reported, Finish(r, status, reported)
      PROVE  Leaves(r)
  BY <1>1 DEF Finish, Leaves, RequestsOK
<1>2. ASSUME NEW reported, pc[r] # "idle", NextLink(r, reported)
      PROVE  Leaves(r)
  BY <1>1, <1>2 DEF NextLink, Leaves, RequestsOK
<1> QED
  BY <1>1, <1>2 DEF NotLoaded, Updated

LEMMA LeavesCopiesConsistent ==
    ASSUME RequestsOK, CopiesConsistent, NEW r \in Requests, Leaves(r)
    PROVE  CopiesConsistent'
BY DEF RequestsOK, CopiesConsistent, Leaves

LEMMA WriteConsistent ==
    ASSUME TypeOK, Inv, NEW r \in Requests, Write(r)
    PROVE  StoredDeletionConsistent'
<1> DEFINE id == Head(ids[r])
<1>1. ASSUME NEW other \in Links, store'[other] # NoLink
      PROVE  DeletionConsistent(store'[other])
  <2>1. \/ store'[other] = store[other]
        \/ store'[other] = copy[r]
    BY <1>1 DEF Write, TypeOK, StoreOK
  <2>2. store[other] # NoLink => DeletionConsistent(store[other])
    BY DEF Inv, StoredDeletionConsistent
  <2>3. copy[r] # NoLink => DeletionConsistent(copy[r])
    BY DEF Inv, CopiesConsistent
  <2> QED BY <1>1, <2>1, <2>2, <2>3 DEF DeletionConsistent
<1> QED
  BY <1>1 DEF StoredDeletionConsistent

LEMMA LeavesInFlight ==
    ASSUME RequestsOK, InFlight, NEW r \in Requests, Leaves(r)
    PROVE  InFlight'
<1>1. ASSUME NEW q \in Requests \ {r}
      PROVE  /\ pc'[q] = pc[q] /\ copy'[q] = copy[q]
             /\ ids'[q] = ids[q] /\ command'[q] = command[q]
  BY DEF Leaves, RequestsOK
<1>2. copy'[r] = NoLink
  BY DEF Leaves, RequestsOK
<1>3. ASSUME pc'[r] # "idle", NEW i \in DOMAIN ids'[r]
      PROVE  \E j \in DOMAIN command'[r].ids : ids'[r][i] = command'[r].ids[j]
  <2>1. /\ pc[r] # "idle" /\ Len(ids[r]) > 1 /\ ids[r] \in Seq(Links)
        /\ ids'[r] = Tail(ids[r]) /\ command'[r] = command[r]
    BY <1>3 DEF Leaves, RequestsOK
  <2>2. i + 1 \in DOMAIN ids[r] /\ ids'[r][i] = ids[r][i + 1]
    BY <1>3, <2>1
  <2> QED BY <2>1, <2>2 DEF InFlight
<1> QED
  BY <1>1, <1>2, <1>3 DEF InFlight

LEMMA LeavesConsistent ==
    ASSUME RequestsOK, CopiesConsistent, InFlight, NEW r \in Requests,
           \/ \E status, reported : Finish(r, status, reported)
           \/ pc[r] # "idle" /\ NotLoaded(r)
           \/ pc[r] # "idle" /\ \E isSuccess \in BOOLEAN : Updated(r, isSuccess)
    PROVE  CopiesConsistent' /\ InFlight'
BY LeavesLink, LeavesCopiesConsistent, LeavesInFlight

\* A handler goes on with an object that fits its command.
LEMMA ObjectInFlight ==
    ASSUME TypeOK, InFlight, NEW r \in Requests, NEW object,
           NEW at \in {"reread", "replace"}, pc[r] # "idle",
           command[r].op = "DeleteLinks" /\ object # NoLink => object.isDeleted,
           pc' = [pc EXCEPT ![r] = at],
           copy' = [copy EXCEPT ![r] = object],
           UNCHANGED <<command, ids>>
    PROVE  InFlight'
<1>1. ASSUME NEW q \in Requests \ {r}
      PROVE  pc'[q] = pc[q] /\ copy'[q] = copy[q]
  BY DEF TypeOK, RequestsOK
<1>2. pc'[r] = at /\ copy'[r] = object
  BY DEF TypeOK, RequestsOK
<1> QED
  BY <1>1, <1>2 DEF InFlight

LEMMA InvStep == TypeOK /\ Inv /\ [Next]_vars => Inv'
<1> SUFFICES ASSUME TypeOK, Inv, [Next]_vars PROVE Inv'
  OBVIOUS
<1> USE DEF Inv
<1>1. UNCHANGED store => StoredDeletionConsistent'
  BY DEF StoredDeletionConsistent
<1>2. ASSUME NEW r \in Requests, Begin(r)
      PROVE  Inv'
  <2>1. CopiesConsistent'
    BY <1>2 DEF Begin, CopiesConsistent, TypeOK, RequestsOK
  <2>2. PICK c \in Commands(Targets[r]) :
            /\ command' = [command EXCEPT ![r] = c]
            /\ ids' = [ids EXCEPT ![r] = c.ids]
    BY <1>2 DEF Begin
  <2>3. ids'[r] = command'[r].ids
    BY <2>2 DEF TypeOK, RequestsOK
  <2>4. copy'[r] = NoLink
    BY <1>2 DEF Begin, InFlight
  <2>5. ASSUME NEW q \in Requests \ {r}
        PROVE  /\ pc'[q] = pc[q] /\ copy'[q] = copy[q]
               /\ ids'[q] = ids[q] /\ command'[q] = command[q]
    BY <1>2, <2>2 DEF Begin, TypeOK, RequestsOK
  <2>6. InFlight'
    BY <2>3, <2>4, <2>5 DEF InFlight
  <2> QED BY <1>1, <1>2, <2>1, <2>6 DEF Begin
<1>3. ASSUME NEW r \in Requests, Refuse(r)
      PROVE  Inv'
  BY <1>1, <1>3, LeavesConsistent DEF Refuse, TypeOK
<1>4. ASSUME NEW r \in Requests, GetLink(r)
      PROVE  Inv'
  <2> DEFINE document == store[Head(ids[r])]
  <2>1. CASE document = NoLink
    BY <1>1, <1>4, <2>1, LeavesConsistent DEF GetLink, TypeOK
  <2>2. CASE document # NoLink
    <3>1. /\ document \in Documents /\ DeletionConsistent(document)
          /\ command[r] \in Commands(Targets[r])
      BY <1>4, <2>2, CurrentLink
         DEF GetLink, TypeOK, StoreOK, StoredDeletionConsistent
    <3>2. /\ DeletionConsistent(Perform(command[r], document))
          /\ Perform(command[r], document) \in Documents
      BY <3>1, PerformConsistent, PerformType
    <3>3. Perform(command[r], document) # NoLink
      BY <3>2, NoLinkAssumption
    <3>4. /\ copy' = [copy EXCEPT ![r] = Perform(command[r], document)]
          /\ pc' = [pc EXCEPT ![r] = "reread"]
      BY <1>4, <2>2 DEF GetLink
    <3>5. CopiesConsistent'
      BY <3>2, <3>3, <3>4 DEF CopiesConsistent, TypeOK, RequestsOK
    <3>6. command[r].op = "DeleteLinks" =>
              Perform(command[r], document).isDeleted
      BY <3>1 DEF Perform, Deleted, Documents, LinkStates
    <3>7. UNCHANGED <<command, ids>> /\ pc[r] = "get"
      BY <1>4, <2>2 DEF GetLink
    <3>8. InFlight'
      BY <3>4, <3>6, <3>7, ObjectInFlight
    <3> QED BY <1>1, <1>4, <3>5, <3>8 DEF GetLink
  <2> QED BY <2>1, <2>2
<1>5. ASSUME NEW r \in Requests, Reread(r)
      PROVE  Inv'
  <2>1. CASE store[Head(ids[r])] = NoLink
    BY <1>1, <1>5, <2>1, LeavesConsistent DEF Reread, TypeOK
  <2>2. CASE store[Head(ids[r])] # NoLink
    <3>1. /\ pc[r] = "reread" /\ pc' = [pc EXCEPT ![r] = "replace"]
          /\ UNCHANGED <<command, ids, copy>>
      BY <1>5, <2>2 DEF Reread
    <3>2. CopiesConsistent'
      BY <3>1 DEF CopiesConsistent, TypeOK, RequestsOK
    <3>3. copy' = [copy EXCEPT ![r] = copy[r]]
      BY <3>1 DEF TypeOK, RequestsOK
    <3>4. command[r].op = "DeleteLinks" /\ copy[r] # NoLink => copy[r].isDeleted
      BY DEF InFlight
    <3>5. InFlight'
      BY <3>1, <3>3, <3>4, ObjectInFlight
    <3> QED BY <1>1, <1>5, <3>2, <3>5 DEF Reread
  <2> QED BY <2>1, <2>2
<1>6. ASSUME NEW r \in Requests, Replace(r)
      PROVE  Inv'
  BY <1>6, WriteConsistent, LeavesConsistent DEF Replace, TypeOK
<1>7. ASSUME NEW r \in Requests, Fault(r)
      PROVE  Inv'
  BY <1>1, <1>7, WriteConsistent, LeavesConsistent DEF Fault, TypeOK
<1>8. ASSUME NEW id \in Links, Remove(id)
      PROVE  Inv'
  BY <1>8 DEF Remove, request, CopiesConsistent, InFlight,
              StoredDeletionConsistent, TypeOK, StoreOK
<1>9. CASE UNCHANGED vars
  BY <1>1, <1>9 DEF vars, request, CopiesConsistent, InFlight
<1> QED
  BY <1>2, <1>3, <1>4, <1>5, <1>6, <1>7, <1>8, <1>9 DEF Next, Step

\* Whatever the interleaving, and wherever handlers fail, a stored document is
\* never a mixture: IsDeleted, DeletedById, DateDeleted, IsActive and
\* UpdatedById agree as DeletionConsistent says.
THEOREM DocumentsConsistent == Spec => []Inv
<1>1. Init => Inv
  <2> SUFFICES ASSUME Init PROVE Inv
    OBVIOUS
  <2>1. \A title \in Titles, names \in SUBSET Names :
            DeletionConsistent(NewLink(title, names))
    BY DEF NewLink, DeletionConsistent
  <2>2. StoredDeletionConsistent
    BY <2>1 DEF Init, StoredDeletionConsistent
  <2>3. CopiesConsistent /\ InFlight
    BY DEF Init, CopiesConsistent, InFlight
  <2> QED BY <2>2, <2>3 DEF Inv
<1> QED
  BY <1>1, InvStep, TypeCorrect, PTL DEF Spec

-----------------------------------------------------------------------------
(* What a step may never do                                                *)

\* A removed document stays removed, whatever handlers were about to write.
THEOREM RemovalIsFinal == Spec => RemovedStaysRemoved
<1>1. TypeOK /\ [Next]_vars =>
          [\A id \in Links : store[id] = NoLink => store'[id] = NoLink]_vars
  <2> SUFFICES ASSUME TypeOK, [Next]_vars, NEW id \in Links, store[id] = NoLink
               PROVE  store'[id] = NoLink
    OBVIOUS
  <2>1. UNCHANGED store => store'[id] = NoLink
    OBVIOUS
  <2>2. ASSUME NEW r \in Requests, Write(r)
        PROVE  store'[id] = NoLink
    BY <2>2 DEF Write, TypeOK, StoreOK
  <2>3. ASSUME NEW other \in Links, Remove(other)
        PROVE  store'[id] = NoLink
    BY <2>3 DEF Remove, TypeOK, StoreOK
  <2>4. \/ UNCHANGED store
        \/ \E r \in Requests : Write(r)
        \/ \E other \in Links : Remove(other)
    BY DEF Next, Step, Begin, Refuse, GetLink, Reread, Replace, Fault, vars
  <2> QED BY <2>1, <2>2, <2>3, <2>4
<1> QED
  BY <1>1, TypeCorrect, PTL DEF Spec, RemovedStaysRemoved

\* A handler that looks at the result of UpdateLinkAsync acknowledges nothing
\* but a successful replacement, and nobody acknowledges for it.
LEMMA Acknowledged ==
    ASSUME TypeOK, Inv, [Next]_vars, NEW r \in Requests, Acknowledges(r)
    PROVE  \/ /\ Replace(r) /\ store[Head(ids[r])] # NoLink /\ Updated(r, TRUE)
           \/ command[r].op \in {"Delete", "UnDelete", "Edit"}
<1> SUFFICES ASSUME command[r].op \notin {"Delete", "UnDelete", "Edit"}
             PROVE  /\ Replace(r) /\ store[Head(ids[r])] # NoLink
                    /\ Updated(r, TRUE)
  OBVIOUS
<1> USE DEF TypeOK
<1>1. pc[r] # "idle"
  BY DEF Acknowledges
<1>2. ASSUME NEW status, NEW reported, Finish(r, status, reported)
      PROVE  Collected(r) = reported /\ reply'[r].status = status
  BY <1>2 DEF Finish, Collected, RequestsOK, Answer
<1>3. ASSUME NEW reported, NextLink(r, reported)
      PROVE  Collected(r) = reported
  BY <1>1, <1>2, <1>3 DEF NextLink, Collected, RequestsOK
<1>4. /\ ~ (Len(deletedIds[r]) > Len(deletedIds[r]))
      /\ ~ (Len(<<>>) > Len(deletedIds[r]))
  BY DEF RequestsOK
<1>5. ~ NotLoaded(r)
  BY <1>2, <1>3, <1>4 DEF NotLoaded, Acknowledges
<1>6. ~ Updated(r, FALSE)
  BY <1>2, <1>3, <1>4 DEF Updated, Acknowledges
<1>7. ~ Finish(r, "error", <<>>)
  BY <1>2, <1>4 DEF Acknowledges
<1>8. ~ (pc'[r] = pc[r] /\ deletedIds'[r] = deletedIds[r])
  BY <1>1, <1>4 DEF Acknowledges, Collected
<1>9. ASSUME NEW at, at # "idle", pc' = [pc EXCEPT ![r] = at],
             UNCHANGED deletedIds
      PROVE  FALSE
  BY <1>4, <1>9 DEF Acknowledges, Collected, RequestsOK
<1>10. ASSUME NEW q \in Requests \ {r},
              Step(q) \/ Begin(q) \/ Refuse(q) \/ Fault(q)
       PROVE  FALSE
  <2>1. ASSUME NEW status, NEW reported, Finish(q, status, reported)
        PROVE  pc'[r] = pc[r] /\ deletedIds'[r] = deletedIds[r]
    BY <2>1 DEF Finish, RequestsOK
  <2>2. ASSUME NEW reported, NextLink(q, reported)
        PROVE  pc'[r] = pc[r] /\ deletedIds'[r] = deletedIds[r]
    BY <2>1, <2>2 DEF NextLink, RequestsOK
  <2>3. ASSUME NotLoaded(q) \/ \E isSuccess \in BOOLEAN : Updated(q, isSuccess)
        PROVE  pc'[r] = pc[r] /\ deletedIds'[r] = deletedIds[r]
    BY <2>1, <2>2, <2>3 DEF NotLoaded, Updated
  <2>4. pc'[r] = pc[r] /\ deletedIds'[r] = deletedIds[r]
    BY <1>10, <2>1, <2>3
       DEF Step, GetLink, Reread, Replace, Begin, Refuse, Fault, RequestsOK
  <2> QED BY <1>8, <2>4
<1>11. ~ Begin(r) /\ ~ Refuse(r) /\ ~ Fault(r)
  BY <1>1, <1>7 DEF Begin, Refuse, Fault
<1>12. ~ GetLink(r) /\ ~ Reread(r)
  BY <1>5, <1>6, <1>9 DEF GetLink, Reread
<1>13. ~ UNCHANGED vars /\ \A id \in Links : ~ Remove(id)
  BY <1>8 DEF vars, request, Remove
<1>14. Replace(r)
  BY <1>10, <1>11, <1>12, <1>13 DEF Next, Step
<1> QED
  BY <1>6, <1>14 DEF Replace
LEMMA ReplacedWithCopy ==
    ASSUME TypeOK, Inv, NEW r \in Requests, Replace(r),
           store[Head(ids[r])] # NoLink
    PROVE  copy[r] # NoLink /\ store'[Head(ids[r])] = copy[r]
<1>1. Head(ids[r]) \in Links /\ copy[r] # NoLink
  BY CurrentLink DEF Replace, Inv, CopiesConsistent, TypeOK
<1> QED
  BY <1>1 DEF Replace, Write, TypeOK, StoreOK

\* SetLinkActiveState, SetLinkFlaggedState and DeleteLinks answer for a link
\* only in the step that replaced its document by the object they changed.
THEOREM CheckedAnswersAreTrue == Spec => CheckedOkMeansWritten
<1>1. TypeOK /\ Inv /\ [Next]_vars =>
          [OkMeansWritten({"SetActive", "SetFlagged", "DeleteLinks"})]_vars
  <2> SUFFICES ASSUME TypeOK, Inv, [Next]_vars, NEW r \in Requests,
                      Acknowledges(r),
                      command[r].op \in
                          {"SetActive", "SetFlagged", "DeleteLinks"}
               PROVE  copy[r] # NoLink /\ store'[Head(ids[r])] = copy[r]
    BY DEF OkMeansWritten
  <2>1. Replace(r) /\ store[Head(ids[r])] # NoLink
    BY Acknowledged
  <2> QED BY <2>1, ReplacedWithCopy
<1> QED
  BY <1>1, TypeCorrect, DocumentsConsistent, PTL DEF Spec, CheckedOkMeansWritten

\* The report of DeleteLinks grows by one id, that of the link it is at, in the
\* step that leaves the document of this id deleted.
THEOREM ReportIsTrue == Spec => ReportedAreDeleted
<1>1. TypeOK /\ Inv /\ [Next]_vars =>
          [\A r \in Requests :
              Acknowledges(r) /\ command[r].op = "DeleteLinks" =>
                  /\ Collected(r) = Append(deletedIds[r], Head(ids[r]))
                  /\ store'[Head(ids[r])] # NoLink
                  /\ store'[Head(ids[r])].isDeleted]_vars
  <2> SUFFICES ASSUME TypeOK, Inv, [Next]_vars, NEW r \in Requests,
                      Acknowledges(r), command[r].op = "DeleteLinks"
               PROVE  /\ Collected(r) = Append(deletedIds[r], Head(ids[r]))
                      /\ store'[Head(ids[r])] # NoLink
                      /\ store'[Head(ids[r])].isDeleted
    OBVIOUS
  <2>1. /\ Replace(r) /\ store[Head(ids[r])] # NoLink
        /\ Updated(r, TRUE)
    BY Acknowledged
  <2>2. copy[r] # NoLink /\ store'[Head(ids[r])] = copy[r]
    BY <2>1, ReplacedWithCopy
  <2>3. copy[r].isDeleted
    BY <2>2 DEF Inv, InFlight
  <2>4. NextLink(r, Append(deletedIds[r], Head(ids[r])))
    BY <2>1 DEF Updated
  <2>5. Collected(r) = Append(deletedIds[r], Head(ids[r]))
    BY <2>4 DEF NextLink, Finish, Answer, Collected, TypeOK, RequestsOK
  <2> QED BY <2>2, <2>3, <2>5
<1> QED
  BY <1>1, TypeCorrect, DocumentsConsistent, PTL DEF Spec, ReportedAreDeleted

-----------------------------------------------------------------------------
(* LinkCommands implements AtomicLinks when no two requests share a link.  *)
(* LinkCommands' own runs show that sharing one is enough to break it.     *)

\* A step touches the document of no link but the one its request is at, and
\* starts no request at another link with an object of its own.
LEMMA LeavesCurrent ==
    ASSUME RequestsOK, CopiesCurrent, NEW r \in Requests, Leaves(r),
           \A q \in Requests \ {r} :
               pc[q] # "idle" =>
                   \/ store'[Head(ids[q])] = store[Head(ids[q])]
                   \/ store'[Head(ids[q])] = NoLink
    PROVE  CopiesCurrent'
<1>1. ASSUME NEW q \in Requests \ {r}
      PROVE  /\ pc'[q] = pc[q] /\ copy'[q] = copy[q]
             /\ ids'[q] = ids[q] /\ command'[q] = command[q]
  BY DEF Leaves, RequestsOK
<1>2. pc'[r] \notin {"reread", "replace"}
  BY DEF Leaves, RequestsOK
<1> QED
  BY <1>1, <1>2 DEF CopiesCurrent

\* A write of one request does not reach the links of another.
LEMMA WriteElsewhere ==
    ASSUME Disjoint, TypeOK, NEW r \in Requests, pc[r] # "idle", Write(r),
           NEW q \in Requests \ {r}, pc[q] # "idle"
    PROVE  store'[Head(ids[q])] = store[Head(ids[q])]
<1>1. /\ Head(ids[r]) \in Targets[r] /\ Head(ids[q]) \in Targets[q]
      /\ Head(ids[r]) \in Links /\ Head(ids[q]) \in Links
  BY CurrentLink DEF TypeOK
<1>2. Head(ids[r]) # Head(ids[q])
  BY <1>1 DEF Disjoint
<1> QED
  BY <1>1, <1>2 DEF Write, TypeOK, StoreOK

\* The object of a handler stays what its command makes of the document.
THEOREM CopiesStayCurrent ==
    ASSUME Disjoint
    PROVE  Spec => []CopiesCurrent
<1>1. Init => CopiesCurrent
  BY DEF Init, CopiesCurrent
<1>2. TypeOK /\ CopiesCurrent /\ [Next]_vars => CopiesCurrent'
  <2> SUFFICES ASSUME TypeOK, CopiesCurrent, [Next]_vars
               PROVE  CopiesCurrent'
    OBVIOUS
  <2>1. ASSUME NEW r \in Requests, Begin(r)
        PROVE  CopiesCurrent'
    <3>1. ASSUME NEW q \in Requests \ {r}
          PROVE  /\ pc'[q] = pc[q] /\ copy'[q] = copy[q]
                 /\ ids'[q] = ids[q] /\ command'[q] = command[q]
      BY <2>1 DEF Begin, TypeOK, RequestsOK
    <3>2. pc'[r] = "get" /\ store' = store
      BY <2>1 DEF Begin, TypeOK, RequestsOK
    <3> QED BY <3>1, <3>2 DEF CopiesCurrent
  <2>2. ASSUME NEW r \in Requests, Refuse(r)
        PROVE  CopiesCurrent'
    BY <2>2, LeavesLink, LeavesCurrent DEF Refuse, TypeOK
  <2>3. ASSUME NEW r \in Requests, GetLink(r)
        PROVE  CopiesCurrent'
    <3>1. CASE store[Head(ids[r])] = NoLink
      BY <2>3, <3>1, LeavesLink, LeavesCurrent DEF GetLink, TypeOK
    <3>2. CASE store[Head(ids[r])] # NoLink
      <4>1. copy'[r] = Perform(command[r], store[Head(ids[r])])
        BY <2>3, <3>2 DEF GetLink, TypeOK, RequestsOK
      <4>2. ASSUME NEW q \in Requests \ {r}
            PROVE  pc'[q] = pc[q] /\ copy'[q] = copy[q]
        BY <2>3, <3>2 DEF GetLink, TypeOK, RequestsOK
      <4>3. UNCHANGED <<store, command, ids>>
        BY <2>3, <3>2 DEF GetLink
      <4> QED BY <4>1, <4>2, <4>3 DEF CopiesCurrent
    <3> QED BY <3>1, <3>2
  <2>4. ASSUME NEW r \in Requests, Reread(r)
        PROVE  CopiesCurrent'
    <3>1. CASE store[Head(ids[r])] = NoLink
      BY <2>4, <3>1, LeavesLink, LeavesCurrent DEF Reread, TypeOK
    <3>2. CASE store[Head(ids[r])] # NoLink
      <4>1. /\ pc[r] = "reread" /\ pc' = [pc EXCEPT ![r] = "replace"]
            /\ UNCHANGED <<store, command, ids, copy>>
        BY <2>4, <3>2 DEF Reread
      <4>2. \A q \in Requests : pc'[q] # pc[q] => pc[q] = "reread"
        BY <4>1 DEF TypeOK, RequestsOK
      <4> QED BY <4>1, <4>2 DEF CopiesCurrent
    <3> QED BY <3>1, <3>2
  <2>5. ASSUME NEW r \in Requests, Replace(r)
        PROVE  CopiesCurrent'
    <3>1. Leaves(r)
      BY <2>5, LeavesLink DEF Replace, TypeOK
    <3> QED BY <2>5, <3>1, WriteElsewhere, LeavesCurrent DEF Replace, TypeOK
  <2>6. ASSUME NEW r \in Requests, Fault(r)
        PROVE  CopiesCurrent'
    <3>1. Leaves(r)
      BY <2>6, LeavesLink DEF Fault, TypeOK
    <3>2. CASE UNCHANGED store
      BY <3>1, <3>2, LeavesCurrent DEF TypeOK
    <3>3. CASE Write(r)
      BY <2>6, <3>1, <3>3, WriteElsewhere, LeavesCurrent DEF Fault, TypeOK
    <3> QED BY <2>6, <3>2, <3>3 DEF Fault
  <2>7. ASSUME NEW id \in Links, Remove(id)
        PROVE  CopiesCurrent'
    <3>1. \A other \in Links : store'[other] \in {store[other], NoLink}
      BY <2>7 DEF Remove, TypeOK, StoreOK
    <3>2. \A q \in Requests : pc[q] # "idle" => Head(ids[q]) \in Links
      BY CurrentLink DEF TypeOK
    <3>3. UNCHANGED <<pc, command, ids, copy>>
      BY <2>7 DEF Remove, request
    <3> QED BY <3>1, <3>2, <3>3 DEF CopiesCurrent
  <2>8. CASE UNCHANGED vars
    BY <2>8 DEF vars, request, CopiesCurrent
  <2> QED
    BY <2>1, <2>2, <2>3, <2>4, <2>5, <2>6, <2>7, <2>8 DEF Next, Step
<1> QED
  BY <1>1, <1>2, TypeCorrect, PTL DEF Spec

-----------------------------------------------------------------------------
(* The refinement                                                          *)

\* AtomicLinks has the commands of LinkCommands, and performs them alike.
LEMMA SameCommands ==
    /\ \A targets : Atomic!Commands(targets) = Commands(targets)
    /\ \A c, link : Atomic!Perform(c, link) = Perform(c, link)
<1>1. \A targets : Atomic!Batches(targets) = Batches(targets)
  BY DEF Atomic!Batches, Batches
<1>2. \A targets : Atomic!Commands(targets) = Commands(targets)
  BY <1>1 DEF Atomic!Commands, Commands
<1>3. \A c, link : Atomic!Perform(c, link) = Perform(c, link)
  BY DEF Atomic!Perform, Perform, Atomic!MergeNames, MergeNames,
         Atomic!Edited, Edited, Atomic!Deleted, Deleted,
         Atomic!UnDeleted, UnDeleted,
         Atomic!WithActiveState, WithActiveState,
         Atomic!WithFlaggedState, WithFlaggedState
<1> QED
  BY <1>2, <1>3
\* The write of a handler is one atomic command of AtomicLinks, or nothing if
\* the document was removed.
LEMMA WriteIsAtomic ==
    ASSUME TypeOK, Inv, CopiesCurrent, NEW r \in Requests,
           pc[r] = "replace", Write(r)
    PROVE  Atomic!Next \/ UNCHANGED store
<1> DEFINE id == Head(ids[r])
<1>1. /\ id \in Links /\ Targets[r] \in SUBSET Links
      /\ command[r] \in Commands(Targets[r])
  BY CurrentLink, TargetsAssumption DEF TypeOK
<1>2. command[r] \in Atomic!Commands(Links)
  BY <1>1, CommandsMonotone, SameCommands
<1>3. \E j \in DOMAIN command[r].ids : command[r].ids[j] = id
  <2>1. 1 \in DOMAIN ids[r] /\ ids[r][1] = id
    BY DEF TypeOK, RequestsOK
  <2> QED BY <2>1 DEF Inv, InFlight
<1>4. CASE store[id] = NoLink
  BY <1>1, <1>4 DEF Write, TypeOK, StoreOK
<1>5. CASE store[id] # NoLink
  <2>1. copy[r] = Atomic!Perform(command[r], store[id])
    BY <1>5, SameCommands DEF CopiesCurrent
  <2>2. store' = [store EXCEPT ![id] = copy[r]]
    BY <1>5 DEF Write
  <2>3. store' = [store EXCEPT ![id] = Atomic!Perform(command[r], @)]
    BY <1>1, <2>1, <2>2 DEF TypeOK, StoreOK
  <2>4. Atomic!Act(command[r], id)
    BY <1>5, <2>3 DEF Atomic!Act
  <2> QED BY <1>1, <1>2, <1>3, <2>4 DEF Atomic!Next
<1> QED
  BY <1>4, <1>5

\* Requests about different links behave as if each command were one step on
\* the links as they are, DeleteLinks one step for each of its links.
THEOREM DisjointRequestsAreAtomic ==
    ASSUME Disjoint
    PROVE  Spec => AtomicSpec
<1>1. Init => Atomic!Init
  BY DEF Init, Atomic!Init, NewLink, Atomic!NewLink
<1>2. TypeOK /\ Inv /\ CopiesCurrent /\ [Next]_vars => [Atomic!Next]_store
  <2> SUFFICES ASSUME TypeOK, Inv, CopiesCurrent, [Next]_vars
               PROVE  Atomic!Next \/ UNCHANGED store
    OBVIOUS
  <2>1. ASSUME NEW r \in Requests, Replace(r)
        PROVE  Atomic!Next \/ UNCHANGED store
    BY <2>1, WriteIsAtomic DEF Replace
  <2>2. ASSUME NEW r \in Requests, Fault(r)
        PROVE  Atomic!Next \/ UNCHANGED store
    BY <2>2, WriteIsAtomic DEF Fault
  <2>3. ASSUME NEW id \in Links, Remove(id)
        PROVE  Atomic!Next
    BY <2>3 DEF Remove, Atomic!Remove, Atomic!Next
  <2>4. ASSUME NEW r \in Requests,
               Begin(r) \/ Refuse(r) \/ GetLink(r) \/ Reread(r)
        PROVE  UNCHANGED store
    BY <2>4 DEF Begin, Refuse, GetLink, Reread
  <2>5. CASE UNCHANGED vars
    BY <2>5 DEF vars
  <2> QED
    BY <2>1, <2>2, <2>3, <2>4, <2>5 DEF Next, Step
<1> QED
  BY <1>1, <1>2, TypeCorrect, DocumentsConsistent, CopiesStayCurrent, PTL
     DEF Spec, AtomicSpec, Atomic!Spec

\* A command on a deleted link leaves it as it is or undeletes it.
LEMMA PerformOnDeleted ==
    ASSUME NEW targets, NEW c \in Commands(targets), NEW link, link.isDeleted
    PROVE  \/ Perform(c, link) = link
           \/ \E user \in Users : Perform(c, link) = UnDeleted(link, user)
<1>1. c.op \in AllOps /\ c.user \in Users
  BY RequestsAssumption DEF Commands
<1> USE DEF Perform
<1>2. CASE c.op = "Edit"
  BY <1>2 DEF Edited
<1>3. CASE c.op \in {"Delete", "DeleteLinks"}
  BY <1>3 DEF Deleted
<1>4. CASE c.op = "UnDelete"
  BY <1>1, <1>4
<1>5. CASE c.op = "SetActive"
  BY <1>5 DEF WithActiveState
<1>6. CASE c.op = "SetFlagged"
  BY <1>6 DEF WithFlaggedState
<1> QED
  BY <1>1, <1>2, <1>3, <1>4, <1>5, <1>6 DEF AllOps

\* What callers of an atomic Links module could rely on, requests that share no
\* link can: a deleted document is frozen until it is undeleted or removed.
COROLLARY DeletedStaysFrozen ==
    ASSUME Disjoint
    PROVE  Spec => DeletedFrozen
<1> DEFINE Frozen(id) ==
              store[id] # NoLink /\ store[id].isDeleted =>
                  \/ store'[id] \in {store[id], NoLink}
                  \/ \E user \in Users : store'[id] = UnDeleted(store[id], user)
<1>1. TypeOK /\ [Atomic!Next]_store => [\A id \in Links : Frozen(id)]_store
  <2> SUFFICES ASSUME TypeOK, Atomic!Next,
                      NEW id \in Links, store[id].isDeleted
               PROVE  \/ store'[id] \in {store[id], NoLink}
                      \/ \E user \in Users :
                            store'[id] = UnDeleted(store[id], user)
    OBVIOUS
  <2>1. ASSUME NEW other \in Links, Atomic!Remove(other)
        PROVE  store'[id] \in {store[id], NoLink}
    BY <2>1 DEF Atomic!Remove, TypeOK, StoreOK
  <2>2. ASSUME NEW other \in Links, NEW c \in Commands(Links),
               Atomic!Act(c, other)
        PROVE  store'[id] \in {store[id], Perform(c, store[id])}
    BY <2>2, SameCommands DEF Atomic!Act, TypeOK, StoreOK
  <2> QED
    BY <2>1, <2>2, PerformOnDeleted, SameCommands DEF Atomic!Next
<1>2. [\A id \in Links : Frozen(id)]_store =>
          [\A id \in Links :
              store[id] # NoLink /\ store[id].isDeleted =>
                  \/ store'[id] \in {store[id], NoLink}
                  \/ \E user \in Users :
                        store'[id] = Atomic!UnDeleted(store[id], user)]_store
  BY DEF UnDeleted, Atomic!UnDeleted
<1> QED
  BY <1>1, <1>2, TypeCorrect, DisjointRequestsAreAtomic, PTL
     DEF AtomicSpec, Atomic!Spec, DeletedFrozen, Atomic!DeletedFrozen
=============================================================================
