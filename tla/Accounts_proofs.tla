-------------------------- MODULE Accounts_proofs --------------------------
(***************************************************************************)
(* Theorems about Accounts, for any number of requests, users and forms.   *)
(***************************************************************************)
EXTENDS Accounts, TLAPS

StoresOK ==
    /\ users \in [Ids -> Forms \union {None}]
    /\ profiles \subseteq Ids
    /\ roles \in [Roles -> Nat]

LEMMA IdleOK == Idle \in Pages /\ \A r \in Requests : PageOK(r, Idle)
BY DEF Idle, Pages, Calls, PageOK

\* The three ways in which a request moves keep the types.
LEMMA OpenType ==
    ASSUME TypeOK, StoresOK', NEW r \in Requests, NEW p \in Pages, PageOK(r, p),
           page' = [page EXCEPT ![r] = p],
           reply' = [reply EXCEPT ![r] = "none"],
           shown' = [shown EXCEPT ![r] = {}]
    PROVE  TypeOK'
BY DEF TypeOK, StoresOK, Answers, PageOK

LEMMA WaitForType ==
    ASSUME TypeOK, StoresOK', NEW r \in Requests, NEW p \in Pages, PageOK(r, p),
           WaitFor(r, p)
    PROVE  TypeOK'
BY DEF TypeOK, StoresOK, WaitFor, PageOK

LEMMA AnswerType ==
    ASSUME TypeOK, StoresOK', NEW r \in Requests, NEW answer \in Answers,
           NEW rs \in SUBSET Roles, Answer(r, answer, rs)
    PROVE  TypeOK'
BY IdleOK DEF TypeOK, StoresOK, Answer, PageOK

\* The fields of a page under way.
LEMMA PageFields ==
    ASSUME TypeOK, NEW r \in Requests
    PROVE  /\ page[r] \in Pages /\ PageOK(r, page[r])
           /\ page[r].call \in Calls
           /\ page[r].form \in Forms \union {None}
           /\ page[r].user \in Ids \union {None}
           /\ page[r].todo \in SUBSET Roles
           /\ page[r].cache \in SUBSET Roles
BY DEF TypeOK, Pages

LEMMA ThenPage ==
    ASSUME TypeOK, NEW r \in Requests, NEW call \in Calls
    PROVE  /\ Then(r, call) \in Pages
           /\ Then(r, call).call = call
           /\ Then(r, call).form = page[r].form
           /\ Then(r, call).user = page[r].user
           /\ Then(r, call).todo = page[r].todo
           /\ Then(r, call).cache = page[r].cache
BY PageFields DEF Then, Pages

LEMMA StoredRoles == Stored \in SUBSET Roles
BY DEF Stored

\* One form becomes a user with no role yet.
LEMMA InsertType ==
    ASSUME TypeOK, NEW r \in Requests, page[r].form # None,
           NEW id \in Ids, Insert(r, id)
    PROVE  users' \in [Ids -> Forms \union {None}]
<1>1. page[r].form \in Forms
  BY PageFields
<1>2. [page[r].form EXCEPT !.roles = {}] \in Forms
  BY <1>1 DEF Forms
<1> QED BY <1>2 DEF Insert, TypeOK

LEMMA GrantType ==
    ASSUME TypeOK, NEW r \in Requests, page[r].user # None, NEW x \in Roles,
           users' = [users EXCEPT ![page[r].user].roles = @ \union {x}],
           users[page[r].user] # None
    PROVE  users' \in [Ids -> Forms \union {None}]
<1>1. page[r].user \in Ids /\ users[page[r].user] \in Forms
  BY PageFields DEF TypeOK
<1>2. [users[page[r].user] EXCEPT !.roles = @ \union {x}] \in Forms
  BY <1>1 DEF Forms
<1> QED BY <1>1, <1>2 DEF TypeOK

-----------------------------------------------------------------------------
(* Types.  A role is granted to a user that is there, so that the types rest*)
(* on UsersStayKnown and the two are proved together.                      *)

TypeInv == TypeOK /\ UsersStayKnown

\* What every step keeps of the stored users.
UsersStay == \A id \in Ids : users[id] # None => users'[id] # None

LEMMA WaitForKnown ==
    ASSUME TypeInv, StoresOK', UsersStay, NEW r \in Requests,
           NEW p \in Pages, PageOK(r, p), WaitFor(r, p),
           p.call \in {"assign", "addProfile", "findProfile", "listRoles"} =>
               p.user = None \/ users'[p.user] # None
    PROVE  TypeInv'
<1>1. TypeOK'
  BY WaitForType DEF TypeInv
<1>2. UsersStayKnown'
  BY PageFields DEF TypeInv, TypeOK, WaitFor, UsersStayKnown, UsersStay
<1> QED BY <1>1, <1>2 DEF TypeInv

LEMMA AnswerKnown ==
    ASSUME TypeInv, StoresOK', UsersStay, NEW r \in Requests,
           NEW answer \in Answers, NEW rs \in SUBSET Roles,
           Answer(r, answer, rs)
    PROVE  TypeInv'
<1>1. TypeOK'
  BY AnswerType DEF TypeInv
<1>2. UsersStayKnown'
  BY PageFields DEF TypeInv, TypeOK, Answer, Idle, UsersStayKnown, UsersStay
<1> QED BY <1>1, <1>2 DEF TypeInv

LEMMA OpenKnown ==
    ASSUME TypeInv, StoresOK', UsersStay, NEW r \in Requests,
           NEW p \in Pages, PageOK(r, p),
           p.call \in {"findEmail", "findUser", "listRoles"},
           p.call = "listRoles" => p.user = None,
           page' = [page EXCEPT ![r] = p],
           reply' = [reply EXCEPT ![r] = "none"],
           shown' = [shown EXCEPT ![r] = {}]
    PROVE  TypeInv'
<1>1. TypeOK'
  BY OpenType DEF TypeInv
<1>2. UsersStayKnown'
  BY PageFields DEF TypeInv, TypeOK, UsersStayKnown, UsersStay
<1> QED BY <1>1, <1>2 DEF TypeInv

LEMMA SameStores ==
    ASSUME TypeOK, UNCHANGED <<users, profiles, roles>>
    PROVE  StoresOK' /\ UsersStay
BY DEF TypeOK, StoresOK, UsersStay

LEMMA LookupType ==
    ASSUME TypeInv, NEW r \in Requests,
           FindEmail(r) \/ FindName(r) \/ FindUser(r) \/ FindProfile(r)
    PROVE  TypeInv'
<1>1. TypeOK /\ UsersStayKnown
  BY DEF TypeInv
<1>2. StoresOK' /\ UsersStay
  BY <1>1, SameStores DEF FindEmail, FindName, FindUser, FindProfile
<1>3. PageOK(r, page[r]) /\ page[r].cache \in SUBSET Roles
  BY <1>1, PageFields
<1>4. ASSUME NEW answer \in {"exists", "unknown", "shown"},
             NEW rs \in SUBSET Roles, Answer(r, answer, rs)
      PROVE  TypeInv'
  <2>1. answer \in Answers
    BY DEF Answers
  <2> QED BY <1>2, <1>4, <2>1, AnswerKnown
<1>5. ASSUME NEW call \in {"findName", "create", "findProfile", "addProfile",
                           "listRoles"},
             WaitFor(r, Then(r, call)),
             call \in {"findName", "create"} => page[r].form # None,
             call = "findProfile" => page[r].form = None,
             call \in {"addProfile", "findProfile"} =>
                 page[r].user # None /\ users[page[r].user] # None,
             call = "listRoles" =>
                 page[r].user = None \/ users[page[r].user] # None
      PROVE  TypeInv'
  <2>1. call \in Calls
    BY DEF Calls
  <2>2. Then(r, call) \in Pages /\ PageOK(r, Then(r, call))
    BY <1>1, <1>3, <1>5, <2>1, ThenPage DEF PageOK
  <2>3. page[r].user \in Ids \union {None}
    BY <1>1, PageFields
  <2>4. call \in {"assign", "addProfile", "findProfile", "listRoles"} =>
            page[r].user = None \/ users'[page[r].user] # None
    BY <1>2, <1>5, <2>3 DEF UsersStay
  <2> HIDE DEF Then
  <2> QED BY <1>1, <1>2, <1>5, <2>1, <2>2, <2>4, ThenPage, WaitForKnown
<1> {} \in SUBSET Roles
  OBVIOUS
<1>6. CASE FindEmail(r)
  <2>1. page[r].form # None
    BY <1>3, <1>6 DEF FindEmail, PageOK
  <2>2. Answer(r, "exists", {}) \/ WaitFor(r, Then(r, "findName"))
    BY <1>6 DEF FindEmail
  <2> QED BY <1>4, <1>5, <2>1, <2>2
<1>7. CASE FindName(r)
  <2>1. page[r].form # None
    BY <1>3, <1>7 DEF FindName, PageOK
  <2>2. Answer(r, "exists", {}) \/ WaitFor(r, Then(r, "create"))
    BY <1>7 DEF FindName
  <2> QED BY <1>4, <1>5, <2>1, <2>2
<1>8. CASE FindUser(r)
  <2>1. page[r].user # None /\ page[r].form = None
    BY <1>3, <1>8 DEF FindUser, PageOK
  <2>2. \/ Answer(r, "unknown", {})
        \/ users[page[r].user] # None /\ WaitFor(r, Then(r, "findProfile"))
    BY <1>8 DEF FindUser
  <2> QED BY <1>4, <1>5, <2>1, <2>2
<1>9. CASE FindProfile(r)
  <2>1. page[r].user # None /\ users[page[r].user] # None
    BY <1>1, <1>3, <1>9 DEF FindProfile, PageOK, UsersStayKnown
  <2> QED BY <1>3, <1>4, <1>5, <1>9, <2>1 DEF FindProfile, GetRoles
<1> QED BY <1>6, <1>7, <1>8, <1>9

LEMMA CreateUserType ==
    ASSUME TypeInv, NEW r \in Requests, CreateUser(r) \/ CreateUserRefused(r)
    PROVE  TypeInv'
<1>1. TypeOK /\ UsersStayKnown
  BY DEF TypeInv
<1>2. PageOK(r, page[r]) /\ page[r] \in Pages
  BY <1>1, PageFields
<1>3. CASE CreateUserRefused(r)
  <2>1. "refused" \in Answers
    BY DEF Answers
  <2> QED BY <1>1, <1>3, <2>1, SameStores, AnswerKnown DEF CreateUserRefused
<1>4. CASE CreateUser(r)
  <2>1. page[r].form # None /\ page[r].form \in Forms
    BY <1>1, <1>2, <1>4, PageFields DEF CreateUser, PageOK
  <2> DEFINE p(id) == [page[r] EXCEPT !.call = AfterCreate(page[r].form),
                                      !.user = id, !.todo = page[r].form.roles]
  <2>2. PICK id \in Ids : Insert(r, id) /\ WaitFor(r, p(id))
    BY <1>4 DEF CreateUser
  <2>3. users' \in [Ids -> Forms \union {None}]
    BY <1>1, <2>1, <2>2, InsertType
  <2>4. UsersStay /\ users'[id] # None
    BY <1>1, <2>1, <2>2, FormsAssumption DEF Insert, UsersStay, TypeOK, Forms
  <2>5. StoresOK'
    BY <1>1, <1>4, <2>3 DEF CreateUser, StoresOK, TypeOK
  <2>6. /\ p(id) \in Pages /\ p(id).user = id
        /\ p(id).form = page[r].form /\ p(id).todo = page[r].form.roles
        /\ p(id).call = AfterCreate(page[r].form)
    BY <1>2, <2>1 DEF Pages, AfterCreate, Calls, Forms
  <2> HIDE DEF p
  <2>7. PageOK(r, p(id))
    BY <1>2, <2>1, <2>6, FormsAssumption DEF PageOK, AfterCreate
  <2> QED BY <2>2, <2>4, <2>5, <2>6, <2>7, WaitForKnown
<1> QED BY <1>3, <1>4

LEMMA AssignType ==
    ASSUME TypeInv, NEW r \in Requests, Assign(r)
    PROVE  TypeInv'
<1>1. TypeOK /\ UsersStayKnown
  BY DEF TypeInv
<1>2. PageOK(r, page[r]) /\ page[r] \in Pages
  BY <1>1, PageFields
<1>3. page[r].user \in Ids /\ users[page[r].user] # None /\ page[r].call = "assign"
  BY <1>1, <1>2, PageFields DEF Assign, PageOK, UsersStayKnown
<1> DEFINE p(x) == [page[r] EXCEPT
                      !.todo = page[r].todo \ {x},
                      !.call = IF page[r].todo \ {x} = {} THEN "addProfile" ELSE @]
<1>4. PICK x \in page[r].todo :
         /\ \/ users' = [users EXCEPT ![page[r].user].roles = @ \union {x}]
            \/ UNCHANGED users
         /\ WaitFor(r, p(x))
  BY DEF Assign
<1>5. x \in Roles
  BY <1>1, PageFields
<1>6. users' \in [Ids -> Forms \union {None}] /\ UsersStay
  <2>1. CASE users' = [users EXCEPT ![page[r].user].roles = @ \union {x}]
    <3>1. users' \in [Ids -> Forms \union {None}]
      BY <1>1, <1>3, <1>5, <2>1, GrantType, FormsAssumption
    <3>2. [users[page[r].user] EXCEPT !.roles = @ \union {x}] \in Forms
      BY <1>1, <1>3, <1>5 DEF TypeOK, Forms
    <3>3. UsersStay
      BY <1>1, <1>3, <2>1, <3>2, FormsAssumption DEF UsersStay, TypeOK
    <3> QED BY <3>1, <3>3
  <2>2. CASE UNCHANGED users
    BY <1>1, <2>2 DEF TypeOK, UsersStay
  <2> QED BY <1>4, <2>1, <2>2
<1>7. StoresOK'
  BY <1>1, <1>6 DEF Assign, StoresOK, TypeOK
<1>8. /\ p(x) \in Pages /\ p(x).user = page[r].user
      /\ p(x).form = page[r].form /\ p(x).todo = page[r].todo \ {x}
      /\ p(x).call = IF page[r].todo \ {x} = {} THEN "addProfile" ELSE "assign"
  BY <1>2, <1>3 DEF Pages, Calls
<1> HIDE DEF p
<1>9. PageOK(r, p(x))
  BY <1>2, <1>3, <1>8, FormsAssumption DEF PageOK
<1> QED BY <1>3, <1>4, <1>6, <1>7, <1>8, <1>9, WaitForKnown DEF UsersStay

LEMMA AddProfileType ==
    ASSUME TypeInv, NEW r \in Requests, AddProfile(r)
    PROVE  TypeInv'
<1>1. TypeOK /\ UsersStayKnown
  BY DEF TypeInv
<1>2. page[r].user \in Ids
  BY <1>1, PageFields DEF AddProfile, PageOK
<1>3. StoresOK' /\ UsersStay
  BY <1>1, <1>2 DEF AddProfile, StoresOK, TypeOK, UsersStay
<1>4. PICK answer \in Answers : Answer(r, answer, {})
  BY DEF AddProfile, Answers
<1> QED BY <1>3, <1>4, AnswerKnown

LEMMA RolesType ==
    ASSUME TypeInv, NEW r \in Requests,
           ReadRoles(r) \/ FindRole(r) \/ CreateRole(r) \/ RereadRoles(r)
    PROVE  TypeInv'
<1>1. TypeOK /\ UsersStayKnown
  BY DEF TypeInv
<1>2. PageOK(r, page[r]) /\ page[r] \in Pages
  BY <1>1, PageFields
<1>3. StoresOK' /\ UsersStay
  BY <1>1 DEF ReadRoles, FindRole, CreateRole, RereadRoles, NextDefault, Roles,
              StoresOK, TypeOK, UsersStay
<1>4. "shown" \in Answers /\ Stored \in SUBSET Roles
  BY StoredRoles DEF Answers
<1>5. ASSUME Answer(r, "shown", Stored)
      PROVE  TypeInv'
  BY <1>3, <1>4, <1>5, AnswerKnown
<1>6. ASSUME NEW call \in {"findRole", "createRole", "rereadRoles"},
             NEW todo \in SUBSET Roles, call # "rereadRoles" => todo # {},
             WaitFor(r, [page[r] EXCEPT !.call = call, !.todo = todo])
      PROVE  TypeInv'
  <2> DEFINE p == [page[r] EXCEPT !.call = call, !.todo = todo]
  <2>1. p \in Pages /\ p.call = call /\ p.todo = todo /\ p.form = page[r].form
    BY <1>2 DEF Pages, Calls
  <2>2. WaitFor(r, p)
    BY <1>6
  <2> HIDE DEF p
  <2>3. PageOK(r, p)
    BY <1>2, <1>6, <2>1 DEF PageOK
  <2> QED BY <1>3, <2>1, <2>2, <2>3, WaitForKnown
<1>7. ASSUME WaitFor(r, AfterDefault(r))
      PROVE  TypeInv'
  BY <1>6, <1>7 DEF AfterDefault, Roles
<1>8. CASE ReadRoles(r) \/ RereadRoles(r)
  BY <1>5, <1>6, <1>8 DEF ReadRoles, RereadRoles, Roles
<1>9. CASE FindRole(r)
  <2>1. page[r].todo \in SUBSET Roles /\ page[r].todo # {}
    BY <1>1, <1>2, <1>9, PageFields DEF FindRole, PageOK
  <2>2. Then(r, "createRole")
          = [page[r] EXCEPT !.call = "createRole", !.todo = page[r].todo]
    BY <1>2 DEF Then, Pages
  <2> QED BY <1>6, <1>7, <1>9, <2>1, <2>2 DEF FindRole
<1>10. CASE CreateRole(r)
  BY <1>7, <1>10 DEF CreateRole
<1> QED BY <1>8, <1>9, <1>10

LEMMA FaultType ==
    ASSUME TypeInv, NEW r \in Requests, Fault(r)
    PROVE  TypeInv'
<1>1. TypeOK /\ UsersStayKnown
  BY DEF TypeInv
<1>2. PageOK(r, page[r]) /\ page[r].user \in Ids \union {None}
  BY <1>1, PageFields
<1>3. PICK answer \in Answers : Answer(r, answer, {})
  BY DEF Fault, Answers
<1>4. StoresOK' /\ UsersStay
  <2>1. CASE UNCHANGED <<users, profiles, roles>>
    BY <1>1, <2>1, SameStores
  <2>2. ASSUME page[r].call = "create", NEW id \in Ids, Insert(r, id),
               UNCHANGED <<profiles, roles>>
        PROVE  StoresOK' /\ UsersStay
    <3>1. page[r].form # None
      BY <1>2, <2>2 DEF PageOK
    <3>2. users' \in [Ids -> Forms \union {None}]
      BY <1>1, <2>2, <3>1, InsertType
    <3> QED BY <1>1, <2>2, <3>2 DEF Insert, StoresOK, TypeOK, UsersStay
  <2>3. ASSUME page[r].call = "assign", NEW x \in page[r].todo,
               users' = [users EXCEPT ![page[r].user].roles = @ \union {x}],
               UNCHANGED <<profiles, roles>>
        PROVE  StoresOK' /\ UsersStay
    <3>1. page[r].user \in Ids /\ users[page[r].user] # None /\ x \in Roles
      BY <1>1, <1>2, <2>3, PageFields DEF PageOK, UsersStayKnown
    <3>2. users' \in [Ids -> Forms \union {None}]
      BY <1>1, <2>3, <3>1, GrantType, FormsAssumption
    <3>3. [users[page[r].user] EXCEPT !.roles = @ \union {x}] \in Forms
      BY <1>1, <3>1 DEF TypeOK, Forms
    <3>4. UsersStay
      BY <1>1, <2>3, <3>1, <3>3, FormsAssumption DEF UsersStay, TypeOK
    <3> QED BY <1>1, <2>3, <3>2, <3>4 DEF StoresOK, TypeOK
  <2>4. ASSUME page[r].call = "addProfile", UNCHANGED <<users, roles>>,
               profiles' = profiles \union {page[r].user}
        PROVE  StoresOK' /\ UsersStay
    BY <1>1, <1>2, <2>4 DEF PageOK, StoresOK, TypeOK, UsersStay
  <2>5. ASSUME roles' = [roles EXCEPT ![NextDefault(r)] = @ + 1],
               UNCHANGED <<users, profiles>>
        PROVE  StoresOK' /\ UsersStay
    BY <1>1, <2>5 DEF NextDefault, Roles, StoresOK, TypeOK, UsersStay
  <2> QED BY <2>1, <2>2, <2>3, <2>4, <2>5 DEF Fault
<1> QED BY <1>3, <1>4, AnswerKnown

\* Every reachable state has the types of TypeOK, and the user a page is
\* about stays in the store.
THEOREM TypeCorrect == Spec => [](TypeOK /\ UsersStayKnown)
<1>1. Init => TypeInv
  <2> SUFFICES ASSUME Init PROVE TypeInv
    OBVIOUS
  <2>1. \A r \in Requests : page[r] = Idle
    BY DEF Init
  <2>2. page \in [Requests -> Pages] /\ \A r \in Requests : PageOK(r, page[r])
    BY <2>1, IdleOK DEF Init
  <2>3. users \in [Ids -> Forms \union {None}] /\ profiles \subseteq Ids
    BY DEF Init
  <2>4. roles \in [Roles -> Nat]
    BY DEF Init
  <2>5. reply \in [Requests -> Answers] /\ shown \in [Requests -> SUBSET Roles]
    BY DEF Init, Answers
  <2>6. UsersStayKnown
    BY <2>1 DEF UsersStayKnown, Idle
  <2> QED BY <2>2, <2>3, <2>4, <2>5, <2>6 DEF TypeInv, TypeOK
<1>2. TypeInv /\ [Next]_vars => TypeInv'
  <2> SUFFICES ASSUME TypeInv, [Next]_vars PROVE TypeInv'
    OBVIOUS
  <2>1. TypeOK /\ UsersStayKnown
    BY DEF TypeInv
  <2>2. Stored \in SUBSET Roles
    BY StoredRoles
  <2>3. ASSUME NEW r \in Requests, RefuseForm(r)
        PROVE  TypeInv'
    <3>1. Answer(r, "badRequest", {}) /\ StoresOK' /\ UsersStay
      BY <2>1, <2>3, SameStores DEF RefuseForm
    <3>2. "badRequest" \in Answers /\ {} \in SUBSET Roles
      BY DEF Answers
    <3> QED BY <3>1, <3>2, AnswerKnown
  <2>4. ASSUME NEW r \in Requests, NEW form \in FormsOf[r], Create(r, form)
        PROVE  TypeInv'
    <3> DEFINE p == [Idle EXCEPT !.call = "findEmail", !.form = form,
                                 !.cache = Stored]
    <3>1. p \in Pages /\ PageOK(r, p) /\ p.call = "findEmail"
      BY <2>2, FormsAssumption DEF Idle, Pages, Calls, PageOK
    <3> HIDE DEF p
    <3>2. Open(r, p)
      BY <2>4 DEF Create, p
    <3> QED BY <2>1, <3>1, <3>2, SameStores, OpenKnown DEF Open
  <2>5. ASSUME NEW r \in Requests, NEW id \in Ids, Profile(r, id)
        PROVE  TypeInv'
    <3> DEFINE p == [Idle EXCEPT !.call = "findUser", !.user = id,
                                 !.cache = Stored]
    <3>1. p \in Pages /\ PageOK(r, p) /\ p.call = "findUser"
      BY <2>2, FormsAssumption DEF Idle, Pages, Calls, PageOK
    <3> HIDE DEF p
    <3>2. Open(r, p)
      BY <2>5 DEF Profile, p
    <3> QED BY <2>1, <3>1, <3>2, SameStores, OpenKnown DEF Open
  <2>6. ASSUME NEW r \in Requests, ListRoles(r)
        PROVE  TypeInv'
    <3> DEFINE p == [Idle EXCEPT !.call = "listRoles"]
    <3>1. p \in Pages /\ PageOK(r, p) /\ p.call = "listRoles" /\ p.user = None
      BY DEF Idle, Pages, Calls, PageOK
    <3> HIDE DEF p
    <3>2. CASE Answer(r, "shown", Stored)
      BY <2>1, <2>2, <2>6, <3>2, SameStores, AnswerKnown DEF ListRoles, Answers
    <3>3. CASE ~ Answer(r, "shown", Stored)
      <4>1. /\ page' = [page EXCEPT ![r] = p]
            /\ reply' = [reply EXCEPT ![r] = "none"]
            /\ shown' = [shown EXCEPT ![r] = {}]
            /\ UNCHANGED <<users, profiles, roles>>
        BY <2>6, <3>3 DEF ListRoles, p
      <4> QED BY <2>1, <3>1, <4>1, SameStores, OpenKnown
    <3> QED BY <3>2, <3>3
  <2>7. ASSUME NEW r \in Requests, Step(r)
        PROVE  TypeInv'
    BY <2>1, <2>7, LookupType, CreateUserType, AssignType, AddProfileType,
       RolesType DEF Step
  <2>8. ASSUME NEW r \in Requests, Fault(r)
        PROVE  TypeInv'
    BY <2>1, <2>8, FaultType
  <2>9. CASE UNCHANGED vars
    BY <2>9 DEF vars, TypeInv, TypeOK, UsersStayKnown
  <2> QED
    BY <2>3, <2>4, <2>5, <2>6, <2>7, <2>8, <2>9
       DEF Next
<1> QED
  BY <1>1, <1>2, PTL DEF Spec, TypeInv

-----------------------------------------------------------------------------
(* What a step may do to the three collections.                            *)

Granted(r, x) == users' = [users EXCEPT ![page[r].user].roles = @ \union {x}]

\* Only request r moves.
Moves(r) ==
    /\ page' = [page EXCEPT ![r] = page'[r]]
    /\ page'[r] \in Pages

LEMMA StepMoves ==
    ASSUME TypeInv, TypeInv', NEW r \in Requests, Step(r) \/ Fault(r)
    PROVE  Moves(r)
<1>1. page \in [Requests -> Pages] /\ page' \in [Requests -> Pages]
  BY DEF TypeInv, TypeOK
<1>2. \E p : page' = [page EXCEPT ![r] = p]
  BY DEF Step, Fault, FindEmail, FindName, CreateUser, CreateUserRefused,
         Assign, AddProfile, FindUser, FindProfile, GetRoles, ReadRoles,
         FindRole, CreateRole, RereadRoles, WaitFor, Answer
<1> QED BY <1>1, <1>2 DEF Moves

LEMMA UsersChange ==
    ASSUME NEW r \in Requests, Step(r) \/ Fault(r)
    PROVE  \/ UNCHANGED users
           \/ page[r].call = "create" /\ \E id \in Ids : Insert(r, id)
           \/ /\ page[r].call = "assign"
              /\ \E x \in page[r].todo \intersect Stored : Granted(r, x)
BY DEF Step, Fault, FindEmail, FindName, CreateUser, CreateUserRefused,
       Assign, AddProfile, FindUser, FindProfile, ReadRoles, FindRole,
       CreateRole, RereadRoles, Granted

LEMMA ProfilesChange ==
    ASSUME NEW r \in Requests, Step(r) \/ Fault(r)
    PROVE  \/ UNCHANGED profiles
           \/ /\ page[r].call = "addProfile" /\ UNCHANGED users
              /\ profiles' = profiles \union {page[r].user}
BY DEF Step, Fault, FindEmail, FindName, CreateUser, CreateUserRefused,
       Assign, AddProfile, FindUser, FindProfile, ReadRoles, FindRole,
       CreateRole, RereadRoles

LEMMA RolesGrow ==
    ASSUME TypeOK, NEW r \in Requests, Step(r) \/ Fault(r)
    PROVE  Stored \subseteq Stored'
<1>1. roles \in [Roles -> Nat]
  BY DEF TypeOK
<1>2. UNCHANGED roles \/ roles' = [roles EXCEPT ![NextDefault(r)] = @ + 1]
  BY DEF Step, Fault, FindEmail, FindName, CreateUser, CreateUserRefused,
         Assign, AddProfile, FindUser, FindProfile, ReadRoles, FindRole,
         CreateRole, RereadRoles
<1> QED BY <1>1, <1>2 DEF Stored

\* A step that does not open a page: RefuseForm stores and reads nothing.
LEMMA RefuseMoves ==
    ASSUME TypeOK, NEW r \in Requests, RefuseForm(r)
    PROVE  UNCHANGED <<users, profiles, roles>> /\ Moves(r) /\ page'[r] = Idle
BY IdleOK DEF RefuseForm, Answer, Moves, TypeOK

LEMMA KnownUser ==
    ASSUME TypeInv, NEW r \in Requests,
           page[r].call \in {"assign", "addProfile"}
    PROVE  /\ page[r].user \in Ids /\ users[page[r].user] # None
           /\ users[page[r].user] \in Forms
BY PageFields DEF TypeInv, TypeOK, PageOK, UsersStayKnown

\* Inserting and granting, seen from every id.
LEMMA InsertedUser ==
    ASSUME TypeInv, NEW r \in Requests, page[r].call = "create",
           NEW id \in Ids, Insert(r, id)
    PROVE  /\ page[r].form \in Forms /\ users[id] = None
           /\ users'[id] \in Forms
           /\ users'[id].name = page[r].form.name
           /\ users'[id].email = page[r].form.email
           /\ users'[id].roles = {}
           /\ \A i \in Ids \ {id} : users'[i] = users[i]
<1>1. page[r].form \in Forms
  BY PageFields DEF TypeInv, PageOK
<1> QED BY <1>1 DEF Insert, TypeInv, TypeOK, Forms

LEMMA GrantedUser ==
    ASSUME TypeInv, NEW r \in Requests, page[r].call = "assign",
           NEW x \in Roles, Granted(r, x)
    PROVE  /\ users'[page[r].user] \in Forms
           /\ users'[page[r].user].name = users[page[r].user].name
           /\ users'[page[r].user].email = users[page[r].user].email
           /\ users'[page[r].user].roles = users[page[r].user].roles \union {x}
           /\ \A i \in Ids \ {page[r].user} : users'[i] = users[i]
BY KnownUser DEF Granted, TypeInv, TypeOK, Forms

LEMMA FormsAreUsers == \A f \in Forms : f # None
BY FormsAssumption

-----------------------------------------------------------------------------
(* AccountsInv                                                             *)

LEMMA UsersStayStep ==
    ASSUME TypeInv, NEW r \in Requests, Step(r) \/ Fault(r)
    PROVE  UsersStay
<1>1. CASE UNCHANGED users
  BY <1>1 DEF UsersStay
<1>2. ASSUME page[r].call = "create", NEW id \in Ids, Insert(r, id)
      PROVE  UsersStay
  BY <1>2, InsertedUser DEF UsersStay
<1>3. ASSUME page[r].call = "assign", NEW x \in Roles, Granted(r, x)
      PROVE  UsersStay
  BY <1>3, GrantedUser, FormsAreUsers DEF UsersStay
<1> QED BY <1>1, <1>2, <1>3, UsersChange, StoredRoles

LEMMA ProfilesStep ==
    ASSUME TypeInv, ProfilesHaveUsers, NEW r \in Requests, Step(r) \/ Fault(r)
    PROVE  ProfilesHaveUsers'
BY UsersStayStep, ProfilesChange, KnownUser
   DEF ProfilesHaveUsers, UsersStay, TypeInv, TypeOK

LEMMA RolesAreStoredStep ==
    ASSUME TypeInv, RolesAreStored, NEW r \in Requests, Step(r) \/ Fault(r)
    PROVE  RolesAreStored'
<1>1. Stored \subseteq Stored'
  BY RolesGrow DEF TypeInv
<1>2. CASE UNCHANGED users
  BY <1>1, <1>2 DEF RolesAreStored
<1>3. ASSUME page[r].call = "create", NEW id \in Ids, Insert(r, id)
      PROVE  RolesAreStored'
  BY <1>1, <1>3, InsertedUser DEF RolesAreStored
<1>4. ASSUME page[r].call = "assign", NEW x \in Stored, Granted(r, x)
      PROVE  RolesAreStored'
  BY <1>1, <1>4, GrantedUser, KnownUser, StoredRoles DEF RolesAreStored
<1> QED BY <1>2, <1>3, <1>4, UsersChange

\* The pages a page may turn into, as far as the two invariants about them go.
LEMMA CreatingNext ==
    ASSUME TypeInv, TypeInv', NEW r \in Requests, Step(r) \/ Fault(r),
           Creating(r)'
    PROVE  /\ page'[r].form = page[r].form
           /\ \/ /\ page[r].call = "create" /\ Insert(r, page'[r].user)
                 /\ page'[r].user \in Ids
                 /\ page'[r].todo = page[r].form.roles
              \/ /\ page[r].call = "assign" /\ Creating(r)
                 /\ page'[r].user = page[r].user
                 /\ \E x \in page[r].todo :
                       /\ page'[r].todo = page[r].todo \ {x}
                       /\ UNCHANGED users \/ Granted(r, x)
<1> DEFINE old == page[r]  new == page'[r]
<1>1. old \in Pages /\ PageOK(r, old) /\ page \in [Requests -> Pages]
  BY PageFields DEF TypeInv, TypeOK
<1>2. new.call \in {"assign", "addProfile"} /\ new.form # None
  BY DEF Creating
<1>3. Idle.call = "idle"
  BY DEF Idle
<1>4. ASSUME NEW call, call \notin {"assign", "addProfile"},
             WaitFor(r, Then(r, call))
      PROVE  FALSE
  BY <1>1, <1>2, <1>4 DEF WaitFor, Then, Pages
<1>5. ASSUME NEW answer, NEW rs, Answer(r, answer, rs)
      PROVE  FALSE
  BY <1>1, <1>2, <1>3, <1>5 DEF Answer
<1>6. CASE FindProfile(r)
  <2>1. WaitFor(r, Then(r, "addProfile"))
    BY <1>4, <1>5, <1>6 DEF FindProfile, GetRoles
  <2>2. new.form = None
    BY <1>1, <1>6, <2>1 DEF FindProfile, WaitFor, Then, PageOK, Pages
  <2> QED BY <1>2, <2>2
<1>7. CASE CreateUser(r)
  <2> DEFINE p(id) == [page[r] EXCEPT !.call = AfterCreate(page[r].form),
                                      !.user = id, !.todo = page[r].form.roles]
  <2>1. PICK id \in Ids : Insert(r, id) /\ WaitFor(r, p(id))
    BY <1>7 DEF CreateUser
  <2>2. new = p(id)
    BY <1>1, <2>1 DEF WaitFor
  <2>3. new.user = id /\ new.form = old.form /\ new.todo = old.form.roles
    BY <1>1, <2>2 DEF Pages
  <2> QED BY <1>7, <2>1, <2>3 DEF CreateUser
<1>8. CASE Assign(r)
  <2>1. old.form # None
    BY <1>1, <1>8 DEF Assign, PageOK
  <2> QED BY <1>1, <1>8, <2>1 DEF Assign, WaitFor, Pages, Creating, Granted
<1>9. ASSUME NEW call \in {"findRole", "rereadRoles"},
             NEW todo \in SUBSET Roles,
             WaitFor(r, [page[r] EXCEPT !.call = call, !.todo = todo])
      PROVE  FALSE
  BY <1>1, <1>2, <1>9 DEF WaitFor, Pages
<1>10. CASE ReadRoles(r) \/ FindRole(r) \/ CreateRole(r) \/ RereadRoles(r)
  <2>1. ASSUME WaitFor(r, AfterDefault(r))
        PROVE  FALSE
    <3>1. \/ WaitFor(r, [page[r] EXCEPT !.call = "findRole", !.todo = {"User"}])
          \/ WaitFor(r, [page[r] EXCEPT !.call = "rereadRoles", !.todo = {}])
      BY <2>1 DEF AfterDefault
    <3>2. {"User"} \in SUBSET Roles /\ {} \in SUBSET Roles
      BY DEF Roles
    <3> QED BY <1>9, <3>1, <3>2
  <2>2. CASE ReadRoles(r) \/ RereadRoles(r)
    BY <1>5, <1>9, <2>2 DEF ReadRoles, RereadRoles, Roles
  <2>3. CASE FindRole(r)
    BY <1>4, <2>1, <2>3 DEF FindRole
  <2>4. CASE CreateRole(r)
    BY <2>1, <2>4 DEF CreateRole
  <2> QED BY <1>10, <2>2, <2>3, <2>4
<1>11. CASE FindEmail(r) \/ FindName(r) \/ FindUser(r) \/ CreateUserRefused(r)
  BY <1>4, <1>5, <1>11
     DEF FindEmail, FindName, FindUser, CreateUserRefused
<1>12. CASE AddProfile(r) \/ Fault(r)
  BY <1>5, <1>12 DEF AddProfile, Fault
<1> QED BY <1>6, <1>7, <1>8, <1>10, <1>11, <1>12 DEF Step

LEMMA CreatedStep ==
    ASSUME TypeInv, TypeInv', CreatedAlone,
           NEW r \in Requests, Step(r) \/ Fault(r)
    PROVE  CreatedAlone'
<1>1. \A t \in Requests \ {r} : page'[t] = page[t]
  BY StepMoves DEF Moves, TypeInv, TypeOK
<1>2. \A t \in Requests : Creating(t) =>
          /\ page[t].user \in Ids /\ users[page[t].user] # None
          /\ users[page[t].user] \in Forms
  BY KnownUser DEF Creating
<1>3. ASSUME NEW t \in Requests \ {r}, Creating(t)
      PROVE  users'[page[t].user] = users[page[t].user]
  <2>1. CASE UNCHANGED users
    BY <2>1
  <2>2. ASSUME page[r].call = "create", NEW id \in Ids, Insert(r, id)
        PROVE  users'[page[t].user] = users[page[t].user]
    BY <1>2, <1>3, <2>2, InsertedUser
  <2>3. ASSUME page[r].call = "assign", NEW x \in Roles, Granted(r, x)
        PROVE  users'[page[t].user] = users[page[t].user]
    <3>1. Creating(r)
      BY <2>3, PageFields DEF Creating, TypeInv, PageOK
    <3>2. page[t].user # page[r].user
      BY <1>3, <3>1 DEF CreatedAlone
    <3> QED BY <1>2, <1>3, <2>3, <3>2, GrantedUser
  <2> QED BY <2>1, <2>2, <2>3, UsersChange, StoredRoles
<1>4. \A t \in Requests \ {r} : Creating(t)' <=> Creating(t)
  BY <1>1 DEF Creating
<1>5. ASSUME Creating(r)'
      PROVE  /\ users'[page'[r].user].name = page'[r].form.name
             /\ users'[page'[r].user].email = page'[r].form.email
             /\ users'[page'[r].user].roles \union page'[r].todo
                    \subseteq page'[r].form.roles
             /\ \A t \in Requests \ {r} :
                    Creating(t) => page'[r].user # page[t].user
  <2>1. page'[r].form = page[r].form
    BY <1>5, CreatingNext
  <2>2. CASE /\ page[r].call = "create" /\ Insert(r, page'[r].user)
             /\ page'[r].user \in Ids /\ page'[r].todo = page[r].form.roles
    BY <1>2, <2>1, <2>2, InsertedUser
  <2>3. ASSUME page[r].call = "assign", Creating(r),
               page'[r].user = page[r].user,
               NEW x \in page[r].todo, page'[r].todo = page[r].todo \ {x},
               UNCHANGED users \/ Granted(r, x)
        PROVE  /\ users'[page'[r].user].name = page'[r].form.name
               /\ users'[page'[r].user].email = page'[r].form.email
               /\ users'[page'[r].user].roles \union page'[r].todo
                      \subseteq page'[r].form.roles
               /\ \A t \in Requests \ {r} :
                      Creating(t) => page'[r].user # page[t].user
    <3>1. x \in Roles
      BY PageFields DEF TypeInv
    <3>2. /\ users[page[r].user].name = page[r].form.name
          /\ users[page[r].user].email = page[r].form.email
          /\ users[page[r].user].roles \union page[r].todo
                \subseteq page[r].form.roles
          /\ \A t \in Requests \ {r} :
                Creating(t) => page[r].user # page[t].user
      BY <2>3 DEF CreatedAlone
    <3>3. CASE UNCHANGED users
      BY <2>1, <2>3, <3>2, <3>3
    <3>4. CASE Granted(r, x)
      BY <2>1, <2>3, <3>1, <3>2, <3>4, GrantedUser
    <3> QED BY <2>3, <3>3, <3>4
  <2> QED BY <1>5, <2>2, <2>3, CreatingNext
<1> QED BY <1>1, <1>3, <1>4, <1>5 DEF CreatedAlone

LEMMA RolesKnownNext ==
    ASSUME TypeInv, TypeInv', NEW r \in Requests, RolesKnown(page[r]),
           Step(r) \/ Fault(r)
    PROVE  RolesKnown(page[r])'
<1> DEFINE old == page[r]  new == page'[r]
<1>1. old \in Pages /\ PageOK(r, old) /\ page \in [Requests -> Pages] /\ TypeOK
  BY PageFields DEF TypeInv, TypeOK
<1>2. Stored \subseteq Stored' /\ Stored \subseteq Roles /\ Stored' \subseteq Roles
  BY <1>1, RolesGrow DEF Stored
<1>3. /\ old.cache \subseteq Stored
      /\ old.call \in {"findRole", "createRole"} =>
            old.todo \in {Roles, {"User"}} /\ Roles \ old.todo \subseteq Stored
      /\ old.call = "rereadRoles" => Stored = Roles
  BY DEF RolesKnown
<1>4. ASSUME NEW answer, NEW rs, Answer(r, answer, rs)
      PROVE  RolesKnown(page[r])'
  BY <1>1, <1>4 DEF Answer, Idle, RolesKnown
<1>5. ASSUME NEW p \in Pages, WaitFor(r, p), p.cache = old.cache,
             p.call \notin {"findRole", "createRole", "rereadRoles"}
      PROVE  RolesKnown(page[r])'
  BY <1>1, <1>2, <1>3, <1>5 DEF WaitFor, RolesKnown
<1>6. ASSUME NEW call \in {"findName", "create", "findProfile", "addProfile",
                           "listRoles"},
             WaitFor(r, Then(r, call))
      PROVE  RolesKnown(page[r])'
  <2>1. call \in Calls
    BY DEF Calls
  <2> QED BY <1>1, <1>5, <1>6, <2>1, ThenPage
<1>7. ASSUME WaitFor(r, AfterDefault(r)),
             old.call \in {"findRole", "createRole"},
             NextDefault(r) \in Stored'
      PROVE  RolesKnown(page[r])'
  <2>1. CASE NextDefault(r) = "Admin"
    <3>1. new = [page[r] EXCEPT !.call = "findRole", !.todo = {"User"}]
      BY <1>1, <1>7, <2>1 DEF AfterDefault, WaitFor
    <3>2. new.call = "findRole" /\ new.todo = {"User"} /\ new.cache = old.cache
      BY <1>1, <3>1 DEF Pages
    <3> QED BY <1>2, <1>3, <1>7, <2>1, <3>2 DEF Roles, RolesKnown
  <2>2. CASE NextDefault(r) # "Admin"
    <3>1. new = [page[r] EXCEPT !.call = "rereadRoles", !.todo = {}]
      BY <1>1, <1>7, <2>2 DEF AfterDefault, WaitFor
    <3>2. new.call = "rereadRoles" /\ new.cache = old.cache
      BY <1>1, <3>1 DEF Pages
    <3>3. "Admin" \notin old.todo /\ NextDefault(r) = "User"
      BY <2>2 DEF NextDefault
    <3>4. "Admin" \in Stored
      BY <1>3, <1>7, <3>3 DEF Roles
    <3> QED BY <1>2, <1>3, <1>7, <3>2, <3>3, <3>4 DEF Roles, RolesKnown
  <2> QED BY <2>1, <2>2
<1>8. CASE FindEmail(r) \/ FindName(r) \/ FindUser(r)
  <2>1. \/ \E answer : Answer(r, answer, {})
        \/ \E call \in {"findName", "create", "findProfile"} :
              WaitFor(r, Then(r, call))
    BY <1>8 DEF FindEmail, FindName, FindUser
  <2> QED BY <1>4, <1>6, <2>1
<1>9. CASE FindProfile(r)
  <2>1. \/ \E rs : Answer(r, "shown", rs)
        \/ \E call \in {"addProfile", "listRoles"} : WaitFor(r, Then(r, call))
    BY <1>9 DEF FindProfile, GetRoles
  <2> QED BY <1>4, <1>6, <2>1
<1>10. CASE CreateUserRefused(r) \/ AddProfile(r) \/ RereadRoles(r) \/ Fault(r)
  BY <1>4, <1>10 DEF CreateUserRefused, AddProfile, RereadRoles, Fault
<1>11. CASE CreateUser(r)
  <2>1. PICK id \in Ids :
           new = [page[r] EXCEPT !.call = AfterCreate(page[r].form),
                                 !.user = id, !.todo = page[r].form.roles]
    BY <1>1, <1>11 DEF CreateUser, WaitFor
  <2>2. new.cache = old.cache /\ new.call \in {"assign", "addProfile"}
    BY <1>1, <2>1 DEF Pages, AfterCreate
  <2> QED BY <1>2, <1>3, <2>2 DEF RolesKnown
<1>12. CASE Assign(r)
  <2>1. PICK x \in page[r].todo :
           new = [page[r] EXCEPT
                    !.todo = page[r].todo \ {x},
                    !.call = IF page[r].todo \ {x} = {} THEN "addProfile" ELSE @]
    BY <1>1, <1>12 DEF Assign, WaitFor
  <2>2. new.cache = old.cache /\ new.call \in {"assign", "addProfile"}
    BY <1>1, <1>12, <2>1 DEF Pages, Assign
  <2> QED BY <1>2, <1>3, <2>2 DEF RolesKnown
<1>13. CASE ReadRoles(r)
  <2>1. CASE Stored # {}
    BY <1>4, <1>13, <2>1 DEF ReadRoles
  <2>2. CASE Stored = {}
    <3>1. new = [page[r] EXCEPT !.call = "findRole", !.todo = Roles]
      BY <1>1, <1>13, <2>2 DEF ReadRoles, WaitFor
    <3>2. new.call = "findRole" /\ new.todo = Roles /\ new.cache = old.cache
      BY <1>1, <3>1 DEF Pages
    <3> QED BY <1>2, <1>3, <3>2 DEF RolesKnown
  <2> QED BY <2>1, <2>2
<1>14. CASE FindRole(r)
  <2>1. CASE NextDefault(r) \in Stored
    BY <1>2, <1>7, <1>14, <2>1 DEF FindRole
  <2>2. CASE NextDefault(r) \notin Stored
    <3>1. new = Then(r, "createRole") /\ "createRole" \in Calls
      BY <1>1, <1>14, <2>2 DEF FindRole, WaitFor, Calls
    <3> QED BY <1>1, <1>2, <1>3, <1>14, <3>1, ThenPage DEF FindRole, RolesKnown
  <2> QED BY <2>1, <2>2
<1>15. CASE CreateRole(r)
  <2>1. NextDefault(r) \in Roles
    BY DEF NextDefault, Roles
  <2>2. NextDefault(r) \in Stored'
    BY <1>1, <1>2, <1>15, <2>1 DEF CreateRole, Stored, TypeOK
  <2> QED BY <1>7, <1>15, <2>2 DEF CreateRole
<1> QED
  BY <1>8, <1>9, <1>10, <1>11, <1>12, <1>13, <1>14, <1>15 DEF Step

LEMMA RolesStep ==
    ASSUME TypeInv, TypeInv', RolesStayThere,
           NEW r \in Requests, Step(r) \/ Fault(r)
    PROVE  RolesStayThere'
<1>1. Stored \subseteq Stored' /\ Stored' \subseteq Roles
  BY RolesGrow DEF TypeInv, Stored
<1>2. \A t \in Requests \ {r} : page'[t] = page[t]
  BY StepMoves DEF Moves, TypeInv, TypeOK
<1>3. \A t \in Requests \ {r} : RolesKnown(page[t])'
  BY <1>1, <1>2 DEF RolesStayThere, RolesKnown
<1> QED BY <1>3, RolesKnownNext DEF RolesStayThere

\* Opening a page, or refusing a form, changes no collection.
OpensNew(r) ==
    \/ RefuseForm(r)
    \/ \E form \in FormsOf[r] : Create(r, form)
    \/ \E id \in Ids : Profile(r, id)
    \/ ListRoles(r)

LEMMA OpensMoves ==
    ASSUME TypeOK, NEW r \in Requests, OpensNew(r)
    PROVE  /\ UNCHANGED <<users, profiles, roles>>
           /\ \A t \in Requests \ {r} : page'[t] = page[t]
           /\ page[r].call = "idle"
           /\ page'[r].call \in {"idle", "findEmail", "findUser", "listRoles"}
           /\ page'[r].cache \subseteq Stored
<1>1. page \in [Requests -> Pages]
  BY DEF TypeOK
<1>2. CASE RefuseForm(r)
  BY <1>1, <1>2 DEF RefuseForm, Answer, Idle
<1>3. ASSUME NEW form \in FormsOf[r], Create(r, form)
      PROVE  /\ page[r].call = "idle" /\ UNCHANGED <<users, profiles, roles>>
             /\ \A t \in Requests \ {r} : page'[t] = page[t]
             /\ page'[r].call = "findEmail" /\ page'[r].cache = Stored
  BY <1>1, <1>3 DEF Create, Open, Idle
<1>4. ASSUME NEW id \in Ids, Profile(r, id)
      PROVE  /\ page[r].call = "idle" /\ UNCHANGED <<users, profiles, roles>>
             /\ \A t \in Requests \ {r} : page'[t] = page[t]
             /\ page'[r].call = "findUser" /\ page'[r].cache = Stored
  BY <1>1, <1>4 DEF Profile, Open, Idle
<1>5. CASE ListRoles(r)
  BY <1>1, <1>5 DEF ListRoles, Answer, Idle
<1> QED BY <1>2, <1>3, <1>4, <1>5 DEF OpensNew

\* Any number of pages, whatever fails: profiles have their users, users have
\* stored roles, and what a page relies on stays true.
THEOREM AccountsConsistent == Spec => []AccountsInv
<1>1. Init => AccountsInv
  <2> SUFFICES ASSUME Init PROVE AccountsInv
    OBVIOUS
  <2>1. /\ profiles = {} /\ \A id \in Ids : users[id] = None
        /\ \A r \in Requests : page[r] = Idle
    BY DEF Init
  <2> QED
    BY <2>1 DEF AccountsInv, ProfilesHaveUsers, RolesAreStored, UsersStayKnown,
                CreatedAlone, Creating, RolesStayThere, RolesKnown, Idle
<1>2. TypeInv /\ TypeInv' /\ AccountsInv /\ [Next]_vars => AccountsInv'
  <2> SUFFICES ASSUME TypeInv, TypeInv', AccountsInv, [Next]_vars
               PROVE  AccountsInv'
    OBVIOUS
  <2>1. /\ TypeOK /\ UsersStayKnown'
        /\ ProfilesHaveUsers /\ RolesAreStored /\ CreatedAlone /\ RolesStayThere
    BY DEF TypeInv, AccountsInv
  <2>2. ASSUME NEW r \in Requests, Step(r) \/ Fault(r)
        PROVE  AccountsInv'
    BY <2>1, <2>2, ProfilesStep, RolesAreStoredStep, CreatedStep, RolesStep
       DEF AccountsInv
  <2>3. ASSUME NEW r \in Requests, OpensNew(r)
        PROVE  AccountsInv'
    <3>1. /\ UNCHANGED <<users, profiles, roles>>
          /\ \A t \in Requests \ {r} : page'[t] = page[t]
          /\ page'[r].call \in {"idle", "findEmail", "findUser", "listRoles"}
          /\ page'[r].cache \subseteq Stored
      BY <2>1, <2>3, OpensMoves
    <3>2. Stored' = Stored
      BY <3>1 DEF Stored
    <3>3. ProfilesHaveUsers' /\ RolesAreStored'
      BY <2>1, <3>1, <3>2 DEF ProfilesHaveUsers, RolesAreStored
    <3>4. CreatedAlone'
      BY <2>1, <3>1 DEF CreatedAlone, Creating
    <3>5. RolesStayThere'
      BY <2>1, <3>1, <3>2 DEF RolesStayThere, RolesKnown
    <3> QED BY <2>1, <3>3, <3>4, <3>5 DEF AccountsInv
  <2>4. CASE UNCHANGED vars
    BY <2>1, <2>4 DEF vars, AccountsInv, ProfilesHaveUsers, RolesAreStored, Stored,
                      CreatedAlone, Creating, RolesStayThere, RolesKnown
  <2> QED BY <2>2, <2>3, <2>4 DEF Next, OpensNew
<1> QED
  BY <1>1, <1>2, TypeCorrect, PTL DEF Spec, TypeInv

-----------------------------------------------------------------------------

(* Unique names and emails                                                *)

LEMMA FreeNext ==
    ASSUME TypeInv, TypeInv', NEW r \in Requests, FreeFor(page[r]),
           Step(r) \/ Fault(r)
    PROVE  FreeFor(page[r])'
<1>1. page[r] \in Pages /\ page \in [Requests -> Pages] /\ TypeOK
  BY PageFields DEF TypeInv, TypeOK
<1>2. CASE page'[r].call \notin {"findName", "create"}
  BY <1>2 DEF FreeFor
<1>3. CASE page'[r].call \in {"findName", "create"}
  <2>1. \A answer, rs : ~ Answer(r, answer, rs)
    BY <1>1, <1>3 DEF Answer, Idle
  <2>2. \A call \in {"findProfile", "addProfile", "listRoles", "createRole"} :
            ~ WaitFor(r, Then(r, call))
    <3>1. \A call \in Calls : WaitFor(r, Then(r, call)) => page'[r].call = call
      BY <1>1, ThenPage DEF WaitFor
    <3> QED BY <1>3, <3>1 DEF Calls
  <2>3. CASE FindEmail(r)
    <3>1. /\ page'[r] = Then(r, "findName") /\ "findName" \in Calls
          /\ UNCHANGED users
          /\ \A id \in Ids :
                users[id] # None => users[id].email # page[r].form.email
      BY <1>1, <2>1, <2>3 DEF FindEmail, WaitFor, Calls
    <3> QED BY <1>1, <3>1, ThenPage DEF FreeFor
  <2>4. CASE FindName(r)
    <3>1. /\ page'[r] = Then(r, "create") /\ "create" \in Calls
          /\ UNCHANGED users
          /\ \A id \in Ids :
                users[id] # None => users[id].name # page[r].form.name
      BY <1>1, <2>1, <2>4 DEF FindName, WaitFor, Calls
    <3> QED BY <1>1, <2>4, <3>1, ThenPage DEF FreeFor, FindName
  <2>5. CASE FindUser(r) \/ FindProfile(r)
    BY <2>1, <2>2, <2>5 DEF FindUser, FindProfile, GetRoles
  <2>6. CASE CreateUser(r)
    BY <1>1, <1>3, <2>6 DEF CreateUser, WaitFor, AfterCreate, Pages
  <2>7. CASE Assign(r)
    BY <1>1, <1>3, <2>7 DEF Assign, WaitFor, Pages
  <2>8. CASE CreateUserRefused(r) \/ AddProfile(r) \/ RereadRoles(r) \/ Fault(r)
    BY <2>1, <2>8 DEF CreateUserRefused, AddProfile, RereadRoles, Fault
  <2>9. ASSUME WaitFor(r, AfterDefault(r))
         PROVE  FALSE
    BY <1>1, <1>3, <2>9 DEF AfterDefault, WaitFor, Pages
  <2>10. CASE ReadRoles(r)
    BY <1>1, <1>3, <2>1, <2>10 DEF ReadRoles, WaitFor, Pages
  <2>11. CASE FindRole(r)
    BY <2>2, <2>9, <2>11 DEF FindRole
  <2>12. CASE CreateRole(r)
    BY <2>9, <2>12 DEF CreateRole
  <2> QED
    BY <2>3, <2>4, <2>5, <2>6, <2>7, <2>8, <2>10, <2>11, <2>12 DEF Step
<1> QED BY <1>2, <1>3

\* Between the lookups of a request and its insertion nobody else takes the
\* name or the email, if nobody else asks for it.
THEOREM NamesUniqueWhenAlone ==
    ASSUME Disjoint
    PROVE  Spec => []UniqueInv
<1>1. Init => UniqueInv
  BY DEF Init, UniqueInv, NamesUnique, FreeStaysFree, FreeFor
<1>2. TypeInv /\ TypeInv' /\ UniqueInv /\ [Next]_vars => UniqueInv'
  <2> SUFFICES ASSUME TypeInv, TypeInv', UniqueInv, [Next]_vars
               PROVE  UniqueInv'
    OBVIOUS
  <2>1. TypeOK /\ NamesUnique /\ FreeStaysFree
    BY DEF TypeInv, UniqueInv
  <2>2. ASSUME NEW r \in Requests, Step(r) \/ Fault(r)
        PROVE  UniqueInv'
    <3>1. FreeFor(page[r])'
      BY <2>1, <2>2, FreeNext DEF FreeStaysFree
    <3>2. \A t \in Requests \ {r} : page'[t] = page[t]
      BY <2>1, <2>2, StepMoves DEF Moves, TypeOK
    <3>3. CASE UNCHANGED users
      BY <2>1, <3>1, <3>2, <3>3
         DEF UniqueInv, NamesUnique, FreeStaysFree, FreeFor
    <3>4. ASSUME page[r].call = "create", NEW id \in Ids, Insert(r, id)
          PROVE  UniqueInv'
      <4>1. /\ page[r].form \in FormsOf[r] /\ page[r].form \in Forms
            /\ FreeFor(page[r])
        BY <2>1, <3>4, PageFields DEF PageOK, FreeStaysFree
      <4>2. /\ users'[id].name = page[r].form.name
            /\ users'[id].email = page[r].form.email
            /\ \A i \in Ids \ {id} : users'[i] = users[i]
        BY <3>4, InsertedUser
      <4>3. NamesUnique'
        BY <2>1, <3>4, <4>1, <4>2 DEF NamesUnique, FreeFor
      <4>4. ASSUME NEW t \in Requests \ {r}
            PROVE  FreeFor(page[t])'
        <5>1. page[t].call \in {"findName", "create"} =>
                  page[t].form \in FormsOf[t]
          BY <2>1, PageFields DEF PageOK
        <5>2. page[t].call \in {"findName", "create"} =>
                  /\ page[t].form.name # page[r].form.name
                  /\ page[t].form.email # page[r].form.email
          BY <4>1, <5>1 DEF Disjoint
        <5>3. FreeFor(page[t])
          BY <2>1 DEF FreeStaysFree
        <5> QED BY <3>2, <4>2, <5>2, <5>3 DEF FreeFor
      <4> QED BY <3>1, <4>3, <4>4 DEF UniqueInv, FreeStaysFree
    <3>5. ASSUME page[r].call = "assign", NEW x \in Roles, Granted(r, x)
          PROVE  UniqueInv'
      <4>1. \A i \in Ids : users'[i] # None =>
                /\ users[i] # None
                /\ users'[i].name = users[i].name
                /\ users'[i].email = users[i].email
        BY <3>5, GrantedUser, KnownUser
      <4>2. NamesUnique'
        BY <2>1, <4>1 DEF NamesUnique
      <4>3. \A t \in Requests \ {r} : FreeFor(page[t])'
        BY <2>1, <3>2, <4>1 DEF FreeStaysFree, FreeFor
      <4> QED BY <3>1, <4>2, <4>3 DEF UniqueInv, FreeStaysFree
    <3> QED BY <2>2, <3>3, <3>4, <3>5, UsersChange, StoredRoles
  <2>3. ASSUME NEW r \in Requests, OpensNew(r)
        PROVE  UniqueInv'
    BY <2>1, <2>3, OpensMoves
       DEF UniqueInv, NamesUnique, FreeStaysFree, FreeFor
  <2>4. CASE UNCHANGED vars
    BY <2>1, <2>4 DEF vars, UniqueInv, NamesUnique, FreeStaysFree, FreeFor
  <2> QED BY <2>2, <2>3, <2>4 DEF Next, OpensNew
<1> QED
  BY <1>1, <1>2, TypeCorrect, PTL DEF Spec, TypeInv

-----------------------------------------------------------------------------
(* The answers                                                             *)

\* A request is answered in a step of its own.
LEMMA AnsweredByStep ==
    ASSUME TypeInv, TypeInv', Next, NEW r \in Requests, NEW answer,
           Answered(r, answer)
    PROVE  Step(r) \/ Fault(r)
<1>1. TypeOK /\ page[r].call # "idle" /\ page'[r].call = "idle"
  BY DEF TypeInv, Answered
<1>2. PICK t \in Requests : OpensNew(t) \/ Step(t) \/ Fault(t)
  BY DEF Next, OpensNew
<1>3. t = r
  <2>1. SUFFICES ASSUME t # r PROVE page'[r] = page[r]
    BY <1>1
  <2>2. CASE OpensNew(t)
    BY <1>1, <2>1, <2>2, OpensMoves
  <2>3. CASE Step(t) \/ Fault(t)
    BY <1>1, <2>1, <2>3, StepMoves DEF Moves, TypeOK
  <2> QED BY <1>2, <2>2, <2>3
<1>4. ~ OpensNew(r)
  BY <1>1, OpensMoves
<1> QED BY <1>2, <1>3, <1>4

\* The steps that end with an answer that the properties are about.
LEMMA AnswersGiven ==
    ASSUME TypeInv, NEW r \in Requests, Step(r) \/ Fault(r),
           page'[r].call = "idle"
    PROVE  /\ reply'[r] = "created" =>
                 /\ page[r].call = "addProfile" /\ page[r].form # None
                 /\ profiles' = profiles \union {page[r].user}
                 /\ UNCHANGED users
           /\ reply'[r] = "shown" =>
                 \/ page[r].call = "findProfile" /\ page[r].cache # {}
                    /\ shown'[r] = page[r].cache
                 \/ page[r].call = "listRoles" /\ Stored # {}
                    /\ shown'[r] = Stored
                 \/ page[r].call = "rereadRoles" /\ shown'[r] = Stored
<1>1. /\ page \in [Requests -> Pages]
      /\ reply \in [Requests -> Answers] /\ shown \in [Requests -> SUBSET Roles]
      /\ page[r] \in Pages /\ TypeOK
  BY PageFields DEF TypeInv, TypeOK
<1>2. ASSUME NEW answer, NEW rs, Answer(r, answer, rs)
      PROVE  reply'[r] = answer /\ shown'[r] = rs
  BY <1>1, <1>2 DEF Answer
<1>3. \A call \in Calls \ {"idle"} : ~ WaitFor(r, Then(r, call))
  BY <1>1, ThenPage DEF WaitFor
<1>4. CASE AddProfile(r)
  <2>1. CASE page[r].user \in profiles
    <3>1. Answer(r, "notCreated", {})
      BY <1>4, <2>1 DEF AddProfile
    <3> QED BY <1>2, <3>1
  <2>2. CASE page[r].user \notin profiles
    <3>1. /\ page[r].call = "addProfile" /\ UNCHANGED users
          /\ profiles' = profiles \union {page[r].user}
          /\ Answer(r, IF page[r].form = None THEN "made" ELSE "created", {})
      BY <1>4, <2>2 DEF AddProfile
    <3> QED BY <1>2, <3>1
  <2> QED BY <2>1, <2>2
<1>5. CASE Fault(r)
  <2>1. PICK answer \in {"failed", "notCreated", "exception"} :
            Answer(r, answer, {})
    BY <1>5 DEF Fault
  <2> QED BY <1>2, <2>1
<1>6. CASE FindProfile(r)
  <2>1. ~ WaitFor(r, Then(r, "addProfile")) /\ ~ WaitFor(r, Then(r, "listRoles"))
    BY <1>3 DEF Calls
  <2>2. page[r].cache # {} /\ Answer(r, "shown", page[r].cache)
    BY <1>6, <2>1 DEF FindProfile, GetRoles
  <2> QED BY <1>2, <1>6, <2>2 DEF FindProfile
<1>7. CASE ReadRoles(r)
  <2>1. CASE Stored # {}
    BY <1>2, <1>7, <2>1 DEF ReadRoles
  <2>2. CASE Stored = {}
    BY <1>1, <1>7, <2>2 DEF ReadRoles, WaitFor, Pages
  <2> QED BY <2>1, <2>2
<1>8. CASE RereadRoles(r)
  BY <1>2, <1>8 DEF RereadRoles
<1>9. CASE FindEmail(r) \/ FindName(r)
  <2>1. ~ WaitFor(r, Then(r, "findName")) /\ ~ WaitFor(r, Then(r, "create"))
    BY <1>3 DEF Calls
  <2>2. Answer(r, "exists", {})
    BY <1>9, <2>1 DEF FindEmail, FindName
  <2> QED BY <1>2, <2>2
<1>10. CASE FindUser(r)
  <2>1. ~ WaitFor(r, Then(r, "findProfile"))
    BY <1>3 DEF Calls
  <2>2. Answer(r, "unknown", {})
    BY <1>10, <2>1 DEF FindUser
  <2> QED BY <1>2, <2>2
<1>11. CASE CreateUserRefused(r)
  BY <1>2, <1>11 DEF CreateUserRefused
<1>12. CASE CreateUser(r)
  BY <1>1, <1>12 DEF CreateUser, WaitFor, AfterCreate, Pages
<1>13. CASE Assign(r)
  BY <1>1, <1>13 DEF Assign, WaitFor, Pages
<1>14. ~ WaitFor(r, AfterDefault(r))
  BY <1>1 DEF AfterDefault, WaitFor, Pages
<1>15. CASE FindRole(r) \/ CreateRole(r)
  <2>1. ~ WaitFor(r, Then(r, "createRole"))
    BY <1>3 DEF Calls
  <2> QED BY <1>14, <1>15, <2>1 DEF FindRole, CreateRole
<1> QED
  BY <1>4, <1>5, <1>6, <1>7, <1>8, <1>9, <1>10, <1>11, <1>12, <1>13, <1>15
     DEF Step

\* Create answers Ok for a complete user only.
THEOREM CreatedUsersAreComplete == Spec => CreatedIsComplete
<1>1. TypeInv /\ TypeInv' /\ AccountsInv /\ [Next]_vars =>
          [\A r \in Requests : Answered(r, "created") =>
               /\ page[r].user \in profiles'
               /\ users'[page[r].user].name = page[r].form.name
               /\ users'[page[r].user].email = page[r].form.email
               /\ users'[page[r].user].roles \subseteq page[r].form.roles]_vars
  <2> SUFFICES ASSUME TypeInv, TypeInv', AccountsInv, Next,
                      NEW r \in Requests, Answered(r, "created")
               PROVE  /\ page[r].user \in profiles'
                      /\ users'[page[r].user].name = page[r].form.name
                      /\ users'[page[r].user].email = page[r].form.email
                      /\ users'[page[r].user].roles \subseteq page[r].form.roles
    OBVIOUS
  <2>1. Step(r) \/ Fault(r)
    BY AnsweredByStep
  <2>2. /\ page[r].call = "addProfile" /\ page[r].form # None
        /\ profiles' = profiles \union {page[r].user}
        /\ UNCHANGED users
    BY <2>1, AnswersGiven DEF Answered
  <2>3. Creating(r)
    BY <2>2 DEF Creating
  <2> QED BY <2>2, <2>3 DEF AccountsInv, CreatedAlone
<1> QED
  BY <1>1, TypeCorrect, AccountsConsistent, PTL
     DEF Spec, TypeInv, CreatedIsComplete

\* No list of roles is empty, and the page that had to create the default
\* roles answers with both, however many pages are creating them.
THEOREM RolesAreAnswered == Spec => RolesAnswered
<1>1. TypeInv /\ TypeInv' /\ AccountsInv /\ [Next]_vars =>
          [\A r \in Requests : Answered(r, "shown") =>
               /\ shown'[r] # {}
               /\ page[r].call = "rereadRoles" => shown'[r] = Roles]_vars
  <2> SUFFICES ASSUME TypeInv, TypeInv', AccountsInv, Next,
                      NEW r \in Requests, Answered(r, "shown")
               PROVE  /\ shown'[r] # {}
                      /\ page[r].call = "rereadRoles" => shown'[r] = Roles
    OBVIOUS
  <2>1. Step(r) \/ Fault(r)
    BY AnsweredByStep
  <2>2. page[r].call = "rereadRoles" => Stored = Roles
    BY DEF AccountsInv, RolesStayThere, RolesKnown
  <2> QED BY <2>1, <2>2, AnswersGiven DEF Answered, Roles
<1> QED
  BY <1>1, TypeCorrect, AccountsConsistent, PTL DEF Spec, TypeInv, RolesAnswered
=============================================================================
