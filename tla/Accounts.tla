------------------------------ MODULE Accounts ------------------------------
(***************************************************************************)
(* User accounts as the pages of Deliscio.Web.Admin drive them: creating a *)
(* user (AuthService.CreateUserAsync) with a profile (UserProfilesService),*)
(* showing a profile, and listing the roles, which also creates the default*)
(* ones.  Each page is a request of its own, with an AuthService of its own*)
(* (services.AddScoped), and every await lets the other pages run.  No call*)
(* spans two collections, and nothing undoes what was done before a call   *)
(* that fails.                                                             *)
(*                                                                         *)
(* UserManager and RoleManager of ASP.NET Core Identity are external: they *)
(* find and create documents, and refuse what they find invalid.  Passwords*)
(* and sign-in are left out.  A role is its name; nothing removes a role, a*)
(* user or a profile.                                                      *)
(***************************************************************************)
EXTENDS Naturals

CONSTANTS
    Requests,
    Ids,        \* the ids of Auth_Users and of User_Profiles
    Names,
    Emails,
    FormsOf,    \* FormsOf[r]: the forms that r may send to Create
    None

Roles == {"Admin", "User"}
Forms == [name : Names, email : Emails, roles : SUBSET Roles]

ASSUME FormsAssumption ==
    /\ FormsOf \in [Requests -> SUBSET Forms]
    /\ None \notin Forms \union Ids

VARIABLES
    users,      \* users[id]: the document of Auth_Users, or None
    profiles,   \* the ids that have a document in User_Profiles
    roles,      \* roles[x]: how many documents of Auth_Roles have the name x
    page,       \* page[r]: what request r is doing
    reply,      \* reply[r]: how the last page of r was answered
    shown       \* shown[r]: the roles it was answered with

vars == <<users, profiles, roles, page, reply, shown>>

Calls == {"idle", "findEmail", "findName", "create", "assign", "addProfile",
          "findUser", "findProfile", "listRoles", "findRole", "createRole",
          "rereadRoles"}

\* call: what the request waits for; user: the id of the user it is about;
\* todo: the roles still to assign, or the default roles still to create;
\* cache: AuthService._availableRoles.
Pages == [call : Calls, form : Forms \union {None}, user : Ids \union {None},
          todo : SUBSET Roles, cache : SUBSET Roles]

Idle == [call |-> "idle", form |-> None, user |-> None,
         todo |-> {}, cache |-> {}]

Stored == {x \in Roles : roles[x] > 0}

Init ==
    /\ users = [id \in Ids |-> None]
    /\ profiles = {}
    /\ roles \in {[x \in Roles |-> n] : n \in {0, 1}}
    /\ page = [r \in Requests |-> Idle]
    /\ reply = [r \in Requests |-> "none"]
    /\ shown = [r \in Requests |-> {}]

-----------------------------------------------------------------------------
(* Steps of a request                                                      *)

Open(r, p) ==
    /\ page[r].call = "idle"
    /\ page' = [page EXCEPT ![r] = p]
    /\ reply' = [reply EXCEPT ![r] = "none"]
    /\ shown' = [shown EXCEPT ![r] = {}]
    /\ UNCHANGED <<users, profiles, roles>>

WaitFor(r, p) ==
    /\ page' = [page EXCEPT ![r] = p]
    /\ UNCHANGED <<reply, shown>>

Answer(r, answer, rs) ==
    /\ page' = [page EXCEPT ![r] = Idle]
    /\ reply' = [reply EXCEPT ![r] = answer]
    /\ shown' = [shown EXCEPT ![r] = rs]

\* The page waits for its next call.
Then(r, call) == [page[r] EXCEPT !.call = call]

-----------------------------------------------------------------------------
(* UsersController.Create                                                  *)

\* A field is missing.
RefuseForm(r) ==
    /\ page[r].call = "idle"
    /\ Answer(r, "badRequest", {})
    /\ UNCHANGED <<users, profiles, roles>>

\* The constructor of AuthService reads the roles (InitRoles).
Create(r, form) ==
    Open(r, [Idle EXCEPT !.call = "findEmail", !.form = form, !.cache = Stored])

\* Mutant: the first lookup decides.
EmailFree(r) ==
    /\ page[r].call = "findEmail"
    /\ IF \E id \in Ids :
             users[id] # None /\ users[id].email = page[r].form.email
       THEN Answer(r, "exists", {})
       ELSE WaitFor(r, Then(r, "create"))
    /\ UNCHANGED <<users, profiles, roles>>

\* DoesUserExistAsync looks for the email first, and then for the name.
FindEmail(r) ==
    /\ page[r].call = "findEmail"
    /\ IF \E id \in Ids :
             users[id] # None /\ users[id].email = page[r].form.email
       THEN Answer(r, "exists", {})
       ELSE WaitFor(r, Then(r, "findName"))
    /\ UNCHANGED <<users, profiles, roles>>

FindName(r) ==
    /\ page[r].call = "findName"
    /\ IF \E id \in Ids :
             users[id] # None /\ users[id].name = page[r].form.name
       THEN Answer(r, "exists", {})
       ELSE WaitFor(r, Then(r, "create"))
    /\ UNCHANGED <<users, profiles, roles>>

AfterCreate(form) == IF form.roles = {} THEN "addProfile" ELSE "assign"

Insert(r, id) ==
    /\ users[id] = None
    /\ users' = [users EXCEPT ![id] = [page[r].form EXCEPT !.roles = {}]]

\* UserManager.CreateAsync
CreateUser(r) ==
    /\ page[r].call = "create"
    /\ \E id \in Ids :
          /\ Insert(r, id)
          /\ WaitFor(r, [page[r] EXCEPT !.call = AfterCreate(page[r].form),
                                        !.user = id,
                                        !.todo = page[r].form.roles])
    /\ UNCHANGED <<profiles, roles>>

\* Identity does not accept the password, the name or the email.
CreateUserRefused(r) ==
    /\ page[r].call = "create"
    /\ Answer(r, "refused", {})
    /\ UNCHANGED <<users, profiles, roles>>

\* Mutant: a role that is not assigned is tried again.
AssignUntilDone(r) ==
    /\ page[r].call = "assign"
    /\ \E x \in page[r].todo :
          LET left == page[r].todo \ {x} IN
          \/ /\ x \in Stored
             /\ users' = [users EXCEPT ![page[r].user].roles = @ \union {x}]
             /\ WaitFor(r, [page[r] EXCEPT
                              !.todo = left,
                              !.call = IF left = {} THEN "addProfile" ELSE @])
          \/ UNCHANGED <<users, page, reply, shown>>
    /\ UNCHANGED <<profiles, roles>>

\* One round of the loop over the roles of the form: FindByIdAsync and
\* AddToRoleAsync.  A role that is not found or not saved is passed over.
Assign(r) ==
    /\ page[r].call = "assign"
    /\ \E x \in page[r].todo :
          LET left == page[r].todo \ {x} IN
          /\ \/ /\ x \in Stored
                /\ users' = [users EXCEPT ![page[r].user].roles = @ \union {x}]
             \/ UNCHANGED users
          /\ WaitFor(r, [page[r] EXCEPT
                           !.todo = left,
                           !.call = IF left = {} THEN "addProfile" ELSE @])
    /\ UNCHANGED <<profiles, roles>>

\* Mutant: what becomes of the profile is not looked at.
AddProfileUnchecked(r) ==
    /\ page[r].call = "addProfile"
    /\ \/ profiles' = profiles \union {page[r].user}
       \/ UNCHANGED profiles
    /\ Answer(r, IF page[r].form = None THEN "made" ELSE "created", {})
    /\ UNCHANGED <<users, roles>>

\* CreateNewUserProfile, for Create and for Profile.  The id of the profile is
\* that of the user, so that a second one is a duplicate key, which AddAsync
\* turns into a failed result and CreateNewUserProfile into an exception.
AddProfile(r) ==
    /\ page[r].call = "addProfile"
    /\ IF page[r].user \in profiles
       THEN /\ Answer(r, "notCreated", {})
            /\ UNCHANGED profiles
       ELSE /\ profiles' = profiles \union {page[r].user}
            /\ Answer(r, IF page[r].form = None THEN "made" ELSE "created", {})
    /\ UNCHANGED <<users, roles>>

-----------------------------------------------------------------------------
(* UsersController.Profile                                                 *)

Profile(r, id) ==
    Open(r, [Idle EXCEPT !.call = "findUser", !.user = id, !.cache = Stored])

\* Mutant: the answer of GetUserQuery is not looked at.
FindUserUnchecked(r) ==
    /\ page[r].call = "findUser"
    /\ WaitFor(r, Then(r, "findProfile"))
    /\ UNCHANGED <<users, profiles, roles>>

FindUser(r) ==
    /\ page[r].call = "findUser"
    /\ IF users[page[r].user] = None
       THEN Answer(r, "unknown", {})
       ELSE WaitFor(r, Then(r, "findProfile"))
    /\ UNCHANGED <<users, profiles, roles>>

\* AuthService.GetRolesAsync, up to its first call: the roles the constructor
\* read are the answer if there were any.
GetRoles(r) ==
    IF page[r].cache # {}
    THEN Answer(r, "shown", page[r].cache)
    ELSE WaitFor(r, Then(r, "listRoles"))

FindProfile(r) ==
    /\ page[r].call = "findProfile"
    /\ IF page[r].user \in profiles
       THEN GetRoles(r)
       ELSE WaitFor(r, Then(r, "addProfile"))
    /\ UNCHANGED <<users, profiles, roles>>

-----------------------------------------------------------------------------
(* The roles: UsersController.New, RolesController.Index                   *)

ListRoles(r) ==
    /\ page[r].call = "idle"
    /\ IF Stored # {}
       THEN Answer(r, "shown", Stored)
       ELSE /\ page' = [page EXCEPT ![r] = [Idle EXCEPT !.call = "listRoles"]]
            /\ reply' = [reply EXCEPT ![r] = "none"]
            /\ shown' = [shown EXCEPT ![r] = {}]
    /\ UNCHANGED <<users, profiles, roles>>

\* GetRolesAsync reads the roles again before it creates the default ones.
ReadRoles(r) ==
    /\ page[r].call = "listRoles"
    /\ IF Stored # {}
       THEN Answer(r, "shown", Stored)
       ELSE WaitFor(r, [page[r] EXCEPT !.call = "findRole", !.todo = Roles])
    /\ UNCHANGED <<users, profiles, roles>>

\* "Admin" is created before "User".
NextDefault(r) == IF "Admin" \in page[r].todo THEN "Admin" ELSE "User"

\* Mutant: a default role that is there already ends the creation.
AfterDefaultEnds(r) ==
    IF NextDefault(r) \in Stored \/ page[r].todo = {"User"}
    THEN [page[r] EXCEPT !.call = "rereadRoles", !.todo = {}]
    ELSE [page[r] EXCEPT !.call = "findRole", !.todo = {"User"}]

\* GetRolesAsync ignores what CreateRoleAsync answers.
AfterDefault(r) ==
    IF NextDefault(r) = "Admin"
    THEN [page[r] EXCEPT !.call = "findRole", !.todo = {"User"}]
    ELSE [page[r] EXCEPT !.call = "rereadRoles", !.todo = {}]

FindRole(r) ==
    /\ page[r].call = "findRole"
    /\ WaitFor(r, IF NextDefault(r) \in Stored
                  THEN AfterDefault(r) ELSE Then(r, "createRole"))
    /\ UNCHANGED <<users, profiles, roles>>

\* RoleManager.CreateAsync refuses nothing but a name that it finds.
CreateRole(r) ==
    /\ page[r].call = "createRole"
    /\ \/ roles' = [roles EXCEPT ![NextDefault(r)] = @ + 1]
       \/ NextDefault(r) \in Stored /\ UNCHANGED roles
    /\ WaitFor(r, AfterDefault(r))
    /\ UNCHANGED <<users, profiles>>

RereadRoles(r) ==
    /\ page[r].call = "rereadRoles"
    /\ Answer(r, "shown", Stored)
    /\ UNCHANGED <<users, profiles, roles>>

-----------------------------------------------------------------------------

Step(r) ==
    \/ FindEmail(r) \/ FindName(r)
    \/ CreateUser(r) \/ CreateUserRefused(r)
    \/ Assign(r) \/ AddProfile(r)
    \/ FindUser(r) \/ FindProfile(r)
    \/ ReadRoles(r) \/ FindRole(r) \/ CreateRole(r) \/ RereadRoles(r)

\* A call throws.  What it was to store may be stored all the same.
\* CreateUserAsync catches it, AddAsync too, the others let it pass.
Fault(r) ==
    LET call == page[r].call IN
    /\ call # "idle"
    /\ Answer(r, CASE call \in {"findEmail", "findName", "create", "assign"} ->
                          "failed"
                   [] call = "addProfile" -> "notCreated"
                   [] OTHER -> "exception", {})
    /\ \/ UNCHANGED <<users, profiles, roles>>
       \/ /\ call = "create"
          /\ \E id \in Ids : Insert(r, id)
          /\ UNCHANGED <<profiles, roles>>
       \/ /\ call = "assign"
          /\ \E x \in page[r].todo \intersect Stored :
                users' = [users EXCEPT ![page[r].user].roles = @ \union {x}]
          /\ UNCHANGED <<profiles, roles>>
       \/ /\ call = "addProfile"
          /\ profiles' = profiles \union {page[r].user}
          /\ UNCHANGED <<users, roles>>
       \/ /\ call = "createRole"
          /\ roles' = [roles EXCEPT ![NextDefault(r)] = @ + 1]
          /\ UNCHANGED <<users, profiles>>

Next ==
    \E r \in Requests :
        \/ RefuseForm(r)
        \/ \E form \in FormsOf[r] : Create(r, form)
        \/ \E id \in Ids : Profile(r, id)
        \/ ListRoles(r)
        \/ Step(r)
        \/ Fault(r)

Spec == Init /\ [][Next]_vars

\* Every call is answered: the database driver times out.
FairSpec == Spec /\ \A r \in Requests : WF_vars(Step(r))

-----------------------------------------------------------------------------

Answers == {"none", "badRequest", "exists", "refused", "failed", "created",
            "notCreated", "unknown", "made", "shown", "exception"}

PageOK(r, p) ==
    /\ p.call \in {"findEmail", "findName", "create", "assign"} => p.form # None
    /\ p.call \in {"assign", "addProfile", "findUser", "findProfile"} =>
           p.user # None
    /\ p.call \in {"findUser", "findProfile"} => p.form = None
    /\ p.call \in {"assign", "findRole", "createRole"} => p.todo # {}
    /\ p.form # None => p.form \in FormsOf[r]

TypeOK ==
    /\ users \in [Ids -> Forms \union {None}]
    /\ profiles \subseteq Ids
    /\ roles \in [Roles -> Nat]
    /\ page \in [Requests -> Pages]
    /\ reply \in [Requests -> Answers]
    /\ shown \in [Requests -> SUBSET Roles]
    /\ \A r \in Requests : PageOK(r, page[r])

\* No profile without its user, and no user with a role that is not stored,
\* whatever fails and whatever page of another request runs in between.
\* (CreateUserAsync and CreateNewUserProfile write one collection each.)
ProfilesHaveUsers == \A id \in profiles : users[id] # None

RolesAreStored ==
    \A id \in Ids : users[id] # None => users[id].roles \subseteq Stored

\* Behind it: the user a page is about stays there, ...
UsersStayKnown ==
    \A r \in Requests :
        page[r].call \in {"assign", "addProfile", "findProfile", "listRoles"} =>
            page[r].user = None \/ users[page[r].user] # None

\* ... a page that is creating a user is the only one, ...
Creating(r) == page[r].call \in {"assign", "addProfile"} /\ page[r].form # None

CreatedAlone ==
    /\ \A r \in Requests : Creating(r) =>
          /\ users[page[r].user].name = page[r].form.name
          /\ users[page[r].user].email = page[r].form.email
          /\ users[page[r].user].roles \union page[r].todo
                \subseteq page[r].form.roles
    /\ \A r, t \in Requests :
          r # t /\ Creating(r) /\ Creating(t) => page[r].user # page[t].user

\* ... and what a page has read or created of the roles stays there.
RolesKnown(p) ==
    /\ p.cache \subseteq Stored
    /\ p.call \in {"findRole", "createRole"} =>
          p.todo \in {Roles, {"User"}} /\ Roles \ p.todo \subseteq Stored
    /\ p.call = "rereadRoles" => Stored = Roles

RolesStayThere == \A r \in Requests : RolesKnown(page[r])

AccountsInv ==
    /\ ProfilesHaveUsers
    /\ RolesAreStored
    /\ UsersStayKnown
    /\ CreatedAlone
    /\ RolesStayThere

\* Request r is answered.
Answered(r, answer) ==
    page[r].call # "idle" /\ page'[r].call = "idle" /\ reply'[r] = answer

\* Create answers Ok only when the user is stored as the form has it, with no
\* role the form does not name, and with a profile.
CreatedIsComplete ==
    [][\A r \in Requests : Answered(r, "created") =>
           /\ page[r].user \in profiles'
           /\ users'[page[r].user].name = page[r].form.name
           /\ users'[page[r].user].email = page[r].form.email
           /\ users'[page[r].user].roles \subseteq page[r].form.roles]_vars

\* The page that had to create the default roles answers with both of them,
\* although the two are created in calls of their own, what the calls answer is
\* ignored, and other pages may be creating them as well.  A list of roles is
\* never empty.  (AuthService.GetRolesAsync)
RolesAnswered ==
    [][\A r \in Requests : Answered(r, "shown") =>
           /\ shown'[r] # {}
           /\ page[r].call = "rereadRoles" => shown'[r] = Roles]_vars

\* No two requests send forms with the same name or the same email.
Disjoint ==
    \A r, t \in Requests : r # t =>
        \A f \in FormsOf[r], g \in FormsOf[t] :
            f.name # g.name /\ f.email # g.email

\* A client that is alone with its names and emails never creates two users
\* with one of them, whatever it repeats after whatever failure.
\* (DoesUserExistAsync, then CreateAsync.)
NamesUnique ==
    \A i, j \in Ids : i # j /\ users[i] # None /\ users[j] # None =>
        users[i].name # users[j].name /\ users[i].email # users[j].email

\* The invariant behind it: what the lookups found free stays free.
FreeFor(p) ==
    \A id \in Ids : users[id] # None =>
        /\ p.call \in {"findName", "create"} => users[id].email # p.form.email
        /\ p.call = "create" => users[id].name # p.form.name

FreeStaysFree == \A r \in Requests : FreeFor(page[r])

UniqueInv == NamesUnique /\ FreeStaysFree

\* Every page is answered.
EveryPageAnswered ==
    \A r \in Requests : page[r].call # "idle" ~> page[r].call = "idle"
=============================================================================
