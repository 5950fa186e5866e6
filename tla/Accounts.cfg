SPECIFICATION FairSpec
CONSTANTS
    r1 = r1  r2 = r2  n1 = n1  n2 = n2  n3 = n3  e1 = e1  e2 = e2  e3 = e3
    Requests = {r1, r2}
    Ids = {1, 2}
    Names = {n1, n2, n3}
    Emails = {e1, e2, e3}
    FormsOf <- OwnForms
    None = None
INVARIANTS
    AccountsInv
    UniqueInv
PROPERTIES
    CreatedIsComplete
    RolesAnswered
    EveryPageAnswered
