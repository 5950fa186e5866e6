\* A claim of the repository that the code does not meet.
SPECIFICATION Spec
CONSTANTS
    r1 = r1  r2 = r2  l1 = l1  l2 = l2  l3 = l3
    Users = {u1}
    NoUser = NoUser
    Titles = {t1}
    Links = {l1}
    Names = {1}
    Ops = {"Edit", "Delete", "SetActive"}
    MaxBatch = 1
    Requests = {r1, r2}
    Targets <- AnyTargets
    NoLink = NoLink
    NoCommand = NoCommand
PROPERTY EditLeavesDeleted
