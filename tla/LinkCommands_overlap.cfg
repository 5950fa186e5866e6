\* Two requests on one link: every interleaving of two handlers.
SPECIFICATION Spec
CONSTANTS
    r1 = r1  r2 = r2  l1 = l1  l2 = l2  l3 = l3
    Users = {u1, u2}
    NoUser = NoUser
    Titles = {t1}
    Links = {l1}
    Names = {1}
    Ops = {"Edit", "Delete", "UnDelete", "SetActive", "SetFlagged", "DeleteLinks"}
    MaxBatch = 2
    Requests = {r1, r2}
    Targets <- AnyTargets
    NoLink = NoLink
    NoCommand = NoCommand
SYMMETRY UserSymmetry
INVARIANTS
    TypeOK
    Inv
PROPERTIES
    RemovedStaysRemoved
    ReportedAreDeleted
    CheckedOkMeansWritten
