\* Two requests that share no link: each command is one atomic step, and each
\* is answered.
SPECIFICATION FairSpec
CONSTANTS
    r1 = r1  r2 = r2  l1 = l1  l2 = l2  l3 = l3
    Users = {u1}
    NoUser = NoUser
    Titles = {t1}
    Links = {l1, l2, l3}
    Names = {}
    Ops = {"Edit", "UnDelete", "SetActive", "DeleteLinks"}
    MaxBatch = 2
    Requests = {r1, r2}
    Targets <- SplitTargets
    NoLink = NoLink
    NoCommand = NoCommand
INVARIANT CopiesCurrent
PROPERTIES
    AtomicSpec
    DeletedFrozen
    EveryCommandAnswered
