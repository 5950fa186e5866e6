\* One administrator, two links, two calls under way, on either site.
SPECIFICATION SiteSpec
CONSTANTS
    Users = {u1}
    NoUser = NoUser
    Titles = {t1}
    Links = {l1, l2}
    Names = {}
    Ops = {"Edit", "UnDelete", "Delete", "SetActive", "DeleteLinks"}
    MaxBatch = 2
    Calls = {c1, c2}
    NoLink = NoLink
    NoCall = NoCall
    NoData = NoData
    Lost = Lost
    OldLinks = {l1, l2}
    OldCalls = {c1, c2}
    NoOldCall = NoOldCall
INVARIANTS
    ControlsAgree
    VisiblePanelAgrees
    StruckRowsDeleted
PROPERTY ToldMeansDone
SYMMETRY SiteSymmetry
