\* Three names, two of which are one once saved.
SPECIFICATION ObjectSpec
CONSTANTS
    Users = {u1, u2}
    NoUser = NoUser
    Titles = {t1}
    Names = {1, 2, 3}
    Dashed <- SlashedNames
    MaxBatch = 1
    MaxSaves = 1
    MaxEvents = 2
    MaxTags = 3
    MaxCount = 2
    MaxNames = 2
INVARIANTS
    DeletionFieldsAgree
    EventsTellHistory
    CleanNamesDistinct
    RoundTripSettles
PROPERTIES
    DeletedLinkFrozen
    WeightsFollowCounts
    MergeKeepsNamedAndLast
