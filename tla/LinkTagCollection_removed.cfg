SPECIFICATION TagsSpec
CONSTANTS
    Names = {1, 2}
    Dashed <- PlainNames
    MaxTags = 3
    MaxCount = 2
    MaxNames = 2
PROPERTY MergeRemovesAbsent
