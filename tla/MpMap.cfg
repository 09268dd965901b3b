SPECIFICATION Spec
CONSTANTS
    Objects <- MCObjects
    Class <- MCClass
    Type <- MCType
    Hash <- MCHash
    Values = {"v", "w"}
    Sizes = {0, 2, 3}
    InitSizes = {0, 1}
    MaxAlloc = 7
INVARIANTS
    EveryKeyFound
    UsedCounts
PROPERTIES
    RefinesDict
