SPECIFICATION Spec
CONSTANTS
    Cells = 6
    Heap = 2
    CloudField <- MCCloudField
    Number = {"0"}
    MaxFields = 3
INVARIANTS TypeOK NothingForeign LongestDelivered
