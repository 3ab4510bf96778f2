CONSTANTS
    r1 = r1
    r2 = r2
    Reader <- Readers
    Key <- Sources
    Size <- FileSize
    Binary = {"blob"}
    Absent = {}
    MaxFileBytes = 3
    MaxTotalContentBytes = 4
SPECIFICATION Spec
INVARIANTS
    TotalBounded
    PaidOncePerReader
PROPERTIES
    SettledForGood
