CONSTANTS
    r1 = r1
    r2 = r2
    Run = {r1, r2}
    Fingerprint = {"p", "q", "s"}
    Reviews <- Overlapping
    Events = {"reopened", "summons"}
    Cap <- Caps
    MaxHistory = 2
    Retries = 1
SPECIFICATION FairSpec
INVARIANTS
    CompletedIsPublished
    SummaryComesLast
    NoRepeat
    CapHolds
    EachRunListedOnce
PROPERTIES
    EveryRunEnds
