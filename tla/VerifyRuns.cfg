CONSTANTS
    Finding = {1, 2, 3}
    Persona <- Roster
    Kind <- KindOf
    OptsOut <- OptOut
    MaxFindings <- Tight
    Ceiling = 50
    ConfigGuard = "config-guard"
    Topic = {"t", "u", "v"}
    Quote = {"q", "r"}
    MaxLine = 2
    MaxConfidence = 1
    RedactedTopic <- Redacted
    Emissions <- Emitted
    Settings <- Gates
SPECIFICATION Spec
INVARIANTS
    CertainBlockerGates
    OneSurvivorPerClaim
    NoFlaggedSurvivor
    FailureIsRedactionOrExit
    TruncationSparesTheStrong
    BlockerNeedsVerdict
PROPERTIES
    ImplementsScreening
