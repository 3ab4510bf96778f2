CONSTANTS
    Finding = {1, 2, 3}
    Persona <- Roster
    Kind <- KindOf
    OptsOut <- OptOut
    MaxFindings <- Tight
    Ceiling = 50
    ConfigGuard = "config-guard"
    Topic = {"t", "u", "v"}
    Quote = {"q", "r"}
    MaxLine = 2
    MaxConfidence = 1
    RedactedTopic <- Redacted
    Emissions <- Suspicious
    Settings <- Gates
SPECIFICATION Spec
INVARIANT
    BlockersFullyJudged
