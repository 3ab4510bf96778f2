CONSTANTS
    Context = 1
    Path <- Paths
    Pad <- Pads
    Text <- Texts
    Scenarios <- SomeScenarios
SPECIFICATION Spec
INVARIANTS
    QuotesAreReal
    TrueQuotesSurvive
    CitedStays
    AnchorsMatchTheDiff
