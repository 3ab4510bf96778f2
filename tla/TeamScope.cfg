CONSTANTS
    Persona <- Registry
    Kind <- Kinds
    Immutable = {1}
    Priority <- Priorities
    Tokens <- TokensOf
    Excludes <- Exclusions
    TeamMin = 1
    TeamMax = 2
    MaxTeamSize = 3
    MaxTotalTokens = 5
    Cases <- AllCases
    Assessments <- SomeAssessments
    Asks <- Escalations
    Scopes <- SomeScopes
    Slots = 2
SPECIFICATION Spec
INVARIANT
    ScopeRespected
