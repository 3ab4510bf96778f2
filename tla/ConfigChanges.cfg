CONSTANTS
    Unset = Unset
    Absent = Absent
    Broken = Broken
    NoBlock = NoBlock
    NoRegistry = NoRegistry
    Builtins <- Shipped
    Defaults <- Standard
    PathCount = 2
    LongOverlay = {"long"}
    MaxTotalTokens = 3
    MaxToolCallsPerPersona = 2
    MaxFindingsPerPersona = 8
    Glob = {"md", "txt"}
    Changes <- ChangesOfOneArea
    SecurityRelevant = {"security", "config-guard"}
    SomeFiles <- Evidence
SPECIFICATION Spec
INVARIANTS
    GuardsStand
    LayersAreBounded
    LooserReviewIsFlagged
    WeakerTeamIsFlagged
    SameSettingsAreQuiet
