CONSTANTS
    r1 = r1
    r2 = r2
    Run = {r1, r2}
    Events <- AllEvents
    Echoes <- EchoEvents
    Settings <- SomeSettings
    Reviews <- SomeReviews
    DryRun = FALSE
SPECIFICATION Spec
INVARIANTS
    GuardCannotBePassed
