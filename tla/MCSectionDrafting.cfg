SPECIFICATION FairSpec
CONSTANTS
    Procs = {p1}
    Inputs = {a, b}
    NSections = 3
    Threads = 2
    MaxAttempts = 2
    Plans <- MCPlans
    Refusals <- MCRefusals
    Responses <- MCResponses
    Target = 8
    Tolerance = 2
    MaxFailures = 1
    MaxStops = 1
    None = None
INVARIANTS
    DraftingTypeOK
PROPERTIES
    OnlyMissingIsAsked
    FulfilsPromise
    RepeatedDraftSucceeds
