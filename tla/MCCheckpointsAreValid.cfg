SPECIFICATION Spec
CONSTANTS
    Procs = {p1}
    Inputs = {a}
    NSections = 1
    Threads = 1
    MaxAttempts = 2
    Plans <- MCTightPlans
    Refusals <- MCRefusals
    Responses <- MCTexts
    Target = 2
    Tolerance = 0
    MaxFailures = 1
    MaxStops = 1
    None = None
INVARIANT CheckpointsAreValid
