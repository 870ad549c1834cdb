SPECIFICATION Spec
CONSTANTS
    Procs = {p1, p2}
    tokenizer = tokenizer
    local = local
    Packs = {tokenizer, local}
    Dependencies <- MCDependencies
    Companions <- MCCompanions
    Working = {1, 2}
    MaxBuilds = 2
    MaxInstalls = 2
    MaxRemovals = 1
    MaxEvents = 0
    None = None
\* Each of these is violated; uncomment one at a time.
INVARIANT DependencyIsExercised
\* INVARIANT FailureProvesRuntime
