SPECIFICATION FairSpec
CONSTANTS
    Procs = {p1}
    tokenizer = tokenizer
    local = local
    Packs = {tokenizer, local}
    Dependencies <- MCDependencies
    Companions <- MCCompanions
    Working = {2}
    MaxBuilds = 2
    MaxInstalls = 3
    MaxRemovals = 1
    MaxEvents = 1
    None = None
INVARIANTS
    ReadinessTypeOK
    ReadyIsExercised
PROPERTIES
    ReadyIsKept
    ReadyInTheEnd
