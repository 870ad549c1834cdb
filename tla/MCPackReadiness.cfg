SPECIFICATION Spec
CONSTANTS
    Procs = {p1, p2}
    tokenizer = tokenizer
    local = local
    Packs = {tokenizer, local}
    Dependencies <- MCDependencies
    Companions <- MCCompanions
    Working = {1}
    MaxBuilds = 2
    MaxInstalls = 2
    MaxRemovals = 1
    MaxEvents = 1
    None = None
INVARIANTS
    ReadinessTypeOK
    ReadyIsExercised
PROPERTIES
    ReadyIsKept
