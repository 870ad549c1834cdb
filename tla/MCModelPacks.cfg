SPECIFICATION Spec
SYMMETRY MCSymmetry
CONSTANTS
    voice = voice
    codec = codec
    kokoro = kokoro
    Procs = {c1, c2}
    Packs = {voice, kokoro}
    Dependencies <- MCDependencies
    Shared = {kokoro}
    NFiles = 1
    Chunks = 2
    Operations = {"install", "remove", "restore"}
    Faults = {"refused", "short", "long", "corrupt", "io"}
    Ops = {o1, o2, o3, o4}
    TrashIds = {t1}
    MaxRemovals = 1
    MaxStops = 2
    MaxRots = 1
    None = None
INVARIANTS
    PacksTypeOK
    OnlyVerifiedIsInstalled
    CompleteIsWhole
    TrashIsRestorable
PROPERTIES
    VerifiedBytesAreKept
