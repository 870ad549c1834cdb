SPECIFICATION Spec
CONSTANTS
    voice = voice
    codec = codec
    kokoro = kokoro
    Procs = {c1, c2}
    Packs = {voice}
    Dependencies <- MCDependencies
    Shared = {}
    NFiles = 2
    Chunks = 1
    Operations = {"install", "remove", "restore"}
    Faults = {"long"}
    Ops = {o1, o2, o3, o4, o5}
    TrashIds = {t1, t2}
    MaxRemovals = 2
    MaxStops = 1
    MaxRots = 1
    None = None
\* Each of these is violated; uncomment one at a time.
PROPERTY DamagedFileIsLeftAlone
\* INVARIANT CompleteMeansInstalled
\* INVARIANT PayloadIsRecoverable
\* INVARIANT TrashIsListable
\* INVARIANT PartCanBeFetched
\* This one with Packs = {voice}, NFiles = 1, Chunks = 3, Operations = {"install"},
\* Faults = {}, TrashIds = {}, MaxRemovals = 0, MaxStops = 1 and MaxRots = 0.
\* INVARIANT ResumedProgressIsAccepted
