SPECIFICATION FairSpec
CONSTANTS
    voice = voice
    codec = codec
    kokoro = kokoro
    Procs = {c1, c2}
    Packs = {voice, codec}
    Dependencies <- MCDependencies
    Shared = {}
    NFiles = 1
    Chunks = 3
    Operations = {"install"}
    Faults = {}
    Ops = {o1, o2, o3, o4}
    TrashIds = {}
    MaxRemovals = 0
    MaxStops = 1
    MaxRots = 0
    None = None
PROPERTY
    RetriedInstallSucceeds
