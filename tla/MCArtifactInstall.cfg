SPECIFICATION FairSpec
CONSTANTS
    Installers = {i1}
    Loaders = {l1}
    Formats = {"file", "archive", "wheel"}
    Chunks = 2
    Faults = {"refused", "short", "long", "corrupt", "io"}
    Damages = {"download", "tree"}
    MaxFaults = 2
    MaxStops = 2
    MaxDamages = 1
    None = None
INVARIANTS
    ArtifactTypeOK
    OnlyPinnedIsTrusted
PROPERTIES
    LoadedIsWhole
    LoadedIsKept
    RepeatedInstallSucceeds
