SPECIFICATION Spec
CONSTANTS
    Installers = {i1, i2}
    Loaders = {l1}
    Formats = {"file", "archive", "wheel"}
    Chunks = 2
    Faults = {"long"}
    Damages = {"env"}
    MaxFaults = 1
    MaxStops = 1
    MaxDamages = 1
    None = None
\* Each of these is violated; uncomment one at a time.
PROPERTY PlacedIsFinal
\* PROPERTY QuarantineOnlyUntrusted
\* PROPERTY LoadedIsWhole
\* INVARIANT PartCanBeResumed
