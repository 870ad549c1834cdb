SPECIFICATION FairRuntimeSpec
CONSTANTS
    Adapters = {fish, moss}
    Segments = {s1, s2}
    Probe = Probe
    None = None
    QueueSize = 2
    MaxLines = 2
    MaxRequests = 2
    MaxBreaks = 1
INVARIANTS
    RuntimeTypeOK
    OneRuntimeOfAnAdapter
    OwnerNamesHolder
    AudioIsOfItsSegment
PROPERTY
    EveryCallEnds
