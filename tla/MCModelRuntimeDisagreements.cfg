SPECIFICATION RuntimeSpec
CONSTANTS
    Adapters = {fish, moss}
    Segments = {s1, s2}
    Probe = Probe
    None = None
    QueueSize = 1
    MaxLines = 0
    MaxRequests = 1
    MaxBreaks = 1
\* Each of these is violated; uncomment one at a time.
INVARIANT OneRuntimeLoaded
\* INVARIANT OwnerIsNeverStale
