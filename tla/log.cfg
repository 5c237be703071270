SPECIFICATION MCSpec
CONSTANTS
    r1 = r1
    None = None
    Junk = Junk
    ChunkSizes = {1, 2}
    Readers = {r1}
    MaxEvents = 2
    MaxBytes = 6
    MaxSeq = 3
    MaxFiles = 3
    MaxFails = 1
    MaxCrashes = 1
    MaxImports = 1
    BatchSize = 2
    WindowSize = 2
    SampleCap = 1
    ProbeRejected = {"delete"}
    PageSize = 2
    MaxToolEvents = 3
    MaxReplays = 3
    MaxKills = 1
INVARIANTS LogSound ReadExact ReplayExact RoundTrip
PROPERTY ImplementsStream
