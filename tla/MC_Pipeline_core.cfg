\* Construction, reader, parser worker, subscriber fanout, a user thread
\* subscribing, unsubscribing and reading the version, and ~Connection, with
\* reads that may fail.
CONSTANTS
    s1 = s1
    s2 = s2
    NumChunks <- MC_NumChunks
    Teardown <- MC_Teardown
    Hosts <- MC_Hosts
    Resolvable <- MC_Resolvable
    Ports <- MC_Ports
    Subs <- MC_Subs
    Reentrant <- MC_Reentrant
    ReadMayFail = TRUE
SPECIFICATION Spec
INVARIANTS
    TypeOK
    NoChunkLost
    NoFdLeak
PROPERTIES
    TeardownSafe
    ChunksProcessed
    NoCallAfterRemove
    ReaderStops
