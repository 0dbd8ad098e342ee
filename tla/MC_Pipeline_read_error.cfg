\* A failing poll or recv in the reader thread ends the process.
CONSTANTS
    s1 = s1
    s2 = s2
    NumChunks <- MC_NumChunks
    Teardown <- MC_Teardown
    Hosts <- MC_Hosts
    Resolvable <- MC_Resolvable
    Ports <- MC_Ports
    Subs <- MC_Subs
    Reentrant <- MC_Reentrant
    ReadMayFail = TRUE
SPECIFICATION Spec
INVARIANT
    ReadErrorContained
