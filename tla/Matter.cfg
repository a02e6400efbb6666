\* The whole update through blocks of any length, with a failing malloc or
\* write and a power loss or a download that is given up.
SPECIFICATION FairSpec
CONSTANTS
    Files <- MCFiles
    Id <- MCId
    BUF_SIZE = 8
    PACK_HEADER_LEN1 = 2
    SUB_HEADER = 1
    MP_HEADER_SIZE = 2
    Byte = 8
    MaxBlock = 3
    MaxFaults = 2
    MaxLosses = 1
    FaultKinds = {"malloc", "write"}
INVARIANTS
    TypeOK
    InStep
    RoomForBlock
    FinalizedWhole
    ReadyWhole
PROPERTIES
    UpdateRefinement
    Completes
