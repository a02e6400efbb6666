\* Bank switching with five clients: flash operations that fail, packets that go
\* wrong, power losses, lost connections, damage that the checksum misses, and a
\* client without buffer check.
SPECIFICATION Spec
CONSTANTS
    FlashSize = 34
    SECTOR = 8
    FaultKinds = {"erase", "program"}
    MaxFaults = 3
    WORD = 1
    BankSwitch = TRUE
    BUF = 4
    PlainPacket = 3
    UUID = 1
    Wrap = 64
    DFU_HEADER_SIZE = 1
    MaxTemp = 1
    MaxIo = 1
    NoId = "none"
    Data <- MCData
    Released <- MCReleased
    Erased <- MCErased
    Torn <- MCTorn
    Image <- MCImage
    ImageId <- MCIds
    UserData <- MCUserData
    Total <- MCTotal
    TempBase <- MCBase
    TempSize <- MCSize
    UserLoop <- MCUserLoop
    Clients <- MCClients
    IdOf <- MCIdOf
    OldImage <- MCOld
INVARIANTS
    TypeOK
    PrefixIntact
    InStep
    ResendPoint
    ReadyIntact
    NotReadyWhileSent
    Bootable
    FlashLocked
    InsideBanks
PROPERTIES
    UpdateRefinement
