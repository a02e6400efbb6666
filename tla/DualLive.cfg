\* Bank switching with a fault, a power loss and a lost connection, after which
\* the client may start over at once: the update still ends.
SPECIFICATION FairSpec
CONSTANTS
    FlashSize = 34
    SECTOR = 8
    FaultKinds = {"erase", "program"}
    MaxFaults = 1
    WORD = 1
    BankSwitch = TRUE
    BUF = 4
    PlainPacket = 3
    UUID = 1
    Wrap = 64
    DFU_HEADER_SIZE = 1
    MaxTemp = 1
    MaxIo = 1
    NoId = "none"
    Data <- MCData
    Released <- MCReleased
    Erased <- MCErased
    Torn <- MCTorn
    Image <- MCImage
    ImageId <- MCIds
    UserData <- MCUserData
    Total <- MCTotal
    TempBase <- MCBase
    TempSize <- MCSize
    UserLoop <- MCUserLoop
    Clients <- MCImpatient
    IdOf <- MCIdOf
    OldImage <- MCOld
PROPERTIES
    Completes
