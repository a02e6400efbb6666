\* A failed write of the second image of the combined bank is retried.
SPECIFICATION Spec
CONSTANTS
    FlashSize = 28
    SECTOR = 4
    FaultKinds = {"erase", "program"}
    MaxFaults = 1
    WORD = 1
    BankSwitch = FALSE
    BUF = 2
    PlainPacket = 1
    UUID = 0
    Wrap = 64
    DFU_HEADER_SIZE = 1
    MaxTemp = 4
    MaxIo = 1
    NoId = "none"
    Data <- MCData
    Released = {}
    Erased <- MCErased
    Torn <- MCTorn
    Image <- MCImage
    ImageId <- MCIds
    UserData <- MCUserData
    Total <- MCTotal
    TempBase <- MCBase
    TempSize <- MCSize
    UserLoop <- MCUserLoop
    Clients <- MCFaulty
    IdOf <- MCIdOf
    OldImage <- MCOld
PROPERTIES
    ValidatedKept
