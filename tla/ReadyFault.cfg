\* The write that sets an image ready fails.
SPECIFICATION Spec
CONSTANTS
    FlashSize = 34
    SECTOR = 8
    FaultKinds = {"ready"}
    MaxFaults = 1
    WORD = 1
    BankSwitch = TRUE
    BUF = 4
    PlainPacket = 3
    UUID = 1
    Wrap = 64
    DFU_HEADER_SIZE = 1
    MaxTemp = 1
    MaxIo = 1
    NoId = "none"
    Data <- MCData
    Released <- MCReleased
    Erased <- MCErased
    Torn <- MCTorn
    Image <- MCImage
    ImageId <- MCIds
    UserData <- MCUserData
    Total <- MCTotal
    TempBase <- MCBase
    TempSize <- MCSize
    UserLoop <- MCUserLoop
    Clients <- MCFaulty
    IdOf <- MCIdOf
    OldImage <- MCOld
INVARIANTS
    Bootable
