\* A client that sends its commands in any order, with one flash fault.
SPECIFICATION Spec
CONSTANTS
    FlashSize = 10
    SECTOR = 3
    FaultKinds = {"erase", "program"}
    MaxFaults = 1
    WORD = 2
    BankSwitch = TRUE
    BUF = 5
    PlainPacket = 2
    Wrap = 12
    UUID = 3
    DFU_HEADER_SIZE = 1
    MaxTemp = 1
    NoId = "none"
    Offsets = {0, 3}
    Totals = {6}
    Data <- MCData
    Released <- MCReleased
    Erased <- MCErased
    Torn <- MCTorn
    Image <- MCImage
    ImageId <- MCIds
    UserData <- MCUserData
    Total <- MCTotal
    TempBase <- MCBase
    TempSize <- MCSize
    UserLoop <- MCUserLoop
    Packets <- MCPackets
    StartFlash <- MCStart
INVARIANTS
    TypeOK
    BufferFits
    ResendAligned
    LockedBetween
PROPERTIES
    NoneReadied
