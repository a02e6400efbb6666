\* No bank switching: two images in the combined temporary bank or user data in
\* a bank of its own, with power losses and lost connections, and a client that
\* may decline to activate them.
SPECIFICATION Spec
CONSTANTS
    FlashSize = 28
    SECTOR = 4
    FaultKinds = {"erase", "program"}
    MaxFaults = 0
    WORD = 1
    BankSwitch = FALSE
    BUF = 2
    PlainPacket = 1
    UUID = 0
    Wrap = 64
    DFU_HEADER_SIZE = 1
    MaxTemp = 4
    MaxIo = 1
    NoId = "none"
    Data <- MCData
    Released = {}
    Erased <- MCErased
    Torn <- MCTorn
    Image <- MCImage
    ImageId <- MCIds
    UserData <- MCUserData
    Total <- MCTotal
    TempBase <- MCBase
    TempSize <- MCSize
    UserLoop <- MCUserLoop
    Clients <- MCClients
    IdOf <- MCIdOf
    OldImage <- MCOld
INVARIANTS
    PrefixIntact
    ReadyIntact
    ActivatedReady
    DeclinedNotReady
PROPERTIES
    ValidatedKept
