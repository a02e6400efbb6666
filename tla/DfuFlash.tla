------------------------------ MODULE DfuFlash ------------------------------
(***************************************************************************)
(* Writing, erasing and validating images in the temporary bank: the       *)
(* functions of src/subsys/dfu/dfu_flash.c that the DFU service calls.     *)
(*                                                                         *)
(* An image is a sequence of cells; cell <<m, i>> is cell i of image m,    *)
(* and cell <<m, 0>> is its header, which says how long the image is.      *)
(***************************************************************************)
EXTENDS NorFlash

CONSTANTS
    Image,         \* the images that exist
    ImageId,       \* the image ids of the flash layout
    UserData,      \* IMAGE_USER_DATA and IMAGE_USER_DATA2
    Total,         \* Total[m]: payload_len + IMG_HEADER_SIZE of image m
    TempBase,      \* TempBase[id]: dfu_get_temp_ota_bank_addr_by_img_id, 0 for none
    TempSize,      \* TempSize[id]: dfu_get_temp_ota_bank_size_by_img_id
    Released,      \* the headers that the client sends with not_ready = 0
    UUID,          \* offsetof(T_IMG_HEADER_FORMAT, uuid), in cells
    Wrap,          \* 2^32, the width of offsets and addresses
    WORD,          \* the unit of lengths that dfu_update accepts (4 bytes)
    BankSwitch     \* is_ota_support_bank_switch()

ASSUME ImageAssumption == /\ Total \in [Image -> Nat \ {0}]
                          /\ UserData \subseteq ImageId
                          /\ TempBase \in [ImageId -> Nat]
                          /\ TempSize \in [ImageId -> Nat]
                          /\ \A id \in ImageId : TempBase[id] # 0 =>
                                /\ TempSize[id] # 0
                                /\ TempBase[id] + TempSize[id] <= FlashSize
                          /\ UUID \in Nat
                          /\ Wrap \in Nat /\ Wrap % SECTOR = 0 /\ FlashSize < Wrap
                          /\ WORD \in Nat \ {0}
                          /\ BankSwitch \in BOOLEAN

ASSUME DataAssumption == /\ Data = UNION {{m} \X (0 .. Total[m] - 1) : m \in Image}
                         /\ Released \subseteq Image \X {0}
                         /\ Erased \notin Data
                         /\ Torn \notin Data

\* Image m stands whole at address a.
IntactAt(n, m, a) ==
    \A i \in 0 .. Total[m] - 1 : a + i \in Addr /\ n.mem[a + i] = <<m, i>>

\* Whether the header that data starts with announces an image that fits:
\* what is no header, or left in the buffer from before, can say anything.
HeaderFits(data, size) ==
    IF data # << >> /\ data[1] \in Image \X {0} THEN {Total[data[1][1]] <= size} ELSE BOOLEAN

\* check_dfu_update_image_length: the header at offset 0 and the packet itself
\* must fit in the temporary bank of the image.  The sum is a uint32_t and wraps.
check_dfu_update_image_length(id, offset, data) ==
    LET size == TempSize[id]
        fits == (offset + Len(data)) % Wrap <= size
    IN  IF offset = 0
        THEN {h /\ fits : h \in HeaderFits(data, size)}
        ELSE {fits}

\* The first k cells of data read back as programmed.
Verified(n, start, data, clear, k) == \A i \in 1 .. k : ReadsBack(n, start, data, clear, i)

\* dfu_write without a flash fault: all of the data, or everything up to the
\* first cell that does not read back.  Under protection nothing happens.
CleanWrite(n, start, data, clear) ==
    IF n.bp THEN {Failed(n)}
    ELSE IF Verified(n, start, data, clear, Len(data))
    THEN {Done(ProgrammedUpTo(n, start, data, clear, Len(data)))}
    ELSE {Failed(ProgrammedUpTo(n, start, data, clear, k)) :
            k \in {j \in 1 .. Len(data) : /\ Verified(n, start, data, clear, j - 1)
                                          /\ ~ReadsBack(n, start, data, clear, j)}}

\* A flash of which cell x is spoilt; its ready bit may be cleared with it when
\* the data had it cleared.
SpoiltAt(n, x, bits) == {[n EXCEPT !.mem[x] = Torn, !.ready = @ \cup b] : b \in SUBSET bits}

\* What a write leaves that gets no further than cell k of the data, which is
\* as it was or spoilt.
HalfWritten(n, start, data, clear) ==
    UNION {LET upTo == ProgrammedUpTo(n, start, data, clear, k - 1)
               x    == start + k - 1
           IN  {upTo} \cup SpoiltAt(upTo, x, IF k \in clear THEN {x} ELSE {}) :
             k \in {j \in 1 .. Len(data) : /\ Verified(n, start, data, clear, j - 1)
                                           /\ start + j - 1 \in Addr}}

\* dfu_write cut short by a failing program operation.
FaultyWrite(n, start, data, clear) ==
    IF n.bp \/ ~CanFail(n, "program") THEN {}
    ELSE {Failed(Faulty(h)) : h \in HalfWritten(n, start, data, clear)}

\* dfu_write: page by page, each read back; it stops at the first that differs.
dfu_write(n, start, data, clear) ==
    CleanWrite(n, start, data, clear) \cup FaultyWrite(n, start, data, clear)

\* Wrong variant, for the mutation runs: not_ready is forced only for a cell more.
SentReadyLate(offset, data) ==
    {k \in 1 .. Len(data) : data[k] \in Released}
        \ (IF offset = 0 /\ Len(data) > UUID + 1 THEN {1} ELSE {})

\* The indices at which dfu_update writes a header with not_ready = 0.  It
\* forces the bit to 1 in a header at the start of the image, if the first
\* packet reaches beyond the uuid, and passes everything else on as it came.
SentReady(offset, data) ==
    {k \in 1 .. Len(data) : data[k] \in Released}
        \ (IF offset = 0 /\ Len(data) > UUID THEN {1} ELSE {})

\* Wrong variants, for the mutation runs: erase the sector in which the packet
\* ends, new or not; erase only when the packet crosses into the next one.
SectorToEraseAlways(start, length) == {((start + length) \div SECTOR) * SECTOR}
SectorToEraseCrossing(start, length) ==
    IF start \div SECTOR = (start + length) \div SECTOR THEN {}
    ELSE {((start + length) \div SECTOR) * SECTOR}

\* The sector that dfu_update erases before it writes length cells at start,
\* as a set of at most one address: the sector that starts there, or else the
\* next one when the packet reaches into it.
SectorToErase(start, length) ==
    LET end == (start + length) % Wrap
    IN  IF start % SECTOR = 0 THEN {start}
        ELSE {e \in {(end \div SECTOR) * SECTOR} :
                start \div SECTOR # end \div SECTOR /\ end % SECTOR # 0}

\* Where a packet goes: other images than the first of a temporary bank are
\* put after the ones before them.
StartAddr(id, offset, total_offset) == (TempBase[id] + offset + total_offset) % Wrap

\* Unlock the flash, and erase the sector that length cells at start enter.
EraseAhead(n, start, length) ==
    LET open   == unlock_flash_bp_all(n)
        sector == SectorToErase(start, length)
    IN  IF sector = {} THEN {Done(open)}
        ELSE UNION {dfu_flash_erase_sector(open, a) : a \in sector}

\* dfu_update refuses lengths that are no words, and images without a bank.
Refused(id, data) == Len(data) % WORD # 0 \/ TempBase[id] = 0

\* dfu_update: check, unlock, erase when a new sector is entered, write, lock.
\* When the erase fails it returns without locking.
dfu_update(n, id, offset, total_offset, data) ==
    LET start  == StartAddr(id, offset, total_offset)
        erased == EraseAhead(n, start, Len(data))
        wrote  == UNION {dfu_write(e.nor, start, data, SentReady(offset, data)) :
                           e \in {x \in erased : x.ok}}
    IN  IF Refused(id, data) THEN {Failed(n)}
        ELSE UNION {IF fits
                    THEN {e \in erased : ~e.ok}
                         \cup {[w EXCEPT !.nor = lock_flash_bp(@)] : w \in wrote}
                    ELSE {Failed(n)} :
                      fits \in check_dfu_update_image_length(id, offset, data)}

\* The flash when the power goes while dfu_update erases or writes.
UpdateCut(n, id, offset, total_offset, data) ==
    LET start  == StartAddr(id, offset, total_offset)
        erased == EraseAhead(n, start, Len(data))
    IN  IF Refused(id, data) \/ TRUE \notin check_dfu_update_image_length(id, offset, data)
        THEN {}
        ELSE (UNION {HalfErased(unlock_flash_bp_all(n), a) :
                       a \in SectorToErase(start, Len(data))})
             \cup UNION {HalfWritten(e.nor, start, data, SentReady(offset, data)) :
                           e \in {x \in erased : x.ok}}

\* dfu_flash_check_blank of the sector at a.
dfu_flash_check_blank(n, a) ==
    \A x \in a .. a + SECTOR - 1 : x \in Addr /\ n.mem[x] = Erased

\* Wrong variant, for the mutation runs: the round leaves the flash unlocked.
EraseRoundOpen(n, a) ==
    {[nor |-> e.nor, ok |-> dfu_flash_check_blank(e.nor, a)] :
       e \in dfu_flash_erase_sector(unlock_flash_bp_all(n), a)}

\* One round of the retry loop.  Only the blank check tells whether the erase
\* worked; its own result is ignored.
EraseRound(n, a) ==
    {[nor |-> lock_flash_bp(e.nor), ok |-> dfu_flash_check_blank(e.nor, a)] :
       e \in dfu_flash_erase_sector(unlock_flash_bp_all(n), a)}

EraseAgain(outcomes, a) ==
    {o \in outcomes : o.ok} \cup UNION {EraseRound(o.nor, a) : o \in {x \in outcomes : ~x.ok}}

\* dfu_flash_erase_sector_with_retry: three rounds at most.
dfu_flash_erase_sector_with_retry(n, id, offset) ==
    LET a == (TempBase[id] + offset) % Wrap
    IN  IF TempBase[id] = 0 THEN {Failed(n)}
        ELSE EraseAgain(EraseAgain(EraseRound(n, a), a), a)

\* The address of the header that dfu_check_checksum validates.
HeaderAddr(id, offset) == TempBase[id] + (IF BankSwitch THEN 0 ELSE offset)

\* Wrong variant, for the mutation runs: only the header is looked at.
HeaderChecked(n, id, offset) ==
    /\ TempBase[id] # 0
    /\ \E m \in Image : n.mem[HeaderAddr(id, offset)] = <<m, 0>>

\* dfu_check_checksum up to the point where it sets the image ready: the
\* SHA-256 over the length in the header, with not_ready read as 0, so it
\* passes exactly for a whole image.
dfu_check_checksum(n, id, offset) ==
    /\ TempBase[id] # 0
    /\ \E m \in Image : IntactAt(n, m, HeaderAddr(id, offset))

\* dfu_set_image_ready on every header of hs, one after the other.
dfu_set_image_ready(n, hs) ==
    IF hs = {} THEN {n}
    ELSE {lock_flash_bp(w) : w \in ClearNotReady(unlock_flash_bp_all(n), hs)}
=============================================================================
