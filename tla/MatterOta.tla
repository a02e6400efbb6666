----------------------------- MODULE MatterOta -----------------------------
(***************************************************************************)
(* The Matter OTA processor (src/applications/matter_common/matter_ota.c): *)
(* a parser that takes an update file block by block, and puts the images  *)
(* for the bank that is not running into it.                               *)
(*                                                                         *)
(* A file is a pack header, with one sub header for each image, and then,  *)
(* image by image, an MP header and a payload.  The first half of the      *)
(* images is for bank 0, the second half holds the same images for bank 1. *)
(* What the buffer holds is a piece of the file that ends where the blocks *)
(* given so far end: buf_offset says where it starts.                      *)
(*                                                                         *)
(* External: the Matter SDK that calls the processor; the flash functions  *)
(* dfu_write_data_to_flash and dfu_checksum, which the repository does not *)
(* have; and the boot loader.  dfu_set_ready is dfu_flash.c:293.           *)
(***************************************************************************)
EXTENDS Naturals

CONSTANTS
    Files,          \* the update files, see FileAssumption
    Id,             \* the image ids in them
    BUF_SIZE,       \* MATTER_OTA_BUF_SIZE
    PACK_HEADER_LEN1,
    SUB_HEADER,     \* sizeof(T_SUB_FILE_HEADER)
    MP_HEADER_SIZE,
    Byte,           \* 2^8, at the scale of the lengths
    MaxBlock,       \* the longest block that the caller gives
    MaxFaults,      \* bound: failing flash operations, and mallocs
    MaxLosses,      \* bound: power losses and downloads given up
    FaultKinds      \* the operations that may fail: "malloc", "write", "ready"

\* A file has num images.  Image k has the id id[k], its MP header at start[k]
\* and size[k] of payload behind it; start[num + 1] is behind the last.  lacks
\* are the images whose MP header has no image id or no data length.  MP info
\* may follow the last image.
ASSUME FileAssumption ==
    \A f \in Files :
       /\ f.num \in Nat \ {0} /\ f.num % 2 = 0
       /\ f.size \in [1 .. f.num -> Nat \ {0}]
       /\ f.id \in [1 .. f.num -> Id]
       /\ \A k \in 1 .. f.num : f.id[k] = f.id[IF k > f.num \div 2 THEN k - (f.num \div 2)
                                                                  ELSE k + (f.num \div 2)]
       /\ \A j, k \in 1 .. f.num \div 2 : f.id[j] = f.id[k] => j = k
       /\ f.start \in [1 .. f.num + 1 -> Nat]
       /\ f.start[1] = PACK_HEADER_LEN1 + SUB_HEADER * f.num
       /\ \A k \in 1 .. f.num : f.start[k + 1] = f.start[k] + MP_HEADER_SIZE + f.size[k]
       /\ \A j, k \in 1 .. f.num + 1 : j < k => f.start[j] < f.start[k]
       /\ f.lacks \subseteq 1 .. f.num
       /\ f.length \in Nat
       /\ \A k \in 1 .. f.num + 1 : f.start[k] <= f.length

ASSUME SizeAssumption ==
    /\ \A n \in {BUF_SIZE, PACK_HEADER_LEN1, SUB_HEADER, MP_HEADER_SIZE, Byte, MaxBlock} :
          n \in Nat \ {0}
    /\ MaxFaults \in Nat /\ MaxLosses \in Nat

Bigger(a, b) == IF a > b THEN a ELSE b

\* What the processor relies on: headers of which the length fits in a uint8_t,
\* whole MP headers, no image so small that one block holds an MP header and all
\* of it, and a buffer for a block behind what the last one leaves there.
Fits(f) ==
    /\ f.start[1] < Byte
    /\ f.lacks = {}
    /\ \A k \in 1 .. f.num : MP_HEADER_SIZE + f.size[k] >= MaxBlock
    /\ Bigger(f.start[1], Bigger(MP_HEADER_SIZE, MaxBlock)) - 1 + MaxBlock <= BUF_SIZE

VARIABLES
    file,            \* the update
    active,          \* get_active_bank_num(), 0 or 1
    caller,          \* what the caller does
    given,           \* how much of the file it gave
    pc,              \* where rtk_matter_ota_process_block is, "return" outside
    state,           \* state of matter_ota_db, "NULL" when that is NULL
    buf_offset, sub_image_num, cur_image_index, cur_download_size,
    cur_image_id, cur_image_payload_size, is_data_valid,
    sub_headers,     \* whether p_sub_image_header holds the sub headers of the file
    i,               \* the counter of rtk_matter_ota_finalize
    from,            \* from[id]: the image of the file of which the other bank
                     \* holds a piece, 0 for what it held before
    stored,          \* stored[id]: how much of that image is right, from its start
    ready,           \* the ids whose image in the other bank has not_ready = 0
    checksum_readies,\* whether dfu_checksum sets the image ready that passes
    switched,        \* whether the boot loader went to the other bank
    faults, losses

db    == <<buf_offset, sub_image_num, cur_image_index, cur_download_size, cur_image_id,
           cur_image_payload_size, is_data_valid, sub_headers>>
flash == <<from, stored, ready>>
env   == <<file, active, checksum_readies>>
vars  == <<caller, given, pc, state, db, i, flash, env, switched, faults, losses>>

\* The images of the file for the bank that is not running.
Other == IF active = 0 THEN file.num \div 2 + 1 .. file.num ELSE 1 .. file.num \div 2

\* Which bank the boot loader takes: the other one when its images are all
\* ready, old ones or new, and some are of the update.  No reboot differs from
\* another in anything else.
BootsOther == /\ \A k \in Other : file.id[k] \in ready
              /\ \E k \in Other : from[file.id[k]] # 0

\* Any reset: the RAM is gone, and the boot loader runs on what the flash holds.
Reboot == /\ caller' = "idle" /\ pc' = "return" /\ state' = "NULL"
          /\ UNCHANGED <<given, db, i, env, faults>>
          /\ switched' = BootsOther'

CanFail(kind) == kind \in FaultKinds /\ faults < MaxFaults

Init == /\ file \in Files
        /\ active \in {0, 1}
        /\ caller = "idle" /\ given = 0
        /\ pc = "return" /\ state = "NULL"
        /\ buf_offset = 0 /\ sub_image_num = 0 /\ cur_image_index = 0
        /\ cur_download_size = 0 /\ cur_image_id = (CHOOSE x \in Id : TRUE) /\ cur_image_payload_size = 0
        /\ is_data_valid = FALSE /\ sub_headers = FALSE
        /\ i = 0
        /\ from = [x \in Id |-> 0] /\ stored = [x \in Id |-> 0]
        /\ ready \in {{}, Id}
        /\ checksum_readies \in BOOLEAN
        /\ switched = FALSE
        /\ faults = 0 /\ losses = 0

-----------------------------------------------------------------------------
(* rtk_matter_ota_prepare, abort, finalize and apply.                      *)

\* Only the fields that prepare sets start afresh; the others are not read
\* before the MP header sets them.
Prepare ==
    /\ caller = "idle" /\ ~switched
    /\ given' = 0
    /\ \/ /\ caller' = "download"
          /\ state' = "PACK_HEADER"
          /\ buf_offset' = 0 /\ sub_image_num' = 0 /\ cur_image_index' = 0
          /\ is_data_valid' = FALSE /\ sub_headers' = FALSE
          /\ UNCHANGED faults
       \/ /\ CanFail("malloc")
          /\ caller' = "failed"
          /\ faults' = faults + 1
          /\ UNCHANGED <<state, buf_offset, sub_image_num, cur_image_index, is_data_valid,
                         sub_headers>>
    /\ UNCHANGED <<pc, cur_download_size, cur_image_id, cur_image_payload_size, i, flash, env,
                   switched, losses>>

\* rtk_matter_ota_clear: matter_ota_db is NULL again.
Clear == state' = "NULL"

\* The caller gives up: after a block that was not processed, and at any time
\* between two blocks when the download fails.
Abort ==
    /\ pc = "return"
    /\ \/ caller = "failed" /\ UNCHANGED losses
       \/ caller = "download" /\ losses < MaxLosses /\ losses' = losses + 1
    /\ Clear
    /\ caller' = "idle"
    /\ UNCHANGED <<given, pc, db, i, flash, env, switched, faults>>

\* The caller gave the whole file.
Finalize == /\ caller = "download" /\ pc = "return" /\ given = file.length
            /\ caller' = "finalize"
            /\ i' = 0
            /\ UNCHANGED <<given, pc, state, db, flash, env, switched, faults, losses>>

\* Wrong variant, for the mutation runs: one image less for bank 0.
InOtherBankAfter(k) == \/ active = 0 /\ k > sub_image_num \div 2
                       \/ active = 1 /\ k < sub_image_num \div 2

\* Whether sub header k, counted from 0, is of the bank that is not running.
InOtherBank(k) == \/ active = 0 /\ k >= sub_image_num \div 2
                  \/ active = 1 /\ k < sub_image_num \div 2

\* One turn of the loop.  Nobody looks whether the ready bit was written.
FinalizeImage ==
    /\ caller = "finalize" /\ i < sub_image_num
    /\ i' = i + 1
    /\ IF InOtherBank(i)
       THEN \/ /\ \E x \in (IF sub_headers THEN {file.id[i + 1]} ELSE Id) : ready' = ready \cup {x}
               /\ UNCHANGED faults
            \/ CanFail("ready") /\ faults' = faults + 1 /\ UNCHANGED ready
       ELSE UNCHANGED <<ready, faults>>
    /\ UNCHANGED <<caller, given, pc, state, db, from, stored, env, switched, losses>>

FinalizeEnd == /\ caller = "finalize" /\ i >= sub_image_num
               /\ Clear
               /\ caller' = "apply"
               /\ UNCHANGED <<given, pc, db, i, flash, env, switched, faults, losses>>

\* rtk_matter_ota_apply is a reboot, and leaves no mark in the flash.
Apply == /\ caller = "apply"
         /\ UNCHANGED <<flash, losses>>
         /\ Reboot

-----------------------------------------------------------------------------
(* rtk_matter_ota_process_block, one function after the other.  Only a     *)
(* power loss comes between them.                                          *)

\* A function went well, and the next one runs.
Then(next) == pc' = next /\ UNCHANGED caller

\* Wrong variant, for the mutation runs: the caller is told that all went well.
BlockSuccess == Then("return")

\* The block is refused, and the caller is told.
BlockFailed == pc' = "return" /\ caller' = "failed"

\* The caller gives the next block, of at most MaxBlock.
\* rtk_matter_ota_append takes it into the buffer; MP info is dropped.
ProcessBlock(len) ==
    /\ caller = "download" /\ pc = "return"
    /\ given + len <= file.length
    /\ IF state = "MP_INFO"
       THEN /\ given' = given + len
            /\ UNCHANGED <<caller, pc, buf_offset>>
       ELSE IF buf_offset + len > BUF_SIZE
       THEN /\ BlockFailed
            /\ UNCHANGED <<given, buf_offset>>
       ELSE /\ given' = given + len
            /\ buf_offset' = buf_offset + len
            /\ Then("pack_header")
    /\ UNCHANGED <<state, sub_image_num, cur_image_index, cur_download_size, cur_image_id,
                   cur_image_payload_size, is_data_valid, sub_headers, i, flash, env, switched,
                   faults, losses>>

\* rtk_matter_ota_get_indicator_count, in a uint8_t.
Count == file.num % Byte

\* pack_header_len, in a uint8_t too.
PackHeaderLen == (PACK_HEADER_LEN1 + SUB_HEADER * sub_image_num') % Byte

\* rtk_matter_ota_process_pack_header.  The sub headers are copied to the end
\* also when the buffer holds them only in part.
ProcessPackHeader ==
    /\ pc = "pack_header"
    /\ IF state = "PACK_HEADER" /\ buf_offset >= PACK_HEADER_LEN1
       THEN /\ sub_image_num' = Count
            /\ \/ /\ Count # 0
                  /\ Then("mp_header")
                  /\ IF buf_offset >= PackHeaderLen
                     THEN /\ buf_offset' = buf_offset - PackHeaderLen
                          /\ sub_headers' = (buf_offset >= PACK_HEADER_LEN1 + SUB_HEADER * Count)
                          /\ cur_image_index' = 0
                          /\ state' = "IMAGE_HEADER"
                     ELSE UNCHANGED <<buf_offset, sub_headers, cur_image_index, state>>
                  /\ UNCHANGED faults
               \/ /\ Count = 0
                  /\ BlockFailed
                  /\ UNCHANGED <<buf_offset, sub_headers, cur_image_index, state, faults>>
               \/ /\ Count # 0 /\ sub_image_num = 0
                  /\ CanFail("malloc")
                  /\ BlockFailed
                  /\ faults' = faults + 1
                  /\ UNCHANGED <<buf_offset, sub_headers, cur_image_index, state>>
       ELSE /\ Then("mp_header")
            /\ UNCHANGED <<buf_offset, sub_image_num, sub_headers, cur_image_index, state, faults>>
    /\ UNCHANGED <<given, cur_download_size, cur_image_id, cur_image_payload_size,
                   is_data_valid, i, flash, env, switched, losses>>

\* Where the buffer starts in the file.
BufStart == given - buf_offset

\* What matter_ota_get_item_pos_from_header finds at the start of the buffer:
\* the id and the data length of an image, or, when that is no MP header,
\* anything.
HeaderAt(x, size) ==
    IF \E k \in 1 .. file.num : file.start[k] = BufStart
    THEN \E k \in (1 .. file.num) \ file.lacks :
            file.start[k] = BufStart /\ x = file.id[k] /\ size = file.size[k]
    ELSE TRUE

NoHeader == \/ \A k \in 1 .. file.num : file.start[k] # BufStart
            \/ \E k \in file.lacks : file.start[k] = BufStart

\* rtk_matter_ota_process_mp_header.
ProcessMpHeader ==
    /\ pc = "mp_header"
    /\ IF state = "IMAGE_HEADER" /\ buf_offset >= MP_HEADER_SIZE
       THEN \/ /\ cur_image_id' \in Id /\ cur_image_payload_size' \in 0 .. file.length
               /\ HeaderAt(cur_image_id', cur_image_payload_size')
               /\ buf_offset' = buf_offset - MP_HEADER_SIZE
               /\ is_data_valid' = InOtherBank(cur_image_index)
               /\ cur_download_size' = 0
               /\ state' = "IMAGE_PAYLOAD"
               /\ Then("payload")
            \/ /\ NoHeader
               /\ BlockFailed
               /\ UNCHANGED <<cur_image_id, cur_image_payload_size, buf_offset, is_data_valid,
                              cur_download_size, state>>
       ELSE /\ Then("payload")
            /\ UNCHANGED <<cur_image_id, cur_image_payload_size, buf_offset, is_data_valid,
                           cur_download_size, state>>
    /\ UNCHANGED <<given, sub_image_num, cur_image_index, sub_headers, i, flash, env, switched,
                   faults, losses>>

\* Whether the buffer starts at offset in the payload of image k.
AtPayload(k, offset) == file.start[k] + MP_HEADER_SIZE + offset = BufStart

\* dfu_write_data_to_flash of the first len of the buffer to the image x of the
\* other bank, at offset.  A write at offset 0 begins with an erase.  What is
\* not the next piece of the image makes the image wrong: nothing of it is
\* right any more.
Written(x, offset, len) ==
    LET next == {k \in 1 .. file.num : /\ AtPayload(k, offset)
                                       /\ offset + len <= file.size[k]
                                       /\ offset = 0 \/ (from[x] = k /\ stored[x] = offset)}
    IN  \/ \E k \in next : /\ from' = [from EXCEPT ![x] = k]
                           /\ stored' = [stored EXCEPT ![x] = offset + len]
        \/ /\ next = {}
           /\ from' = [from EXCEPT ![x] = 1]
           /\ stored' = [stored EXCEPT ![x] = 0]

\* A write that stops half way leaves the image wrong.
Spoilt(x, offset) ==
    /\ from' = [from EXCEPT ![x] = 1]
    /\ stored' = [stored EXCEPT ![x] = 0]
    /\ ready' = ready \ {y \in {x} : offset = 0}

\* A write that fails leaves the image as it was, or wrong.
WriteFailed(x, offset) ==
    /\ CanFail("write")
    /\ faults' = faults + 1
    /\ UNCHANGED flash \/ Spoilt(x, offset)

\* dfu_checksum passes for a whole image.
Checksum(x, fr, st) == \E k \in 1 .. file.num : /\ file.id[k] = x
                                                /\ fr[x] = k
                                                /\ st[x] = file.size[k]

\* Whether the image ends in the buffer, and how much of the buffer is of it.
Last == cur_download_size + buf_offset >= cur_image_payload_size

\* Wrong variants, for the mutation runs: the rest of the image, also when the
\* buffer does not hold it; nothing before the buffer holds all of the rest.
PayloadLenRest  == cur_image_payload_size - cur_download_size
PayloadLenWhole == IF Last THEN cur_image_payload_size - cur_download_size ELSE 0

PayloadLen == IF Last THEN cur_image_payload_size - cur_download_size ELSE buf_offset

\* Wrong variant, for the mutation runs: what follows the image in the buffer
\* is dropped.
PayloadDoneEmpty ==
    /\ cur_download_size' = cur_download_size + PayloadLen
    /\ buf_offset' = 0
    /\ IF Last THEN /\ cur_image_index' = cur_image_index + 1
                    /\ state' = IF cur_image_index + 1 < sub_image_num THEN "IMAGE_HEADER"
                                ELSE "MP_INFO"
       ELSE UNCHANGED <<cur_image_index, state>>
    /\ Then("return")

PayloadDone ==
    /\ cur_download_size' = cur_download_size + PayloadLen
    /\ buf_offset' = buf_offset - PayloadLen
    /\ IF Last THEN /\ cur_image_index' = cur_image_index + 1
                    /\ state' = IF cur_image_index + 1 < sub_image_num THEN "IMAGE_HEADER"
                                ELSE "MP_INFO"
       ELSE UNCHANGED <<cur_image_index, state>>
    /\ Then("return")

PayloadFailed == /\ BlockFailed
                 /\ UNCHANGED <<cur_download_size, buf_offset, cur_image_index, state>>

\* rtk_matter_ota_process_payload.  Nothing in the repository says whether
\* dfu_checksum sets the image ready.
ProcessPayload ==
    /\ pc = "payload"
    /\ IF state # "IMAGE_PAYLOAD"
       THEN /\ Then("return")
            /\ UNCHANGED <<cur_download_size, buf_offset, cur_image_index, state, flash, faults>>
       ELSE IF ~is_data_valid
       THEN PayloadDone /\ UNCHANGED <<flash, faults>>
       ELSE \/ /\ Written(cur_image_id, cur_download_size, PayloadLen)
               /\ UNCHANGED faults
               /\ LET kept == ready \ {y \in {cur_image_id} : cur_download_size = 0}
                  IN  IF Last /\ ~Checksum(cur_image_id, from', stored')
                      THEN PayloadFailed /\ ready' = kept
                      ELSE /\ PayloadDone
                           /\ \/ ready' = kept
                              \/ /\ Last /\ checksum_readies
                                 /\ ready' = kept \cup {cur_image_id}
            \/ /\ WriteFailed(cur_image_id, cur_download_size)
               /\ PayloadFailed
    /\ UNCHANGED <<given, sub_image_num, cur_image_id, cur_image_payload_size, is_data_valid,
                   sub_headers, i, env, switched, losses>>

\* A power loss or any other reset that nobody asked for, also in the middle of
\* a write.
PowerLoss == /\ ~switched /\ losses < MaxLosses
             /\ losses' = losses + 1
             /\ \/ UNCHANGED flash
                \/ /\ pc = "payload" /\ state = "IMAGE_PAYLOAD" /\ is_data_valid
                   /\ Spoilt(cur_image_id, cur_download_size)
             /\ Reboot

\* The device runs what the other bank held.
Over == switched /\ UNCHANGED vars

Step == \/ Prepare \/ Finalize \/ FinalizeImage \/ FinalizeEnd \/ Apply
        \/ \E len \in 1 .. MaxBlock : ProcessBlock(len)
        \/ ProcessPackHeader \/ ProcessMpHeader \/ ProcessPayload
        \/ Abort
Next == Step \/ PowerLoss \/ Over

Spec == Init /\ [][Next]_vars

\* The caller goes on as long as it can, and starts again after a failure.
FairSpec == Spec /\ WF_vars(Step)

-----------------------------------------------------------------------------
\* Image k of the file stands whole in the other bank.
Whole(k) == from[file.id[k]] = k /\ stored[file.id[k]] = file.size[k]

TypeOK ==
    /\ file \in Files /\ active \in {0, 1}
    /\ caller \in {"idle", "download", "failed", "finalize", "apply"}
    /\ given \in 0 .. file.length
    /\ pc \in {"return", "pack_header", "mp_header", "payload"}
    /\ state \in {"NULL", "PACK_HEADER", "IMAGE_HEADER", "IMAGE_PAYLOAD", "MP_INFO"}
    /\ buf_offset \in 0 .. BUF_SIZE
    /\ sub_image_num \in Nat /\ cur_image_index \in Nat
    /\ cur_download_size \in Nat /\ cur_image_payload_size \in Nat
    /\ cur_image_id \in Id
    /\ is_data_valid \in BOOLEAN /\ sub_headers \in BOOLEAN
    /\ i \in Nat
    /\ from \in [Id -> Nat] /\ stored \in [Id -> Nat]
    /\ ready \subseteq Id
    /\ checksum_readies \in BOOLEAN /\ switched \in BOOLEAN
    /\ faults \in 0 .. MaxFaults /\ losses \in 0 .. MaxLosses

\* The parser takes every piece of the file for what it is, however the file is
\* cut into blocks: headers are read where headers are, and a payload is written
\* at its place of the right image and bank (matter_ota.c:152-344).
InStep ==
    caller = "download" =>
       /\ state = "PACK_HEADER" => BufStart = 0
       /\ state = "IMAGE_HEADER" => BufStart = file.start[cur_image_index + 1]
       /\ state = "IMAGE_PAYLOAD" =>
             LET k == cur_image_index + 1 IN
             /\ AtPayload(k, cur_download_size)
             /\ cur_image_id = file.id[k] /\ cur_image_payload_size = file.size[k]
             /\ is_data_valid <=> k \in Other
             /\ is_data_valid /\ cur_download_size > 0 =>
                   from[cur_image_id] = k /\ stored[cur_image_id] = cur_download_size

\* The next block fits in the buffer, whatever is left there: a good download
\* is never refused (matter_ota.c:115).
RoomForBlock == (caller = "download" /\ pc = "return" /\ state # "MP_INFO") =>
                    buf_offset + MaxBlock <= BUF_SIZE

\* rtk_matter_ota_finalize says success ("Complete the OTA image download
\* process. @retval 0 On success", matter_ota.h:43) only when every image of the
\* other bank is whole and ready, and so the reboot finds them.
FinalizedWhole == caller = "apply" =>
                      \A k \in Other : Whole(k) /\ file.id[k] \in ready

\* An image of the other bank that is ready is a whole one: the one from before
\* the update, or the one of the file.
ReadyWhole == \A k \in Other : file.id[k] \in ready => from[file.id[k]] = 0 \/ Whole(k)

\* The processor implements OtaUpdate.
Update == INSTANCE OtaUpdate WITH
              images <- Other,
              held   <- {k \in Other : Whole(k) /\ file.id[k] \in ready}

\* The boot loader finds the new images all or nothing, at every reboot: also
\* after a power loss between two turns of the loop of finalize, or before apply
\* (matter_ota.c:407-428), after a download given up, and after a failing write.
\* Old images that are still ready in the other bank do not mix with new ones.
\* This needs a dfu_checksum that leaves the ready bit alone: one that sets it
\* makes each new image ready beside the old ones not yet written.
UpdateRefinement ==
    Update!UpdateInit /\ [][checksum_readies \/ Update!UpdateNext]_(Update!updateVars)

\* A file that fits is installed in the end: the parser never waits for a piece
\* that does not come, and never refuses one.
Completes == Fits(file) ~> switched
=============================================================================
