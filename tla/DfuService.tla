----------------------------- MODULE DfuService -----------------------------
(***************************************************************************)
(* The DFU GATT service (src/subsys/dfu/dfu_service.c): what the Bluetooth *)
(* thread does for each write to the packet characteristic and for each    *)
(* command on the control point, in the silent-OTA build (bank switching   *)
(* or a combined temporary bank, buffer check compiled in).                *)
(*                                                                         *)
(* One action is one call of dfu_srv_write_cb: it runs in the Bluetooth    *)
(* thread from start to end.  The variables keep their names from the      *)
(* source; the flash is the record of NorFlash.                            *)
(***************************************************************************)
EXTENDS DfuFlash, Integers

CONSTANTS
    BUF,           \* DFU_TEMP_BUFFER_SIZE
    PlainPacket,   \* the packet length of a client without buffer check (20 bytes)
    DFU_HEADER_SIZE, \* the control header of an image, in cells
    MaxTemp,       \* entries of temp_image_info
    NoId,          \* the image id of a device that got none yet
    UserLoop       \* the ids that the loop of dfu_service_handle_active_image visits

ASSUME ServiceAssumption == /\ BUF \in Nat \ {0}
                            /\ PlainPacket \in Nat \ {0}
                            /\ MaxTemp \in Nat \ {0}
                            /\ NoId \in ImageId
                            /\ TempBase[NoId] = 0
                            /\ UserLoop \subseteq ImageId

VARIABLES
    nor,                 \* the flash
    power,               \* "on", or why the device is resetting
    is_ota_procedure,    \* a START_DFU was accepted
    buffer_check_en,     \* the client uses the buffer check
    ota_temp_buffer,     \* the first g_ota_tmp_buf_used_size cells of the buffer
    cur_offset,          \* g_dfu_para.cur_offset: how much of the image is written
    dfu_resend_offset,   \* where a failed write sends the client back to
    image_id,            \* g_dfu_para.ctrl_header.image_id
    image_total_length,  \* g_dfu_para.image_total_length
    temp_image_num,      \* images validated in the combined temporary bank
    temp_image_info,     \* image_id, image_size and image_offset of each
    conn_para_update,    \* dfu_conn_para_update_in_progress
    notif                \* the notifications on their way to the client

sessionVars == <<is_ota_procedure, buffer_check_en, ota_temp_buffer, cur_offset,
                 dfu_resend_offset, image_id, image_total_length>>
tempVars    == <<temp_image_num, temp_image_info>>
ramVars     == <<sessionVars, tempVars, conn_para_update>>
dfuVars     == <<nor, power, ramVars, notif>>

Used == Len(ota_temp_buffer)

\* Offsets are uint32_t: subtraction wraps.
Minus(a, b) == (a - b) % Wrap

\* Without buffer check the buffer is used up to a whole number of packets.
PlainMax == BUF - (BUF % PlainPacket)

NoEntry == [image_id |-> NoId, image_size |-> 0, image_offset |-> 0]

\* The RAM of a device that just booted.
RamInit == /\ is_ota_procedure = FALSE
           /\ buffer_check_en = FALSE
           /\ ota_temp_buffer = << >>
           /\ cur_offset = 0
           /\ dfu_resend_offset = 0
           /\ image_id = NoId
           /\ image_total_length = 0
           /\ temp_image_num = 0
           /\ temp_image_info = [i \in 0 .. MaxTemp - 1 |-> NoEntry]
           /\ conn_para_update = FALSE
           /\ notif = << >>

\* A reset clears the RAM.
RamReset == /\ is_ota_procedure' = FALSE
            /\ buffer_check_en' = FALSE
            /\ ota_temp_buffer' = << >>
            /\ cur_offset' = 0
            /\ dfu_resend_offset' = 0
            /\ image_id' = NoId
            /\ image_total_length' = 0
            /\ temp_image_num' = 0
            /\ temp_image_info' = [i \in 0 .. MaxTemp - 1 |-> NoEntry]
            /\ conn_para_update' = FALSE
            /\ notif' = << >>

Notify(op, res, off) == notif' = Append(notif, [op |-> op, res |-> res, off |-> off])

\* dfu_fw_reboot: the watchdog resets the chip, and the call never returns.
dfu_fw_reboot(is_active_fw) == power' = IF is_active_fw THEN "active" ELSE "fail"

Running == power = "on"

-----------------------------------------------------------------------------
(* The packet characteristic.                                              *)

\* Packets outside a DFU procedure are dropped.
PacketIgnored == /\ Running
                 /\ ~is_ota_procedure
                 /\ UNCHANGED dfuVars

\* Wrong variant, for the mutation runs: the buffer is not checked for room.
PacketBufferedUnchecked(data) ==
    /\ Running
    /\ is_ota_procedure
    /\ buffer_check_en
    /\ ota_temp_buffer' = ota_temp_buffer \o data
    /\ UNCHANGED <<nor, power, is_ota_procedure, buffer_check_en, cur_offset, dfu_resend_offset,
                   image_id, image_total_length, tempVars, conn_para_update, notif>>

\* With buffer check a packet is collected, and one that does not fit resets
\* the device.
PacketBuffered(data) ==
    /\ Running
    /\ is_ota_procedure
    /\ buffer_check_en
    /\ IF Used + Len(data) > BUF
       THEN /\ dfu_fw_reboot(FALSE)
            /\ UNCHANGED ota_temp_buffer
       ELSE /\ ota_temp_buffer' = ota_temp_buffer \o data
            /\ UNCHANGED power
    /\ UNCHANGED <<nor, is_ota_procedure, buffer_check_en, cur_offset, dfu_resend_offset,
                   image_id, image_total_length, tempVars, conn_para_update, notif>>

\* The offset of the image in the combined temporary bank that dfu_update gets.
EntryOffset == temp_image_info[temp_image_num].image_offset

\* Without buffer check a packet that would overflow the buffer or the image
\* resets the device; one that fills the buffer or ends the image is flushed
\* to the flash, and a failing flush resets the device too.
PacketPlain(data) ==
    LET filled == ota_temp_buffer \o data
        flush  == Len(filled) = PlainMax \/ cur_offset + Len(filled) = image_total_length
    IN  /\ Running
        /\ is_ota_procedure
        /\ ~buffer_check_en
        /\ \/ /\ Len(filled) > PlainMax \/ cur_offset + Len(filled) > image_total_length
              /\ dfu_fw_reboot(FALSE)
              /\ UNCHANGED <<nor, ota_temp_buffer, cur_offset>>
           \/ /\ Len(filled) <= PlainMax
              /\ cur_offset + Len(filled) <= image_total_length
              /\ IF flush
                 THEN \E o \in dfu_update(nor, image_id, cur_offset, EntryOffset, filled) :
                        /\ nor' = o.nor
                        /\ IF o.ok
                           THEN /\ cur_offset' = cur_offset + Len(filled)
                                /\ ota_temp_buffer' = << >>
                                /\ UNCHANGED power
                           ELSE /\ dfu_fw_reboot(FALSE)
                                /\ UNCHANGED <<cur_offset, ota_temp_buffer>>
                 ELSE /\ ota_temp_buffer' = filled
                      /\ UNCHANGED <<nor, cur_offset, power>>
        /\ UNCHANGED <<is_ota_procedure, buffer_check_en, dfu_resend_offset, image_id,
                       image_total_length, tempVars, conn_para_update, notif>>

\* dfu_service_handle_packet_req: a write to the packet characteristic.
PacketReq(data) == PacketIgnored \/ PacketBuffered(data) \/ PacketPlain(data)

-----------------------------------------------------------------------------
(* REPORT_BUFFER_CRC: dfu_buffer_check_process.  Every outcome flushes the *)
(* buffer and tells the client from which offset to go on.                 *)

\* Wrong variants, for the mutation runs: one packet too late, at the writer
\* itself, without the wrap of 32 bits.
NextResendLate(cur) == IF Minus(cur, dfu_resend_offset) > SECTOR
                       THEN (dfu_resend_offset + SECTOR) % Wrap
                       ELSE dfu_resend_offset
NextResendHere(cur) == cur % Wrap
NextResendWide(cur) == IF Minus(cur, dfu_resend_offset) >= SECTOR
                       THEN dfu_resend_offset + SECTOR
                       ELSE dfu_resend_offset

\* After a successful update the resend point moves when the writer is a
\* whole sector past it.
NextResend(cur) == IF Minus(cur, dfu_resend_offset) >= SECTOR
                   THEN (dfu_resend_offset + SECTOR) % Wrap
                   ELSE dfu_resend_offset

\* Wrong variant, for the mutation runs: two sectors are always erased.
ResendEraseTwo(n) ==
    UNION {dfu_flash_erase_sector_with_retry(o.nor, image_id, dfu_resend_offset + SECTOR) :
             o \in dfu_flash_erase_sector_with_retry(n, image_id, dfu_resend_offset)}

\* The retries of a failed update start at the resend point; when the writer
\* was more than a sector past it, the next sector is erased as well.
ResendErase(n) ==
    LET one == dfu_flash_erase_sector_with_retry(n, image_id, dfu_resend_offset)
    IN  IF Minus(cur_offset, dfu_resend_offset) > SECTOR
        THEN {o \in one : ~o.ok}
             \cup UNION {dfu_flash_erase_sector_with_retry(o.nor, image_id,
                                                           dfu_resend_offset + SECTOR) :
                           o \in {x \in one : x.ok}}
        ELSE one

\* The update of the flash with a buffer whose CRC is right.
BufferWritten(o) ==
    /\ o.ok
    /\ nor' = o.nor
    /\ cur_offset' = cur_offset + Used
    /\ dfu_resend_offset' = NextResend(cur_offset')
    /\ Notify("REPORT_BUFFER_CRC", "SUCCESS", cur_offset')

\* Wrong variants, for the mutation runs: the writer stays where it was, or
\* goes back by the buffer that was lost.
BufferLostStays(o) ==
    /\ ~o.ok
    /\ \E e \in ResendErase(o.nor) :
         /\ nor' = e.nor
         /\ Notify("REPORT_BUFFER_CRC", IF e.ok THEN "PROG_ERROR" ELSE "ERASE_ERROR",
                   dfu_resend_offset)
    /\ UNCHANGED <<cur_offset, dfu_resend_offset>>
BufferLostBack(o) ==
    /\ ~o.ok
    /\ \E e \in ResendErase(o.nor) :
         /\ nor' = e.nor
         /\ Notify("REPORT_BUFFER_CRC", IF e.ok THEN "PROG_ERROR" ELSE "ERASE_ERROR",
                   dfu_resend_offset)
    /\ cur_offset' = cur_offset - Used
    /\ UNCHANGED dfu_resend_offset

\* The update failed: erase from the resend point on and go back to it.
BufferLost(o) ==
    /\ ~o.ok
    /\ \E e \in ResendErase(o.nor) :
         /\ nor' = e.nor
         /\ Notify("REPORT_BUFFER_CRC", IF e.ok THEN "PROG_ERROR" ELSE "ERASE_ERROR",
                   dfu_resend_offset)
    /\ cur_offset' = dfu_resend_offset
    /\ UNCHANGED dfu_resend_offset

\* The buffer holds what the client reports, or the rest of the image.
BufferComplete(size) == Used = size \/ cur_offset + Used = image_total_length

ReportBufferCrc(size, crcOk) ==
    /\ Running
    /\ ota_temp_buffer' = << >>
    /\ \/ /\ size > BUF
          /\ Notify("REPORT_BUFFER_CRC", "INVALID_PARAMETER", cur_offset)
          /\ UNCHANGED <<nor, cur_offset, dfu_resend_offset>>
       \/ /\ size <= BUF
          /\ ~BufferComplete(size)
          /\ Notify("REPORT_BUFFER_CRC", "LENGTH_ERROR", cur_offset)
          /\ UNCHANGED <<nor, cur_offset, dfu_resend_offset>>
       \/ /\ size <= BUF
          /\ BufferComplete(size)
          /\ ~crcOk
          /\ Notify("REPORT_BUFFER_CRC", "CRC_ERROR", cur_offset)
          /\ UNCHANGED <<nor, cur_offset, dfu_resend_offset>>
       \/ /\ size <= BUF
          /\ BufferComplete(size)
          /\ crcOk
          /\ \E o \in dfu_update(nor, image_id, cur_offset, EntryOffset, ota_temp_buffer) :
               BufferWritten(o) \/ BufferLost(o)
    /\ UNCHANGED <<power, is_ota_procedure, buffer_check_en, image_id, image_total_length,
                   tempVars, conn_para_update>>

-----------------------------------------------------------------------------
(* The other control point commands.                                       *)

\* Where a new image goes in the combined temporary bank.
NextOffset == IF temp_image_num = 0 THEN 0
              ELSE temp_image_info[temp_image_num - 1].image_offset
                   + temp_image_info[temp_image_num - 1].image_size

\* START_DFU of an image of total cells for this chip.  Without bank switching
\* the image takes the next entry of the combined bank; user data has a bank
\* of its own and no entry.
StartDfu(id, total, icOk) ==
    /\ Running
    /\ image_id' = id
    /\ image_total_length' = total
    /\ IF icOk /\ id # NoId
       THEN /\ is_ota_procedure' = TRUE
            /\ temp_image_info' =
                 IF id \notin UserData /\ ~BankSwitch
                 THEN [temp_image_info EXCEPT ![temp_image_num] =
                         [image_id |-> id, image_size |-> total, image_offset |-> NextOffset]]
                 ELSE temp_image_info
            /\ Notify("START_DFU", "SUCCESS", 0)
       ELSE /\ Notify("START_DFU", "INVALID_PARAMETER", 0)
            /\ UNCHANGED <<is_ota_procedure, temp_image_info>>
    /\ UNCHANGED <<nor, power, buffer_check_en, ota_temp_buffer, cur_offset,
                   dfu_resend_offset, temp_image_num, conn_para_update>>

\* RECEIVE_FW_IMAGE_INFO: the client says where it starts; only at the start
\* of the image are the buffer and the resend point reset.
ReceiveFwImageInfo(id, offset) ==
    /\ Running
    /\ image_id' = id
    /\ cur_offset' = offset
    /\ IF offset \in {0, DFU_HEADER_SIZE}
       THEN /\ ota_temp_buffer' = << >>
            /\ dfu_resend_offset' = 0
       ELSE UNCHANGED <<ota_temp_buffer, dfu_resend_offset>>
    /\ UNCHANGED <<nor, power, is_ota_procedure, buffer_check_en, image_total_length,
                   tempVars, conn_para_update, notif>>

\* REPORT_TARGET_INFO: the version of the image, and an offset of 0.
ReportTargetInfo(id) ==
    /\ Running
    /\ image_id' = id
    /\ cur_offset' = 0
    /\ Notify("REPORT_TARGET_INFO", "SUCCESS", 0)
    /\ UNCHANGED <<nor, power, is_ota_procedure, buffer_check_en, ota_temp_buffer,
                   dfu_resend_offset, image_total_length, tempVars, conn_para_update>>

\* VALID_FW: only the image id is noted; the check runs in the application
\* task.  A command of another length changes nothing here.
ValidFw(id, lengthOk) ==
    /\ Running
    /\ image_id' = IF lengthOk THEN id ELSE image_id
    /\ UNCHANGED <<nor, power, is_ota_procedure, buffer_check_en, ota_temp_buffer, cur_offset,
                   dfu_resend_offset, image_total_length, tempVars, conn_para_update, notif>>

BufferCheckEn ==
    /\ Running
    /\ buffer_check_en' = TRUE
    /\ Notify("BUFFER_CHECK_EN", "SUCCESS", BUF)
    /\ UNCHANGED <<nor, power, is_ota_procedure, ota_temp_buffer, cur_offset, dfu_resend_offset,
                   image_id, image_total_length, tempVars, conn_para_update>>

\* CONN_PARA_TO_UPDATE_REQ: one update at a time; the request to the stack can
\* fail.  A command of another length is refused.
ConnParaToUpdateReq(lengthOk, accepted) ==
    /\ Running
    /\ IF lengthOk /\ ~conn_para_update /\ accepted
       THEN /\ conn_para_update' = TRUE
            /\ UNCHANGED notif
       ELSE /\ Notify("CONN_PARA_TO_UPDATE_REQ",
                      IF lengthOk THEN "OPERATION" ELSE "INVALID_PARAMETER", 0)
            /\ UNCHANGED conn_para_update
    /\ UNCHANGED <<nor, power, sessionVars, tempVars>>

\* A command that is answered and changes nothing else.
Inquiry(op, ok) == /\ Running
                   /\ Notify(op, IF ok THEN "SUCCESS" ELSE "INVALID_PARAMETER", 0)
                   /\ UNCHANGED <<nor, power, ramVars>>

\* RECEIVE_IC_TYPE: the IC type in the active OTA header, if there is one.
ReceiveIcType(found) == Inquiry("RECEIVE_IC_TYPE", found)

\* dfu_soc_check_img_version: this build takes older versions too.
dfu_soc_check_img_version(older) == TRUE

\* CHECK_IMAGE_VER: whether the client may update to its version.  The flag it
\* leaves in is_need_dfu is never read.
CheckImageVer(lengthOk, older) ==
    Inquiry("CHECK_IMAGE_VER", lengthOk /\ dfu_soc_check_img_version(older))

\* HANDSHAKE: sixteen bytes are answered, each one larger.
Handshake(lengthOk) == Inquiry("HANDSHAKE", lengthOk)

\* Wrong variant, for the mutation runs: the newest entry is forgotten.
EntryHeadersButLast == IF BankSwitch THEN {}
                       ELSE {TempBase[image_id] + temp_image_info[i].image_offset :
                               i \in 0 .. temp_image_num - 2}

\* The headers that dfu_service_handle_active_image sets ready: the entries of
\* the combined bank, on top of the bank of the image id of the last command,
\* and, after user data, the banks of the ids of the loop, which starts at
\* IMAGE_USER_DATA2 and stops short of IMAGE_USER_DATA.
EntryHeaders == IF BankSwitch THEN {}
                ELSE {TempBase[image_id] + temp_image_info[i].image_offset :
                        i \in 0 .. temp_image_num - 1}
UserHeaders  == IF image_id \in UserData
                THEN {TempBase[id] : id \in {u \in UserLoop : TempBase[u] # 0}}
                ELSE {}

\* ACTIVE_IMAGE_RESET up to the callback of the application.  Without bank
\* switching the flash stays unlocked for the copy by the bootloader.
dfu_service_handle_active_image(n) ==
    {IF BankSwitch THEN w ELSE unlock_flash_bp_all(w) :
       w \in dfu_set_image_ready(n, EntryHeaders \cup UserHeaders)}

ActiveImageReset ==
    /\ Running
    /\ \E w \in dfu_service_handle_active_image(nor) : nor' = w
    /\ UNCHANGED <<power, ramVars, notif>>

\* Wrong variant, for the mutation runs: with nothing to erase the device does
\* not reset.
SystemResetLazy ==
    /\ Running
    /\ IF image_id \notin UserData \cup {NoId} /\ TempBase[image_id] \in nor.ready
       THEN /\ \E e \in dfu_flash_erase_sector(nor, TempBase[image_id]) : nor' = e.nor
            /\ dfu_fw_reboot(FALSE)
       ELSE UNCHANGED <<nor, power>>
    /\ UNCHANGED <<ramVars, notif>>

\* SYSTEM_RESET: an image of the temporary bank that is ready loses its first
\* sector, then the device resets.  The erase runs as the protection stands.
SystemReset ==
    /\ Running
    /\ IF image_id \notin UserData \cup {NoId} /\ TempBase[image_id] \in nor.ready
       THEN \E e \in dfu_flash_erase_sector(nor, TempBase[image_id]) : nor' = e.nor
       ELSE UNCHANGED nor
    /\ dfu_fw_reboot(FALSE)
    /\ UNCHANGED <<ramVars, notif>>

=============================================================================
