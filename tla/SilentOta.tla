------------------------------ MODULE SilentOta ------------------------------
(***************************************************************************)
(* A whole silent update: the DFU service in the Bluetooth thread, the     *)
(* validation of images in the application task, the connection, resets    *)
(* and power losses (src/subsys/dfu/silent_ota.c), driven by a client that *)
(* follows the protocol.                                                   *)
(*                                                                         *)
(* The client is external.  What it does is read off the commands the      *)
(* service offers: it waits for the notification that answers a command,   *)
(* goes on from the offset that the device reports, and, "whatever cause   *)
(* ota fail", sends SYSTEM_RESET (dfu_service.c:988).  After a lost        *)
(* connection it may also start over without a reset.                      *)
(***************************************************************************)
EXTENDS DfuService

CONSTANTS
    Clients,       \* the clients there may be, see ClientAssumption
    IdOf,          \* IdOf[m]: the image id of image m
    MaxIo,         \* MAX_NUMBER_OF_IO_MESSAGE
    OldImage       \* what an earlier update left in the temporary banks: an
                   \* address for each image that is there

\* What a client is like, and what may happen while it updates the device.
\*   plan      its images, in the order it sends them
\*   chunks    the lengths of its packets
\*   checked   whether it uses the buffer check
\*   restart   whether it starts over after a lost connection without a
\*             SYSTEM_RESET
\*   decline   whether it may decline to activate what it sent
\*   missed    whether a damaged buffer may have the checksum of the right one:
\*             dfu_check_buf_crc is the xor of 16-bit words
\*   faults, drops, losses, bad
\*             bounds: flash operations that fail, lost connections, power
\*             losses, packets that are lost or damaged
ASSUME ClientAssumption ==
    Clients \subseteq [plan : Seq(Image) \ {<< >>}, chunks : SUBSET (Nat \ {0}),
                      checked : BOOLEAN, restart : BOOLEAN, decline : BOOLEAN,
                      missed : BOOLEAN, faults : 0 .. MaxFaults, drops : Nat,
                      losses : Nat, bad : Nat]

ASSUME LayoutAssumption == /\ IdOf \in [Image -> ImageId \ {NoId}]
                           /\ MaxIo \in Nat
                           /\ DOMAIN OldImage \subseteq Image
                           /\ OldImage \in [DOMAIN OldImage -> Addr]

VARIABLES
    link,          \* whether the client is connected
    client,        \* what the client does next, or what it waits for
    current,       \* which client it is, and the number k of the image it sends
    pos,           \* the offset it goes on from
    sent,          \* cells it sent since then
    intact,        \* whether they all arrived as sent
    validQueue,    \* IO_MSG_TYPE_DFU_VALID_FW messages of the application task
    task,          \* where the application task is in handling one
    header,        \* the header address it validated
    valid,         \* its check_result
    active_rst_pending, \* dfu_active_rst_pending
    otaHeader,     \* whether the active bank still has its OTA header
    drops, powerLosses, badPackets

clientVars == <<client, current, pos, sent, intact>>
taskVars   == <<validQueue, task, header, valid>>
envVars    == <<drops, powerLosses, badPackets>>
vars == <<dfuVars, link, clientVars, taskVars, active_rst_pending, otaHeader, envVars>>

Plan    == current.by.plan
Checked == current.by.checked
Img     == Plan[current.k]
Id      == IdOf[Img]

\* The cells of image m from offset i on.
Cells(m, i, length) == [k \in 1 .. length |-> <<m, i + k - 1>>]

\* The flash before the update: blank but for the images of earlier updates,
\* which are whole and, as they ran once, ready.
OldFlash ==
    LET holds(x) == {m \in DOMAIN OldImage : x - OldImage[m] \in 0 .. Total[m] - 1}
    IN  [mem    |-> [x \in Addr |-> IF holds(x) = {} THEN Erased
                                    ELSE LET m == CHOOSE i \in holds(x) : TRUE
                                         IN  <<m, x - OldImage[m]>>],
         ready  |-> {OldImage[m] : m \in DOMAIN OldImage},
         bp     |-> TRUE,
         faults |-> MaxFaults - current.by.faults]

TaskInit == /\ validQueue = 0
            /\ task = "wait"
            /\ header = 0
            /\ valid = FALSE

TaskReset == /\ validQueue' = 0
             /\ task' = "wait"
             /\ header' = 0
             /\ valid' = FALSE

Init == /\ current \in [by : Clients, k : {1}]
        /\ nor = OldFlash
        /\ power = "on"
        /\ RamInit
        /\ TaskInit
        /\ link = FALSE
        /\ client = "off"
        /\ pos = 0 /\ sent = 0 /\ intact = TRUE
        /\ active_rst_pending = FALSE
        /\ otaHeader = TRUE
        /\ drops = 0 /\ powerLosses = 0 /\ badPackets = 0

-----------------------------------------------------------------------------
(* The client.  A command is written and handled in one step: the Bluetooth*)
(* thread runs it to the end.                                              *)

\* What a step of the client leaves alone outside the service.
Quiet == UNCHANGED <<link, taskVars, active_rst_pending, otaHeader, drops, powerLosses>>

\* The client is at a point where it acts, and not in a wait.
At(state) == link /\ Running /\ client = state

\* The client goes to another state, and nothing else of it changes.
GoTo(state) == /\ client' = state
               /\ UNCHANGED <<current, pos, sent, intact, badPackets>>

Connect == /\ ~link /\ Running /\ client = "off"
           /\ link' = TRUE
           /\ client' = "enable"
           /\ current' = [current EXCEPT !.k = 1]
           /\ UNCHANGED <<dfuVars, pos, sent, intact, taskVars, active_rst_pending,
                          otaHeader, envVars>>

\* After a lost connection: start over, or have the device reset first.
Reconnect == /\ ~link /\ Running /\ client = "lost"
             /\ link' = TRUE
             /\ client' \in (IF current.by.restart THEN {"enable", "reset"} ELSE {"reset"})
             /\ current' = IF client' = "enable" THEN [current EXCEPT !.k = 1] ELSE current
             /\ UNCHANGED <<dfuVars, pos, sent, intact, taskVars, active_rst_pending,
                            otaHeader, envVars>>

\* Commands that are answered by a notification of the same name.
Enable == At("enable") /\ Quiet
          /\ IF Checked THEN BufferCheckEn /\ GoTo("BUFFER_CHECK_EN")
             ELSE UNCHANGED dfuVars /\ GoTo("info")
Info   == At("info") /\ Quiet /\ ReportTargetInfo(Id) /\ GoTo("REPORT_TARGET_INFO")
Start  == At("start") /\ Quiet /\ StartDfu(Id, Total[Img], TRUE) /\ GoTo("START_DFU")

\* RECEIVE_FW_IMAGE_INFO is not answered: the client sends from offset 0 on.
Offset == /\ At("offset") /\ Quiet
          /\ ReceiveFwImageInfo(Id, 0)
          /\ client' = "send"
          /\ pos' = 0 /\ sent' = 0 /\ intact' = TRUE
          /\ UNCHANGED <<current, badPackets>>

\* One packet of the image.
Packet(length, fate) ==
    LET data == Cells(Img, pos + sent, length)
    IN  /\ sent' = sent + length
        /\ CASE fate = "arrives" -> /\ PacketReq(data)
                                    /\ UNCHANGED <<intact, badPackets>>
             [] fate = "damaged" -> /\ PacketReq([data EXCEPT ![1] = Torn])
                                    /\ intact' = FALSE
                                    /\ badPackets' = badPackets + 1
             [] fate = "lost"    -> /\ UNCHANGED dfuVars
                                    /\ intact' = FALSE
                                    /\ badPackets' = badPackets + 1

SendPacket ==
    /\ At("send") /\ Quiet
    /\ \E length \in current.by.chunks, fate \in {"arrives", "damaged", "lost"} :
         /\ fate # "arrives" => badPackets < current.by.bad
         /\ pos + sent + length <= Total[Img]
         /\ Checked => sent + length <= BUF
         /\ Packet(length, fate)
    /\ UNCHANGED <<client, current, pos>>

\* The last packet of an image is shorter when the lengths leave no other way.
SendRest ==
    /\ At("send") /\ Quiet
    /\ pos + sent < Total[Img]
    /\ \A length \in current.by.chunks : pos + sent + length > Total[Img]
    /\ Checked => Total[Img] - pos <= BUF
    /\ Packet(Total[Img] - pos - sent, "arrives")
    /\ UNCHANGED <<client, current, pos>>

\* The client reports the length and the checksum of what it sent.
SendBufferCrc == /\ At("send") /\ Quiet
                 /\ Checked /\ sent > 0
                 /\ \E ok \in {intact, intact \/ current.by.missed} : ReportBufferCrc(sent, ok)
                 /\ GoTo("REPORT_BUFFER_CRC")

\* The whole image is sent: ask for its validation.  dfu_srv_write_cb ends
\* with the callback that posts the message to the application task; a full
\* queue drops it.
SendValidFw ==
    /\ At("send")
    /\ pos + sent = Total[Img]
    /\ Checked => sent = 0
    /\ ValidFw(Id, TRUE)
    /\ validQueue' = IF validQueue < MaxIo THEN validQueue + 1 ELSE validQueue
    /\ GoTo("VALID_FW")
    /\ UNCHANGED <<link, task, header, valid, active_rst_pending, otaHeader, drops, powerLosses>>

\* ACTIVE_IMAGE_RESET.  The callback erases the OTA header of the active bank
\* when banks are switched, asks for a disconnection and leaves the reset to
\* the disconnected callback.  It does not look at the result of the erase,
\* which may have failed.
SendActiveImageReset ==
    /\ At("activate")
    /\ ActiveImageReset
    /\ \/ otaHeader' = (otaHeader /\ ~BankSwitch)
       \/ "erase" \in FaultKinds /\ current.by.faults > 0 /\ UNCHANGED otaHeader
    /\ active_rst_pending' = TRUE
    /\ client' = "done"
    /\ UNCHANGED <<link, current, pos, sent, intact, taskVars, envVars>>

SendSystemReset ==
    /\ link /\ Running
    /\ client = "reset" \/ (current.by.decline /\ client = "activate")
    /\ SystemReset
    /\ client' = IF client = "reset" THEN "off" ELSE "declined"
    /\ link' = FALSE
    /\ UNCHANGED <<current, pos, sent, intact, taskVars, active_rst_pending, otaHeader, envVars>>

\* The client takes a notification: one it does not wait for is dropped.
Receive ==
    /\ link /\ Running /\ notif # << >>
    /\ notif' = Tail(notif)
    /\ LET n == Head(notif) IN
         IF n.op # client THEN UNCHANGED clientVars
         ELSE /\ client' = CASE n.op = "BUFFER_CHECK_EN"    -> "info"
                             [] n.op = "REPORT_TARGET_INFO" -> "start"
                             [] n.op = "START_DFU"          -> "offset"
                             [] n.op = "REPORT_BUFFER_CRC"  -> "send"
                             [] n.op = "VALID_FW" ->
                                  IF n.res # "SUCCESS" THEN "reset"
                                  ELSE IF current.k < Len(Plan) THEN "info" ELSE "activate"
              /\ current' = IF n.op = "VALID_FW" /\ n.res = "SUCCESS" /\ current.k < Len(Plan)
                            THEN [current EXCEPT !.k = @ + 1] ELSE current
              /\ pos' = IF n.op = "REPORT_BUFFER_CRC" THEN n.off ELSE pos
              /\ sent' = IF n.op = "REPORT_BUFFER_CRC" THEN 0 ELSE sent
              /\ intact' = IF n.op = "REPORT_BUFFER_CRC" THEN TRUE ELSE intact
    /\ UNCHANGED <<nor, power, ramVars, link, taskVars, active_rst_pending, otaHeader, envVars>>

-----------------------------------------------------------------------------
(* The application task: dfu_service_handle_valid_fw, interrupted by the   *)
(* Bluetooth thread between any two of its accesses to the flash.          *)

TaskOnly == UNCHANGED <<power, sessionVars, conn_para_update, link, clientVars,
                        active_rst_pending, otaHeader, envVars>>

\* The image that is checked: the one of the last command, or the newest
\* entry of the combined bank.
CheckOwnBank == BankSwitch \/ image_id \in UserData
CheckId     == IF CheckOwnBank THEN image_id ELSE temp_image_info[temp_image_num].image_id
CheckOffset == IF CheckOwnBank THEN 0 ELSE temp_image_info[temp_image_num].image_offset

\* Wrong variants, for the mutation runs: a valid image is not set ready, or it
\* is set ready without bank switching too.
TaskCheckOnly ==
    /\ Running /\ task = "wait" /\ validQueue > 0
    /\ validQueue' = validQueue - 1
    /\ valid' = dfu_check_checksum(nor, CheckId, CheckOffset)
    /\ header' = HeaderAddr(CheckId, CheckOffset)
    /\ task' = "report"
    /\ UNCHANGED <<nor, tempVars, notif>>
    /\ TaskOnly
TaskCheckReady ==
    /\ Running /\ task = "wait" /\ validQueue > 0
    /\ validQueue' = validQueue - 1
    /\ valid' = dfu_check_checksum(nor, CheckId, CheckOffset)
    /\ header' = HeaderAddr(CheckId, CheckOffset)
    /\ task' = IF valid' THEN "unlock" ELSE "report"
    /\ UNCHANGED <<nor, tempVars, notif>>
    /\ TaskOnly

TaskCheck ==
    /\ Running /\ task = "wait" /\ validQueue > 0
    /\ validQueue' = validQueue - 1
    /\ valid' = dfu_check_checksum(nor, CheckId, CheckOffset)
    /\ header' = HeaderAddr(CheckId, CheckOffset)
    /\ task' = IF valid' /\ BankSwitch THEN "unlock" ELSE "report"
    /\ UNCHANGED <<nor, tempVars, notif>>
    /\ TaskOnly

\* dfu_set_image_ready: unlock, clear not_ready, lock.
TaskUnlock == /\ Running /\ task = "unlock"
              /\ nor' = unlock_flash_bp_all(nor)
              /\ task' = "set"
              /\ UNCHANGED <<validQueue, header, valid, tempVars, notif>>
              /\ TaskOnly

TaskSetReady == /\ Running /\ task = "set"
                /\ \E w \in ClearNotReady(nor, {header}) : nor' = w
                /\ task' = "lock"
                /\ UNCHANGED <<validQueue, header, valid, tempVars, notif>>
                /\ TaskOnly

\* Wrong variant, for the mutation runs: the flash is not locked again.
TaskLockNot == /\ Running /\ task = "lock"
               /\ task' = "report"
               /\ UNCHANGED <<nor, validQueue, header, valid, tempVars, notif>>
               /\ TaskOnly

TaskLock == /\ Running /\ task = "lock"
            /\ nor' = lock_flash_bp(nor)
            /\ task' = "report"
            /\ UNCHANGED <<validQueue, header, valid, tempVars, notif>>
            /\ TaskOnly

\* Count the image in the combined bank, and answer the client if it is there.
TaskReport ==
    /\ Running /\ task = "report"
    /\ temp_image_num' = IF valid /\ ~CheckOwnBank THEN temp_image_num + 1 ELSE temp_image_num
    /\ IF link THEN Notify("VALID_FW", IF valid THEN "SUCCESS" ELSE "CRC_ERROR", 0)
       ELSE UNCHANGED notif
    /\ task' = "wait"
    /\ UNCHANGED <<nor, validQueue, header, valid, temp_image_info>>
    /\ TaskOnly

-----------------------------------------------------------------------------
(* The connection, resets and power.                                       *)

\* What the client makes of a connection that is gone.
Lost == client' = IF client \in {"off", "done", "declined"} THEN client ELSE "lost"

\* The disconnected callback: the pending reset, if there is one.
Disconnected ==
    /\ link' = FALSE
    /\ notif' = << >>
    /\ IF active_rst_pending
       THEN active_rst_pending' = FALSE /\ dfu_fw_reboot(TRUE)
       ELSE UNCHANGED <<active_rst_pending, power>>

\* The disconnection that ACTIVE_IMAGE_RESET asked for.
DisconnectAll == /\ link /\ Running /\ active_rst_pending
                 /\ Disconnected
                 /\ UNCHANGED <<nor, ramVars, clientVars, taskVars, otaHeader, envVars>>

\* The link is lost.  The session of the service stays as it is.
LinkLoss == /\ link /\ Running /\ drops < current.by.drops
            /\ drops' = drops + 1
            /\ Disconnected
            /\ Lost
            /\ UNCHANGED <<nor, ramVars, current, pos, sent, intact, taskVars, otaHeader,
                           powerLosses, badPackets>>

\* The device boots after a reset or a power loss: the RAM starts afresh, the
\* protection is on, and the client finds the connection gone.
Boot == /\ power = "fail"
        /\ power' = "on"
        /\ nor' = lock_flash_bp(nor)
        /\ RamReset /\ TaskReset
        /\ link' = FALSE
        /\ active_rst_pending' = FALSE
        /\ client' = IF client \in {"done", "declined"} THEN client ELSE "off"
        /\ UNCHANGED <<current, pos, sent, intact, otaHeader, envVars>>

PowerLoss == /\ Running /\ powerLosses < current.by.losses
             /\ powerLosses' = powerLosses + 1
             /\ power' = "fail"
             /\ UNCHANGED <<nor, ramVars, notif, link, clientVars, taskVars, active_rst_pending,
                            otaHeader, drops, badPackets>>

\* The power is lost while dfu_update erases or writes, or right after.
PowerLossInUpdate ==
    /\ At("send") /\ Checked /\ sent > 0
    /\ powerLosses < current.by.losses
    /\ BufferComplete(sent) /\ intact
    /\ powerLosses' = powerLosses + 1
    /\ power' = "fail"
    /\ nor' \in {o.nor : o \in dfu_update(nor, image_id, cur_offset, EntryOffset, ota_temp_buffer)}
                \cup UpdateCut(nor, image_id, cur_offset, EntryOffset, ota_temp_buffer)
    /\ UNCHANGED <<ramVars, notif, link, clientVars, taskVars, active_rst_pending, otaHeader,
                   drops, badPackets>>

\* The headers that dfu_service_handle_active_image has set ready when the power
\* goes: the entries of the combined bank up to one of them, or all of them and
\* some of the user data.
ReadySoFar == {{h \in EntryHeaders : \E i \in 0 .. k - 1 :
                   h = TempBase[image_id] + temp_image_info[i].image_offset} :
                 k \in 0 .. temp_image_num}
              \cup {EntryHeaders \cup some : some \in SUBSET UserHeaders}

\* The power is lost between two of the images that ACTIVE_IMAGE_RESET sets
\* ready.
PowerLossInActivation ==
    /\ At("activate")
    /\ powerLosses < current.by.losses
    /\ powerLosses' = powerLosses + 1
    /\ power' = "fail"
    /\ \E hs \in ReadySoFar : nor' \in dfu_set_image_ready(nor, hs)
    /\ UNCHANGED <<ramVars, notif, link, clientVars, taskVars, active_rst_pending, otaHeader,
                   drops, badPackets>>

\* The update is over: the device runs the bootloader, or the client declined.
Ended == \/ power = "active"
         \/ client = "declined"
         \/ client = "done" /\ ~active_rst_pending

Over == Ended /\ UNCHANGED vars

ClientStep == \/ Connect \/ Reconnect \/ Enable \/ Info \/ Start \/ Offset
              \/ SendPacket \/ SendRest \/ SendBufferCrc \/ SendValidFw
              \/ SendActiveImageReset \/ SendSystemReset \/ Receive
TaskStep   == TaskCheck \/ TaskUnlock \/ TaskSetReady \/ TaskLock \/ TaskReport
Next == \/ ClientStep \/ TaskStep
        \/ DisconnectAll \/ LinkLoss \/ Boot \/ PowerLoss \/ PowerLossInUpdate
        \/ PowerLossInActivation \/ Over

\* The threads of the device keep running, the client keeps sending while it is
\* connected and comes back when it is not, and a device that resets boots.
\* Nothing forces the client to lose, damage or shorten what it sends.
Fairness ==
    /\ WF_vars(ClientStep)
    /\ WF_vars(TaskStep)
    /\ WF_vars(DisconnectAll)
    /\ WF_vars(Boot)

Spec == Init /\ [][Next]_vars
FairSpec == Spec /\ Fairness

-----------------------------------------------------------------------------
\* The client is in the middle of an image, and the device knows.
Sending == link /\ Running /\ client \in {"send", "REPORT_BUFFER_CRC"}

\* Where the image being sent starts in the flash.
ImageStart == StartAddr(Id, 0, EntryOffset)

TypeOK ==
    /\ nor \in Flash
    /\ power \in {"on", "fail", "active"}
    /\ ota_temp_buffer \in Seq(Content)
    /\ cur_offset \in 0 .. Wrap - 1
    /\ dfu_resend_offset \in 0 .. Wrap - 1
    /\ image_id \in ImageId
    /\ image_total_length \in Nat
    /\ temp_image_num \in 0 .. MaxTemp - 1
    /\ temp_image_info \in [0 .. MaxTemp - 1 ->
                              [image_id : ImageId, image_size : Nat, image_offset : Nat]]
    /\ \A v \in {is_ota_procedure, buffer_check_en, conn_para_update, link, intact, valid,
                 active_rst_pending, otaHeader} : v \in BOOLEAN
    /\ current.by \in Clients /\ current.k \in 1 .. Len(Plan) /\ pos \in Nat /\ sent \in Nat
    /\ validQueue \in 0 .. MaxIo
    /\ task \in {"wait", "unlock", "set", "lock", "report"}
    /\ header \in Nat

\* What the device reports as received is in the flash as the client sent it,
\* through failed writes, failed erases, retries and power losses
\* (dfu_buffer_check_process, dfu_service.c:380).  A client without buffer check
\* has that as long as all its packets arrive.
PrefixIntact ==
    (Sending /\ ~current.by.missed /\ (Checked \/ intact)) => \A i \in 0 .. cur_offset - 1 : nor.mem[ImageStart + i] = <<Img, i>>

\* The device and the client mean the same place of the image: what the buffer
\* of the device holds continues its offset and ends where the client is.
InStep == (Sending /\ client = "send" /\ intact) =>
              /\ cur_offset + Used = pos + sent
              /\ ota_temp_buffer = Cells(Img, cur_offset, Used)

\* The resend point stays the start of the sector the writer is in, so that one
\* erase undoes a failed write (dfu_service.c:460): the branch that erases a
\* second sector is never needed.
ResendPoint == (Sending /\ Checked) =>
                  /\ dfu_resend_offset % SECTOR = 0
                  /\ cur_offset - dfu_resend_offset \in 0 .. SECTOR - 1

\* An image that the bootloader takes for ready is whole.
ReadyIntact == \A a \in nor.ready : \E m \in Image : IntactAt(nor, m, a)

\* The image being received is not ready (dfu_flash.c:820).
NotReadyWhileSent == (Sending /\ cur_offset > 0) => ImageStart \notin nor.ready

\* With bank switching the device can always boot: it gives up the OTA header
\* of the active bank only when every image of the update stands whole and
\* ready in the other bank (dfu_service.c:634).
Bootable == (BankSwitch /\ ~otaHeader) =>
               \A k \in 1 .. Len(Plan) : LET a == TempBase[IdOf[Plan[k]]]
                                         IN  a \in nor.ready /\ IntactAt(nor, Plan[k], a)

\* Between two calls the flash is protected again, whatever failed in them
\* (dfu_flash.c:104).  The combined bank is left open for the bootloader.
FlashLocked == (Running /\ ~active_rst_pending /\ task \notin {"set", "lock"}) => nor.bp

\* Nothing outside the temporary banks of the images that are sent is ever
\* written or erased ("check ota image size whether exceed flash layout
\* address", dfu_flash.c:363).
InBanks(x) == \E k \in 1 .. Len(Plan) :
                 LET id == IdOf[Plan[k]]
                 IN  x \in TempBase[id] .. TempBase[id] + TempSize[id] - 1
InsideBanks == \A x \in Addr : ~InBanks(x) => nor.mem[x] = OldFlash.mem[x]

\* The cells of the images counted as validated in the combined bank.
ValidatedCells == {x \in Addr : \E k \in 0 .. temp_image_num - 1 :
                     LET e == temp_image_info[k] IN
                     x \in StartAddr(e.image_id, 0, e.image_offset) ..
                           StartAddr(e.image_id, e.image_size - 1, e.image_offset)}

\* No step of the device changes a validated image of the combined bank.
ValidatedKept == [][\A x \in ValidatedCells : nor'.mem[x] = nor.mem[x]]_vars

\* Where image k of the plan belongs: behind the ones before it in the combined
\* bank, or at the start of a bank of its own.
OwnBank(m) == BankSwitch \/ IdOf[m] \in UserData
Offsets(plan) ==
    LET at[k \in 1 .. Len(plan)] ==
            IF k = 1 THEN 0
            ELSE at[k - 1] + IF OwnBank(plan[k - 1]) THEN 0 ELSE Total[plan[k - 1]]
    IN  at
PlaceOf(k) == TempBase[IdOf[Plan[k]]] + IF OwnBank(Plan[k]) THEN 0 ELSE Offsets(Plan)[k]

\* When ACTIVE_IMAGE_RESET left the reset pending, every image of the update
\* stands whole at its place and is ready for the bootloader
\* (dfu_service_handle_active_image, dfu_service.c:629).
ActivatedReady ==
    active_rst_pending =>
        \A k \in 1 .. Len(Plan) : PlaceOf(k) \in nor.ready /\ IntactAt(nor, Plan[k], PlaceOf(k))

\* An update that the client declined leaves no image of it ready: SYSTEM_RESET
\* erases the header of one that is (dfu_service.c:990).
DeclinedNotReady ==
    client = "declined" =>
        \A k \in 1 .. Len(Plan) : IntactAt(nor, Plan[k], PlaceOf(k)) => PlaceOf(k) \notin nor.ready

\* The device implements OtaUpdate: it switches banks when the OTA header of the
\* active bank is erased.
Update == INSTANCE OtaUpdate WITH
              images   <- 1 .. Len(Plan),
              held     <- {k \in 1 .. Len(Plan) :
                             PlaceOf(k) \in nor.ready /\ IntactAt(nor, Plan[k], PlaceOf(k))},
              switched <- ~otaHeader

\* With bank switching every behaviour of the device is one of OtaUpdate: banks
\* are switched all or nothing, and images that were switched to stay.
UpdateRefinement == Update!UpdateSpec

\* Once faults and losses stop, the update ends.
Completes == <>Ended
=============================================================================
