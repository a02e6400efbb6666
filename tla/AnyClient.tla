----------------------------- MODULE AnyClient -----------------------------
(***************************************************************************)
(* The DFU service under a client that sends its commands in any order:    *)
(* what the service keeps by itself, without relying on the protocol.      *)
(***************************************************************************)
EXTENDS DfuService

CONSTANTS
    Offsets,    \* the offsets that RECEIVE_FW_IMAGE_INFO announces
    Totals,     \* the lengths that START_DFU announces
    Packets,    \* the packets that are sent
    StartFlash  \* the flash contents to start from, protected

ASSUME AnyClientAssumption == /\ Offsets \subseteq 0 .. Wrap - 1
                              /\ Totals \subseteq Nat
                              /\ \A data \in Packets : data \in Seq(Content)
                              /\ \A n \in StartFlash : n \in Flash /\ n.bp = TRUE

\* The device just booted.
Init == /\ nor \in StartFlash
        /\ power = "on"
        /\ RamInit

\* The client takes what was notified.
TakeNotif == /\ notif # << >>
             /\ notif' = Tail(notif)
             /\ UNCHANGED <<nor, power, ramVars>>

\* The device boots again.  The flash keeps what it holds, and is protected.
Boot == /\ power = "fail"
        /\ power' = "on"
        /\ nor' = lock_flash_bp(nor)
        /\ RamReset

\* Commands that are answered wait for the answer before to be taken.
Command ==
    /\ notif = << >>
    /\ \/ \E data \in Packets : PacketReq(data)
       \/ \E size \in 0 .. BUF + 1, ok \in BOOLEAN : ReportBufferCrc(size, ok)
       \/ \E id \in ImageId, total \in Totals, ok \in BOOLEAN : StartDfu(id, total, ok)
       \/ \E id \in ImageId, offset \in Offsets : ReceiveFwImageInfo(id, offset)
       \/ \E id \in ImageId : ReportTargetInfo(id)
       \/ \E id \in ImageId, ok \in BOOLEAN : ValidFw(id, ok)
       \/ BufferCheckEn
       \/ \E lengthOk, accepted \in BOOLEAN : ConnParaToUpdateReq(lengthOk, accepted)
       \/ \E found \in BOOLEAN : ReceiveIcType(found)
       \/ \E lengthOk, older \in BOOLEAN : CheckImageVer(lengthOk, older)
       \/ \E lengthOk \in BOOLEAN : Handshake(lengthOk)
       \/ ActiveImageReset
       \/ SystemReset

Next == Command \/ TakeNotif \/ Boot

Spec == Init /\ [][Next]_dfuVars

-----------------------------------------------------------------------------
\* The shape of the state of the service.
TypeOK ==
    /\ nor \in Flash
    /\ power \in {"on", "fail"}
    /\ is_ota_procedure \in BOOLEAN
    /\ buffer_check_en \in BOOLEAN
    /\ ota_temp_buffer \in Seq(Content)
    /\ cur_offset \in Nat
    /\ dfu_resend_offset \in 0 .. Wrap - 1
    /\ image_id \in ImageId
    /\ image_total_length \in Nat
    /\ temp_image_num = 0
    /\ temp_image_info \in [0 .. MaxTemp - 1 ->
                              [image_id : ImageId, image_size : Nat, image_offset : Nat]]
    /\ conn_para_update \in BOOLEAN

\* No order of commands and packets overflows the buffer, in either mode, not
\* even when the buffer check is enabled half way ("to avoid memory overflow",
\* dfu_service.c:88).
BufferFits == Used <= IF buffer_check_en THEN BUF ELSE PlainMax

\* The resend point is the start of a sector of the image, whatever the offsets
\* the client announces: an erase of the retry hits no half sector.
ResendAligned == dfu_resend_offset % SECTOR = 0

\* After every command, also one in which erasing or programming failed, the
\* flash is protected, unless the device resets (dfu_flash.c:105) or has
\* activated what it holds without bank switching.
LockedBetween == (power = "on" /\ BankSwitch) => nor.bp

\* How many cells a step writes if it flushes the buffer: a report, which is
\* answered, writes what is in it, and a packet fills it up or ends the image.
FlushLength == IF notif' # notif THEN Used
               ELSE IF PlainMax < image_total_length THEN PlainMax ELSE image_total_length

\* The headers that the client sets ready by the data it sends: those that the
\* flush writes, but for the one at the start of the image when the flush reaches
\* beyond the uuid.
ClientReadies ==
    {StartAddr(image_id, cur_offset, EntryOffset) + k - 1 :
       k \in (1 .. BUF) \ (IF cur_offset = 0 /\ FlushLength > UUID THEN {1} ELSE {})}

\* With bank switching no order of commands and packets makes an image ready on
\* the word of its header: a header of the client with not_ready = 0 stays not
\* ready when it begins the image and more than offsetof(uuid) of it is flushed at
\* once (dfu_flash.c:807), by a report or by a packet.  User data is the exception,
\* which ACTIVE_IMAGE_RESET sets ready (dfu_service.c:647).
NoneReadied == [][BankSwitch => \A a \in nor'.ready \ nor.ready :
                                   a \in ClientReadies \/ \E u \in UserLoop : a = TempBase[u]]_dfuVars
=============================================================================
