-------------------------- MODULE AnyClient_proofs --------------------------
(***************************************************************************)
(* What the DFU service keeps under any order of commands, for every       *)
(* layout of the flash, every size of the buffer and of a sector, and any  *)
(* number of flash faults.                                                 *)
(***************************************************************************)
EXTENDS AnyClient, DfuService_proofs

-----------------------------------------------------------------------------
(* The flash.                                                              *)

\* The shape of the state is enough for the facts about the commands.
LEMMA WriterShape == TypeOK => WriterOK
BY DEF TypeOK, WriterOK

\* What the client may set ready by the data of a step: nothing, or what the
\* flush of at most a buffer writes.
Readies(hs) == BufferFits => hs \subseteq ClientReadies

\* A flush of at most a buffer sets ready what ClientReadies says.
LEMMA FlushReadies ==
    ASSUME NEW data \in Seq(Content), Len(data) <= BUF,
           cur_offset = 0 => Len(data) = FlushLength
    PROVE  HeadersFlushed(data) \subseteq ClientReadies
<1> SUFFICES ASSUME NEW k \in SentReady(cur_offset, data)
             PROVE  StartAddr(image_id, cur_offset, EntryOffset) + k - 1 \in ClientReadies
    BY DEF HeadersFlushed, HeadersSent, HeadersAt
<1>1. k \in 1 .. BUF
      BY ServiceAssumption DEF SentReady
<1>2. k \notin (IF cur_offset = 0 /\ FlushLength > UUID THEN {1} ELSE {})
      BY DEF SentReady
<1>3. QED
      BY <1>1, <1>2 DEF ClientReadies

\* A booting device protects its flash.
LEMMA FlashBoot ==
    ASSUME TypeOK, Boot
    PROVE  \A hs : FlashKeptBut(hs)
BY BpType DEF TypeOK, Boot, FlashKeptBut

\* A step that sets nothing ready by data of the client.
LEMMA NoData ==
    ASSUME \A hs : FlashKeptBut(hs)
    PROVE  \E hs : FlashKeptBut(hs) /\ Readies(hs)
BY Zenon DEF Readies

\* A packet, and what it flushes.
LEMMA PacketReadies ==
    ASSUME TypeOK, NEW data \in Packets, PacketReq(data)
    PROVE  \E hs : FlashKeptBut(hs) /\ Readies(hs)
<1> DEFINE filled == ota_temp_buffer \o data
<1>1. data \in Seq(Content) /\ filled \in Seq(Content) /\ Len(filled) \in Nat
      BY AnyClientAssumption DEF TypeOK
<1>2. FlashKeptBut(HeadersFlushed(filled))
      BY <1>1, FlashPacket, WriterShape, Zenon
<1>3. CASE UNCHANGED nor
  <2>1. power' = "on" => power = "on"
        BY DEF PacketReq, PacketIgnored, PacketBuffered, PacketPlain, Running, dfuVars
  <2>2. QED
        BY <1>3, <2>1, FlashUntouched, WriterShape, NoData
<1>4. CASE ~UNCHANGED nor
  <2>1. PacketPlain(data)
        BY <1>4 DEF PacketReq, PacketIgnored, PacketBuffered, dfuVars
  <2>2. /\ Len(filled) <= PlainMax /\ cur_offset + Len(filled) <= image_total_length
        /\ Len(filled) = PlainMax \/ cur_offset + Len(filled) = image_total_length
        /\ notif' = notif
        BY <1>4, <2>1 DEF PacketPlain
  <2>3. PlainMax \in Nat /\ BUF \in Nat /\ PlainMax <= BUF
        BY PlainMaxType, ServiceAssumption
  <2> HIDE DEF filled
  <2>4. cur_offset = 0 => Len(filled) = FlushLength
        BY <1>1, <2>2, <2>3 DEF FlushLength, TypeOK
  <2>5. HeadersFlushed(filled) \subseteq ClientReadies
        BY <1>1, <2>2, <2>3, <2>4, FlushReadies
  <2>6. QED
        BY <1>2, <2>5, Zenon DEF Readies
<1>5. QED
      BY <1>3, <1>4

\* What is answered is one notification more.
LEMMA Answered ==
    ASSUME NEW r, notif' = Append(notif, r)
    PROVE  notif' # notif
OBVIOUS

\* A buffer report, which is answered.
LEMMA ReportReadies ==
    ASSUME TypeOK, NEW size, NEW ok, ReportBufferCrc(size, ok)
    PROVE  \E hs : FlashKeptBut(hs) /\ Readies(hs)
<1>1. FlashKeptBut(HeadersFlushed(ota_temp_buffer))
      BY FlashReport, WriterShape
<1>2. ASSUME BufferFits
      PROVE  HeadersFlushed(ota_temp_buffer) \subseteq ClientReadies
  <2>1. ota_temp_buffer \in Seq(Content) /\ Used <= BUF
    <3>1. PlainMax \in Nat /\ BUF \in Nat /\ PlainMax <= BUF /\ Used \in Nat
          BY PlainMaxType, ServiceAssumption DEF TypeOK, Used
    <3>2. QED
          BY <1>2, <3>1 DEF BufferFits, TypeOK
  <2>2. \E r : notif' = Append(notif, r)
        BY DEF ReportBufferCrc, Notify, BufferWritten, BufferLost
  <2>3. FlushLength = Used
        BY <2>2, Answered DEF FlushLength, TypeOK
  <2>4. QED
        BY <2>1, <2>3, FlushReadies DEF Used
<1>3. QED
      BY <1>1, <1>2, Zenon DEF Readies

\* Every step keeps the flash as FlashKeptBut says.
LEMMA FlashStep ==
    ASSUME TypeOK, [Next]_dfuVars
    PROVE  \E hs : FlashKeptBut(hs) /\ Readies(hs)
<1> USE WriterShape
<1>1. CASE Command
  <2>1. ASSUME NEW data \in Packets, PacketReq(data)
        PROVE  \E hs : FlashKeptBut(hs) /\ Readies(hs)
        BY <2>1, PacketReadies
  <2>2. ASSUME NEW size \in 0 .. BUF + 1, NEW ok \in BOOLEAN, ReportBufferCrc(size, ok)
        PROVE  \E hs : FlashKeptBut(hs) /\ Readies(hs)
        BY <2>2, ReportReadies
  <2>3. ASSUME NEW id \in ImageId, NEW total \in Totals, NEW ok \in BOOLEAN,
               StartDfu(id, total, ok)
        PROVE  \A hs : FlashKeptBut(hs)
        BY <2>3, FlashUntouched DEF StartDfu
  <2>4. ASSUME NEW id \in ImageId, NEW offset \in Offsets, ReceiveFwImageInfo(id, offset)
        PROVE  \A hs : FlashKeptBut(hs)
        BY <2>4, FlashUntouched DEF ReceiveFwImageInfo
  <2>5. ASSUME NEW id \in ImageId, ReportTargetInfo(id)
        PROVE  \A hs : FlashKeptBut(hs)
        BY <2>5, FlashUntouched DEF ReportTargetInfo
  <2>6. ASSUME NEW id \in ImageId, NEW ok \in BOOLEAN, ValidFw(id, ok)
        PROVE  \A hs : FlashKeptBut(hs)
        BY <2>6, FlashUntouched DEF ValidFw
  <2>7. CASE BufferCheckEn
    <3>1. \A hs : FlashKeptBut(hs)
          BY <2>7, FlashUntouched DEF BufferCheckEn
    <3>2. QED
          BY <3>1, NoData
  <2>8. ASSUME NEW lengthOk \in BOOLEAN, NEW accepted \in BOOLEAN,
               ConnParaToUpdateReq(lengthOk, accepted)
        PROVE  \A hs : FlashKeptBut(hs)
        BY <2>8, FlashUntouched DEF ConnParaToUpdateReq
  <2>9. ASSUME NEW op, NEW ok, Inquiry(op, ok)
        PROVE  \A hs : FlashKeptBut(hs)
        BY <2>9, FlashUntouched DEF Inquiry
  <2>10. QED
        BY <1>1, <2>1, <2>2, <2>3, <2>4, <2>5, <2>6, <2>7, <2>8, <2>9, FlashActivate, FlashReset,
           NoData
        DEF Command, ReceiveIcType, CheckImageVer, Handshake
<1>2. CASE TakeNotif
      BY <1>2, FlashUntouched, NoData DEF TakeNotif
<1>3. CASE Boot
      BY <1>3, FlashBoot, NoData
<1>4. CASE UNCHANGED dfuVars
      BY <1>4, FlashUntouched, NoData DEF dfuVars
<1>5. QED
      BY <1>1, <1>2, <1>3, <1>4 DEF Next

-----------------------------------------------------------------------------
(* The shape of the state.                                                 *)

\* Everything of TypeOK but the flash.
RamOK ==
    /\ power \in {"on", "fail"}
    /\ is_ota_procedure \in BOOLEAN
    /\ buffer_check_en \in BOOLEAN
    /\ ota_temp_buffer \in Seq(Content)
    /\ cur_offset \in Nat
    /\ dfu_resend_offset \in 0 .. Wrap - 1
    /\ image_id \in ImageId
    /\ image_total_length \in Nat
    /\ temp_image_num = 0
    /\ temp_image_info \in [0 .. MaxTemp - 1 ->
                              [image_id : ImageId, image_size : Nat, image_offset : Nat]]
    /\ conn_para_update \in BOOLEAN

\* A packet keeps the shape of the RAM.
LEMMA RamPacket ==
    ASSUME TypeOK, NEW data \in Packets, PacketReq(data)
    PROVE  RamOK'
<1>1. data \in Seq(Content) /\ ota_temp_buffer \o data \in Seq(Content)
      BY AnyClientAssumption DEF TypeOK
<1>2. Len(ota_temp_buffer \o data) \in Nat
      BY <1>1
<1>3. << >> \in Seq(Content)
      OBVIOUS
<1>4. CASE PacketIgnored
      BY <1>4 DEF PacketIgnored, TypeOK, RamOK, dfuVars, ramVars, sessionVars, tempVars
<1>5. CASE PacketBuffered(data)
      BY <1>1, <1>5 DEF PacketBuffered, dfu_fw_reboot, TypeOK, RamOK, tempVars
<1>6. CASE PacketPlain(data)
  <2>1. cur_offset' \in Nat /\ ota_temp_buffer' \in Seq(Content) /\ power' \in {"on", "fail"}
    <3> DEFINE filled == ota_temp_buffer \o data
    <3>1. filled \in Seq(Content) /\ Len(filled) \in Nat
          BY <1>1, <1>2
    <3> HIDE DEF filled
    <3>2. /\ cur_offset' \in {cur_offset, cur_offset + Len(filled)}
          /\ ota_temp_buffer' \in {ota_temp_buffer, filled, << >>}
          /\ power' \in {power, "fail"}
          BY <1>6 DEF PacketPlain, dfu_fw_reboot, filled
    <3>3. QED
      <4>1. cur_offset + Len(filled) \in Nat
            BY <3>1 DEF TypeOK
      <4>2. cur_offset' \in Nat
            BY <3>2, <4>1 DEF TypeOK
      <4>3. ota_temp_buffer' \in Seq(Content)
            BY <1>3, <3>1, <3>2, Zenon DEF TypeOK
      <4>4. QED
            BY <3>2, <4>2, <4>3 DEF TypeOK
  <2>2. QED
        BY <1>6, <2>1 DEF PacketPlain, TypeOK, RamOK, tempVars
<1>7. QED
      BY <1>4, <1>5, <1>6 DEF PacketReq

\* A buffer report keeps it: the new resend point is an offset.
LEMMA RamReport ==
    ASSUME TypeOK, NEW size, NEW ok, ReportBufferCrc(size, ok)
    PROVE  RamOK'
<1>1. << >> \in Seq(Content) /\ Used \in Nat
      BY DEF TypeOK, Used
<1>2. cur_offset' \in Nat /\ dfu_resend_offset' \in 0 .. Wrap - 1
  <2>1. CASE UNCHANGED <<cur_offset, dfu_resend_offset>>
        BY <2>1 DEF TypeOK
  <2>2. CASE \E o : BufferWritten(o)
    <3>1. cur_offset' = cur_offset + Used /\ dfu_resend_offset' = NextResend(cur_offset')
          BY <2>2 DEF BufferWritten
    <3>2. cur_offset' \in Nat
          BY <1>1, <3>1 DEF TypeOK
    <3>3. QED
          BY <3>1, <3>2, NextResendType DEF TypeOK
  <2>3. CASE \E o : BufferLost(o)
        BY <2>3 DEF BufferLost, TypeOK
  <2>4. QED
        BY <2>1, <2>2, <2>3 DEF ReportBufferCrc
<1>3. QED
      BY <1>1, <1>2 DEF ReportBufferCrc, TypeOK, RamOK, tempVars

\* RECEIVE_FW_IMAGE_INFO keeps it.
LEMMA RamReceive ==
    ASSUME TypeOK, NEW id \in ImageId, NEW offset \in Offsets, ReceiveFwImageInfo(id, offset)
    PROVE  RamOK'
<1>1. offset \in Nat /\ << >> \in Seq(Content) /\ 0 \in 0 .. Wrap - 1
      BY AnyClientAssumption, ImageAssumption, FlashAssumption
<1>2. QED
      BY <1>1 DEF ReceiveFwImageInfo, TypeOK, RamOK, tempVars

\* START_DFU keeps it: without validated images the new entry starts at 0.
LEMMA RamStart ==
    ASSUME TypeOK, NEW id \in ImageId, NEW total \in Totals, NEW ok, StartDfu(id, total, ok)
    PROVE  RamOK'
<1>1. total \in Nat
      BY AnyClientAssumption
<1>2. NextOffset = 0
      BY DEF NextOffset, TypeOK
<1>3. temp_image_info' \in [0 .. MaxTemp - 1 ->
                              [image_id : ImageId, image_size : Nat, image_offset : Nat]]
      BY <1>1, <1>2 DEF StartDfu, TypeOK
<1>4. is_ota_procedure' \in BOOLEAN
      BY DEF StartDfu, TypeOK
<1>5. QED
      BY <1>1, <1>3, <1>4 DEF StartDfu, TypeOK, RamOK, tempVars

\* A boot restores it.
LEMMA RamBoot ==
    ASSUME TypeOK, Boot
    PROVE  RamOK'
<1>1. /\ << >> \in Seq(Content) /\ 0 \in 0 .. Wrap - 1
      /\ NoEntry \in [image_id : ImageId, image_size : Nat, image_offset : Nat]
      /\ NoId \in ImageId
      BY ServiceAssumption, ImageAssumption, FlashAssumption DEF NoEntry
<1>2. QED
      BY <1>1 DEF Boot, RamReset, RamOK

\* Every step keeps it.
LEMMA RamStep ==
    ASSUME TypeOK, [Next]_dfuVars
    PROVE  RamOK'
<1>1. CASE Command
  <2>1. ASSUME NEW data \in Packets, PacketReq(data)
        PROVE  RamOK'
        BY <2>1, RamPacket
  <2>2. ASSUME NEW size \in 0 .. BUF + 1, NEW ok \in BOOLEAN, ReportBufferCrc(size, ok)
        PROVE  RamOK'
        BY <2>2, RamReport
  <2>3. ASSUME NEW id \in ImageId, NEW total \in Totals, NEW ok \in BOOLEAN,
               StartDfu(id, total, ok)
        PROVE  RamOK'
        BY <2>3, RamStart
  <2>4. ASSUME NEW id \in ImageId, NEW offset \in Offsets, ReceiveFwImageInfo(id, offset)
        PROVE  RamOK'
        BY <2>4, RamReceive
  <2>5. ASSUME NEW id \in ImageId, ReportTargetInfo(id)
        PROVE  RamOK'
        BY <2>5 DEF ReportTargetInfo, TypeOK, RamOK, tempVars
  <2>6. ASSUME NEW id \in ImageId, NEW ok \in BOOLEAN, ValidFw(id, ok)
        PROVE  RamOK'
        BY <2>6 DEF ValidFw, TypeOK, RamOK, tempVars
  <2>7. CASE BufferCheckEn
        BY <2>7 DEF BufferCheckEn, TypeOK, RamOK, tempVars
  <2>8. ASSUME NEW lengthOk \in BOOLEAN, NEW accepted \in BOOLEAN,
               ConnParaToUpdateReq(lengthOk, accepted)
        PROVE  RamOK'
        BY <2>8 DEF ConnParaToUpdateReq, TypeOK, RamOK, sessionVars, tempVars
  <2>9. CASE ActiveImageReset \/ SystemReset
        BY <2>9 DEF ActiveImageReset, SystemReset, dfu_fw_reboot, TypeOK, RamOK, ramVars,
                    sessionVars, tempVars
  <2>10. ASSUME NEW op, NEW ok, Inquiry(op, ok)
        PROVE  RamOK'
        BY <2>10 DEF Inquiry, TypeOK, RamOK, ramVars, sessionVars, tempVars
  <2>11. QED
        BY <1>1, <2>1, <2>2, <2>3, <2>4, <2>5, <2>6, <2>7, <2>8, <2>9, <2>10
        DEF Command, ReceiveIcType, CheckImageVer, Handshake
<1>2. CASE TakeNotif
      BY <1>2 DEF TakeNotif, TypeOK, RamOK, ramVars, sessionVars, tempVars
<1>3. CASE Boot
      BY <1>3, RamBoot
<1>4. CASE UNCHANGED dfuVars
      BY <1>4 DEF dfuVars, TypeOK, RamOK, ramVars, sessionVars, tempVars
<1>5. QED
      BY <1>1, <1>2, <1>3, <1>4 DEF Next

\* The state of the service keeps its shape, whatever the client sends.
THEOREM TypeCorrect == Spec => []TypeOK
<1>1. Init => TypeOK
  <2>1. /\ << >> \in Seq(Content) /\ 0 \in 0 .. Wrap - 1
        /\ NoEntry \in [image_id : ImageId, image_size : Nat, image_offset : Nat]
        /\ NoId \in ImageId
        BY ServiceAssumption, ImageAssumption, FlashAssumption DEF NoEntry
  <2>2. [i \in 0 .. MaxTemp - 1 |-> NoEntry] \in
           [0 .. MaxTemp - 1 -> [image_id : ImageId, image_size : Nat, image_offset : Nat]]
        BY <2>1
  <2>3. Init => nor \in Flash
        BY AnyClientAssumption DEF Init
  <2>4. Init => ota_temp_buffer \in Seq(Content)
        BY <2>1 DEF Init, RamInit
  <2>5. Init => temp_image_info \in
                   [0 .. MaxTemp - 1 -> [image_id : ImageId, image_size : Nat, image_offset : Nat]]
        BY <2>2 DEF Init, RamInit
  <2>6. Init => /\ cur_offset \in Nat /\ image_total_length \in Nat
                /\ dfu_resend_offset \in 0 .. Wrap - 1 /\ image_id \in ImageId
        BY <2>1 DEF Init, RamInit
  <2>7. QED
        BY <2>3, <2>4, <2>5, <2>6 DEF Init, RamInit, TypeOK
<1>2. TypeOK /\ [Next]_dfuVars => TypeOK'
      BY FlashStep, RamStep DEF FlashKeptBut, TypeOK, RamOK
<1>3. QED
      BY <1>1, <1>2, PTL DEF Spec

-----------------------------------------------------------------------------
(* The properties.                                                         *)

\* With bank switching the flash is protected between commands, whatever failed
\* in them.
THEOREM FlashProtected == Spec => []LockedBetween
<1>1. Init => LockedBetween
      BY AnyClientAssumption DEF Init, LockedBetween
<1>2. TypeOK /\ LockedBetween /\ [Next]_dfuVars => LockedBetween'
      BY FlashStep DEF FlashKeptBut, LockedBetween
<1>3. QED
      BY <1>1, <1>2, TypeCorrect, PTL DEF Spec

\* The resend point is always the start of a sector of the image.
THEOREM ResendPointAligned == Spec => []ResendAligned
<1>1. 0 % SECTOR = 0
      BY FlashAssumption, Z3
<1>2. Init => ResendAligned
      BY <1>1 DEF Init, RamInit, ResendAligned
<1>3. TypeOK /\ ResendAligned /\ [Next]_dfuVars => ResendAligned'
  <2> SUFFICES ASSUME TypeOK, ResendAligned, [Next]_dfuVars
               PROVE  ResendAligned'
      OBVIOUS
  <2>1. CASE UNCHANGED dfu_resend_offset
        BY <2>1 DEF ResendAligned
  <2>2. CASE dfu_resend_offset' = 0
        BY <1>1, <2>2 DEF ResendAligned
  <2>3. CASE \E o : BufferWritten(o)
    <3>1. cur_offset' = cur_offset + Used /\ dfu_resend_offset' = NextResend(cur_offset')
          BY <2>3 DEF BufferWritten
    <3>2. cur_offset' \in Nat
          BY <3>1 DEF TypeOK, Used
    <3>3. QED
          BY <3>1, <3>2, NextResendType DEF ResendAligned, TypeOK
  <2>4. UNCHANGED dfu_resend_offset \/ dfu_resend_offset' = 0 \/ \E o : BufferWritten(o)
        BY DEF Next, Command, PacketReq, PacketIgnored, PacketBuffered, PacketPlain,
               ReportBufferCrc, BufferLost, StartDfu, ReceiveFwImageInfo, ReportTargetInfo,
               ValidFw, BufferCheckEn, ConnParaToUpdateReq, ActiveImageReset, SystemReset,
               TakeNotif, Boot, RamReset, dfuVars, ramVars, sessionVars,
               Inquiry, ReceiveIcType, CheckImageVer, Handshake
  <2>5. QED
        BY <2>1, <2>2, <2>3, <2>4
<1>4. QED
      BY <1>2, <1>3, TypeCorrect, PTL DEF Spec

\* The buffer never overflows, in either mode.
THEOREM BufferNeverOverflows == Spec => []BufferFits
<1>1. PlainMax \in Nat /\ BUF \in Nat /\ PlainMax <= BUF
      BY PlainMaxType, ServiceAssumption
<1>2. Len(<< >>) = 0
      OBVIOUS
<1>3. Init => BufferFits
      BY <1>1, <1>2 DEF Init, RamInit, BufferFits, Used
<1>4. TypeOK /\ BufferFits /\ [Next]_dfuVars => BufferFits'
  <2> SUFFICES ASSUME TypeOK, BufferFits, [Next]_dfuVars
               PROVE  BufferFits'
      OBVIOUS
  <2>1. CASE ota_temp_buffer' = << >>
        BY <1>1, <1>2, <2>1 DEF BufferFits, Used
  <2>2. CASE UNCHANGED ota_temp_buffer /\ (UNCHANGED buffer_check_en \/ buffer_check_en')
        BY <1>1, <2>2 DEF BufferFits, Used, TypeOK
  <2>3. ASSUME NEW data \in Packets, PacketBuffered(data)
        PROVE  BufferFits'
    <3>1. CASE UNCHANGED ota_temp_buffer
          BY <2>2, <2>3, <3>1 DEF PacketBuffered
    <3>2. CASE ota_temp_buffer' = ota_temp_buffer \o data /\ ~(Used + Len(data) > BUF)
      <4>1. /\ data \in Seq(Content) /\ ota_temp_buffer \in Seq(Content)
            BY AnyClientAssumption DEF TypeOK
      <4>2. Len(ota_temp_buffer \o data) = Used + Len(data)
            BY <4>1 DEF Used
      <4>3. Used' <= BUF
            BY <1>1, <3>2, <4>1, <4>2 DEF Used
      <4>4. QED
            BY <2>3, <4>3 DEF PacketBuffered, BufferFits
    <3>3. QED
          BY <2>3, <3>1, <3>2 DEF PacketBuffered
  <2>4. ASSUME NEW data \in Packets, PacketPlain(data)
        PROVE  BufferFits'
    <3>1. \/ UNCHANGED ota_temp_buffer
          \/ ota_temp_buffer' = << >>
          \/ Used' <= PlainMax
          BY <2>4 DEF PacketPlain, Used
    <3>2. buffer_check_en' = FALSE /\ UNCHANGED buffer_check_en
          BY <2>4 DEF PacketPlain, TypeOK
    <3>3. QED
          BY <2>1, <2>2, <3>1, <3>2 DEF BufferFits
  <2>5. \/ ota_temp_buffer' = << >>
        \/ UNCHANGED ota_temp_buffer /\ (UNCHANGED buffer_check_en \/ buffer_check_en')
        \/ \E data \in Packets : PacketBuffered(data) \/ PacketPlain(data)
        BY DEF Next, Command, PacketReq, PacketIgnored, ReportBufferCrc, StartDfu,
               ReceiveFwImageInfo, ReportTargetInfo, ValidFw, BufferCheckEn,
               ConnParaToUpdateReq, ActiveImageReset, SystemReset, TakeNotif, Boot, RamReset,
               dfuVars, ramVars, sessionVars, Inquiry, ReceiveIcType, CheckImageVer, Handshake
  <2>6. QED
        BY <2>1, <2>2, <2>3, <2>4, <2>5
<1>5. QED
      BY <1>3, <1>4, TypeCorrect, PTL DEF Spec

\* The client sets a header ready by data only when it does not begin the image
\* or reaches the flash without the uuid, and no command makes another image
\* ready but user data.
THEOREM OnlyUserDataReadied == Spec => NoneReadied
<1>1. TypeOK /\ BufferFits /\ [Next]_dfuVars =>
        (BankSwitch => \A a \in nor'.ready \ nor.ready :
                         a \in ClientReadies \/ \E u \in UserLoop : a = TempBase[u])
      BY FlashStep DEF FlashKeptBut, Readies, UserBanks
<1>2. QED
      BY <1>1, TypeCorrect, BufferNeverOverflows, PTL DEF Spec, NoneReadied
=============================================================================
