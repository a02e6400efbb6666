-------------------------- MODULE SilentOta_proofs --------------------------
(***************************************************************************)
(* The silent update: what the device and the client agree on while an     *)
(* image is sent, and what the flash holds of it, for every layout, every  *)
(* client and any number of faults, lost connections and power losses.     *)
(***************************************************************************)
EXTENDS SilentOta, DfuService_proofs, SequenceTheorems

\* The sizes of the code: DFU_TEMP_BUFFER_SIZE is half a sector, and the length
\* of an image is a uint32_t.
Sizes == /\ BUF <= SECTOR
         /\ \A m \in Image : Total[m] < Wrap

-----------------------------------------------------------------------------
(* Cells of an image.                                                      *)

\* The cells that are sent are contents of the flash.
LEMMA CellsType ==
    ASSUME NEW m \in Image, NEW i \in Nat, NEW length \in Nat, i + length <= Total[m]
    PROVE  /\ Cells(m, i, length) \in Seq(Content)
           /\ Len(Cells(m, i, length)) = length
<1>1. ASSUME NEW k \in 1 .. length
      PROVE  <<m, i + k - 1>> \in Content
  <2>1. i + k - 1 \in 0 .. Total[m] - 1
        BY ImageAssumption
  <2>2. <<m, i + k - 1>> \in {m} \X (0 .. Total[m] - 1)
        BY <2>1
  <2>3. QED
        BY <2>2, DataAssumption DEF Content
<1>2. QED
      BY <1>1 DEF Cells

\* The cells one by one.
LEMMA CellsAt ==
    ASSUME NEW m, NEW i \in Nat, NEW length \in Nat
    PROVE  /\ Cells(m, i, length) \in Seq({m} \X Nat)
           /\ Len(Cells(m, i, length)) = length
           /\ \A k \in 1 .. length : Cells(m, i, length)[k] = <<m, i + k - 1>>
<1>1. ASSUME NEW k \in 1 .. length
      PROVE  <<m, i + k - 1>> \in {m} \X Nat
  <2>1. i + k - 1 \in Nat
        OBVIOUS
  <2>2. QED
        BY <2>1
<1>2. QED
      BY <1>1 DEF Cells

\* Two stretches that meet are one.
LEMMA CellsJoin ==
    ASSUME NEW m, NEW i \in Nat, NEW a \in Nat, NEW b \in Nat
    PROVE  Cells(m, i, a) \o Cells(m, i + a, b) = Cells(m, i, a + b)
<1> DEFINE l == Cells(m, i, a)
           r == Cells(m, i + a, b)
           w == Cells(m, i, a + b)
           S == {m} \X Nat
<1>1. i + a \in Nat /\ a + b \in Nat
      OBVIOUS
<1>2. /\ l \in Seq(S) /\ Len(l) = a /\ \A k \in 1 .. a : l[k] = <<m, i + k - 1>>
      /\ r \in Seq(S) /\ Len(r) = b /\ \A k \in 1 .. b : r[k] = <<m, i + a + k - 1>>
      /\ w \in Seq(S) /\ Len(w) = a + b /\ \A k \in 1 .. a + b : w[k] = <<m, i + k - 1>>
      BY <1>1, CellsAt
<1> HIDE DEF l, r, w, S
<1>3. /\ l \o r \in Seq(S) /\ Len(l \o r) = a + b
      /\ \A k \in 1 .. a + b : (l \o r)[k] = IF k <= a THEN l[k] ELSE r[k - a]
      BY <1>2, ConcatProperties
<1>4. ASSUME NEW k \in 1 .. a + b
      PROVE  (l \o r)[k] = w[k]
  <2>1. CASE k <= a
    <3>1. k \in 1 .. a /\ (l \o r)[k] = l[k]
          BY <1>3, <2>1
    <3>2. QED
          BY <1>2, <3>1
  <2>2. CASE ~(k <= a)
    <3>1. k - a \in 1 .. b /\ (l \o r)[k] = r[k - a]
          BY <1>3, <2>2
    <3>2. r[k - a] = <<m, i + a + (k - a) - 1>>
          BY <1>2, <3>1
    <3>3. i + a + (k - a) - 1 = i + k - 1
          OBVIOUS
    <3>4. QED
          BY <1>2, <3>1, <3>2, <3>3
  <2>3. QED
        BY <2>1, <2>2
<1>5. l \o r = w
      BY <1>2, <1>3, <1>4, SeqEqual
<1>6. QED
      BY <1>5 DEF l, r, w

\* No cells.
LEMMA CellsNone ==
    ASSUME NEW m, NEW i
    PROVE  Cells(m, i, 0) = << >>
BY DEF Cells

-----------------------------------------------------------------------------
(* The notifications on their way.                                         *)

Answers == {"BUFFER_CHECK_EN", "REPORT_TARGET_INFO", "START_DFU", "REPORT_BUFFER_CRC",
            "VALID_FW"}
Results == {"SUCCESS", "INVALID_PARAMETER", "LENGTH_ERROR", "CRC_ERROR", "PROG_ERROR",
            "ERASE_ERROR"}
Notification == [op : Answers, res : Results, off : Nat]

\* No answer to a buffer report is on its way.
NoReport(q) == \A i \in 1 .. Len(q) : q[i].op # "REPORT_BUFFER_CRC"

\* At most one is, and it tells the offset off.
OneReport(q, off) ==
    \A i \in 1 .. Len(q) : q[i].op = "REPORT_BUFFER_CRC" =>
        /\ q[i].off = off
        /\ \A j \in 1 .. Len(q) : q[j].op = "REPORT_BUFFER_CRC" => j = i

\* The queue with one more notification.
LEMMA QueueAppend ==
    ASSUME NEW q \in Seq(Notification), NEW n \in Notification
    PROVE  /\ Append(q, n) \in Seq(Notification)
           /\ Len(Append(q, n)) = Len(q) + 1
           /\ \A i \in 1 .. Len(q) : Append(q, n)[i] = q[i]
           /\ Append(q, n)[Len(q) + 1] = n
OBVIOUS

\* An answer to another command does not matter.
LEMMA AppendOther ==
    ASSUME NEW q \in Seq(Notification), NEW n \in Notification, n.op # "REPORT_BUFFER_CRC",
           NEW off
    PROVE  /\ NoReport(q) => NoReport(Append(q, n))
           /\ OneReport(q, off) => OneReport(Append(q, n), off)
<1> DEFINE w == Append(q, n)
<1>1. /\ Len(w) = Len(q) + 1 /\ Len(q) \in Nat
      /\ \A i \in 1 .. Len(q) : w[i] = q[i]
      /\ w[Len(q) + 1] = n
      BY QueueAppend
<1> HIDE DEF w
<1>2. \A i \in 1 .. Len(w) : i \in 1 .. Len(q) \/ w[i] = n
      BY <1>1
<1>3. ASSUME NoReport(q)
      PROVE  NoReport(w)
      BY <1>1, <1>2, <1>3 DEF NoReport
<1>4. ASSUME OneReport(q, off)
      PROVE  OneReport(w, off)
      BY <1>1, <1>2, <1>4 DEF OneReport
<1>5. QED
      BY <1>3, <1>4 DEF w

\* The answer to the report of a client that had none on its way.
LEMMA AppendReport ==
    ASSUME NEW q \in Seq(Notification), NEW n \in Notification, NoReport(q)
    PROVE  OneReport(Append(q, n), n.off)
<1> DEFINE w == Append(q, n)
<1>1. /\ Len(w) = Len(q) + 1 /\ Len(q) \in Nat
      /\ \A i \in 1 .. Len(q) : w[i] = q[i]
      /\ w[Len(q) + 1] = n
      BY QueueAppend
<1> HIDE DEF w
<1>2. \A i \in 1 .. Len(w) : i \in 1 .. Len(q) \/ (i = Len(q) + 1 /\ w[i] = n)
      BY <1>1
<1>3. \A i \in 1 .. Len(q) : w[i].op # "REPORT_BUFFER_CRC"
      BY <1>1 DEF NoReport
<1>4. OneReport(w, n.off)
      BY <1>2, <1>3 DEF OneReport
<1>5. QED
      BY <1>4 DEF w

\* The queue without its first notification.
LEMMA QueueTail ==
    ASSUME NEW q \in Seq(Notification), q # << >>, NEW off
    PROVE  /\ Head(q) \in Notification
           /\ Tail(q) \in Seq(Notification)
           /\ NoReport(q) => NoReport(Tail(q)) /\ Head(q).op # "REPORT_BUFFER_CRC"
           /\ OneReport(q, off) => OneReport(Tail(q), off)
           /\ OneReport(q, off) /\ Head(q).op = "REPORT_BUFFER_CRC" =>
                 NoReport(Tail(q)) /\ Head(q).off = off
<1> DEFINE t == Tail(q)
           h == Head(q)
<1>1. /\ Len(q) \in Nat \ {0} /\ Len(t) = Len(q) - 1
      /\ \A i \in 1 .. Len(t) : t[i] = q[i + 1]
      /\ h = q[1] /\ h \in Notification /\ t \in Seq(Notification)
      OBVIOUS
<1> HIDE DEF t, h
<1>2. \A i \in 1 .. Len(t) : i + 1 \in 1 .. Len(q) /\ i + 1 # 1
      BY <1>1
<1>3. 1 \in 1 .. Len(q)
      BY <1>1
<1>4. ASSUME NoReport(q)
      PROVE  NoReport(t) /\ h.op # "REPORT_BUFFER_CRC"
      BY <1>1, <1>2, <1>3, <1>4 DEF NoReport
<1>5. ASSUME OneReport(q, off)
      PROVE  OneReport(t, off)
  <2> SUFFICES ASSUME NEW i \in 1 .. Len(t), t[i].op = "REPORT_BUFFER_CRC"
               PROVE  /\ t[i].off = off
                      /\ \A j \in 1 .. Len(t) : t[j].op = "REPORT_BUFFER_CRC" => j = i
      BY DEF OneReport
  <2>1. i + 1 \in 1 .. Len(q) /\ t[i] = q[i + 1]
        BY <1>1, <1>2
  <2>2. q[i + 1].off = off
        BY <1>5, <2>1 DEF OneReport
  <2>3. ASSUME NEW j \in 1 .. Len(t), t[j].op = "REPORT_BUFFER_CRC"
        PROVE  j = i
    <3>1. j + 1 \in 1 .. Len(q) /\ t[j] = q[j + 1]
          BY <1>1, <1>2
    <3>2. j + 1 = i + 1
          BY <1>5, <2>1, <2>3, <3>1 DEF OneReport
    <3>3. QED
          BY <3>2
  <2>4. QED
        BY <2>1, <2>2, <2>3
<1>6. ASSUME OneReport(q, off), h.op = "REPORT_BUFFER_CRC"
      PROVE  NoReport(t) /\ h.off = off
  <2>1. \A i \in 1 .. Len(q) : q[i].op = "REPORT_BUFFER_CRC" => i = 1
        BY <1>1, <1>3, <1>6 DEF OneReport
  <2>2. NoReport(t)
        BY <1>1, <1>2, <2>1 DEF NoReport
  <2>3. QED
        BY <1>1, <1>3, <1>6, <2>2 DEF OneReport
<1>7. QED
      BY <1>1, <1>4, <1>5, <1>6 DEF t, h

-----------------------------------------------------------------------------
(* The session: what the device and the client agree on.                   *)

\* The shape of what the session is about.
Shape ==
    /\ current \in [by : Clients, k : Nat] /\ current.k \in 1 .. Len(Plan)
    /\ pos \in Nat /\ sent \in Nat /\ intact \in BOOLEAN
    /\ is_ota_procedure \in BOOLEAN /\ buffer_check_en \in BOOLEAN
    /\ ota_temp_buffer \in Seq(Content)
    /\ cur_offset \in 0 .. Wrap - 1
    /\ dfu_resend_offset \in 0 .. Wrap - 1 /\ dfu_resend_offset % SECTOR = 0
    /\ image_id \in ImageId
    /\ image_total_length \in Nat
    /\ notif \in Seq(Notification)
    /\ power \in {"on", "fail", "active"}

\* The states of a client whose mode the device knows, and those of a client
\* whose START_DFU the device has taken.
ModeStates  == {"BUFFER_CHECK_EN", "info", "REPORT_TARGET_INFO", "start", "START_DFU", "offset",
                "send", "REPORT_BUFFER_CRC", "VALID_FW"}
StartStates == {"START_DFU", "offset", "send", "REPORT_BUFFER_CRC"}

\* The buffer check is on when the client uses it.
ModeOK == /\ buffer_check_en => Checked
          /\ Running /\ client \in ModeStates => (Checked => buffer_check_en)

\* The device is in the procedure for the image of the client.
StartOK == Running /\ client \in StartStates =>
               /\ is_ota_procedure
               /\ image_id = Id
               /\ image_total_length = Total[Img]

\* The writer is at most a sector past the resend point.
ResendClose == cur_offset - dfu_resend_offset \in 0 .. SECTOR - 1

\* The device is not ahead of the client, with the buffer check it is behind by
\* no more than a buffer, and it is where the client is when nothing got lost.
SendOK == Running /\ client = "send" =>
              /\ pos + sent <= Total[Img]
              /\ cur_offset + Used <= pos + sent
              /\ Checked => cur_offset = pos /\ sent <= BUF /\ ResendClose
              /\ intact => /\ cur_offset + Used = pos + sent
                           /\ ota_temp_buffer = Cells(Img, cur_offset, Used)

\* After a buffer report the buffer is empty, and the answer tells the offset.
ReportOK == /\ Running /\ client = "REPORT_BUFFER_CRC" =>
                   /\ Checked /\ ResendClose
                   /\ ota_temp_buffer = << >>
                   /\ cur_offset <= Total[Img]
            /\ client = "REPORT_BUFFER_CRC" => OneReport(notif, cur_offset)
            /\ client # "REPORT_BUFFER_CRC" => NoReport(notif)

SessionInv == Shape /\ ModeOK /\ StartOK /\ SendOK /\ ReportOK

\* The client, its image and the id of it.
LEMMA ImageType ==
    ASSUME Shape
    PROVE  /\ Plan \in Seq(Image) /\ Plan # << >>
           /\ Img \in Image /\ Total[Img] \in Nat \ {0}
           /\ Id \in ImageId /\ Id # NoId
           /\ Checked \in BOOLEAN
           /\ current.by.chunks \subseteq Nat \ {0}
           /\ current.by.missed \in BOOLEAN
<1>1. current.by \in Clients
      BY DEF Shape
<1>2. /\ Plan \in Seq(Image) /\ Plan # << >> /\ Checked \in BOOLEAN
      /\ current.by.chunks \subseteq Nat \ {0} /\ current.by.missed \in BOOLEAN
      BY <1>1, ClientAssumption DEF Plan, Checked
<1>3. Img \in Image
      BY <1>2 DEF Shape, Img
<1>4. QED
      BY <1>2, <1>3, LayoutAssumption, ImageAssumption DEF Id

\* The session is about these variables.
sessionState == <<sessionVars, clientVars, notif>>

\* A step that leaves them alone keeps the session, also when the device stops.
LEMMA SessionUntouched ==
    ASSUME SessionInv, UNCHANGED sessionState,
           power' = power \/ power' = "fail" \/ power' = "active"
    PROVE  SessionInv'
<1>1. /\ UNCHANGED <<client, current, pos, sent, intact, notif>>
      /\ UNCHANGED <<is_ota_procedure, buffer_check_en, ota_temp_buffer, cur_offset,
                     dfu_resend_offset, image_id, image_total_length>>
      BY DEF sessionState, sessionVars, clientVars
<1>2. Running' => Running
      BY DEF Running
<1>3. Shape'
      BY <1>1 DEF SessionInv, Shape, Plan
<1>4. ModeOK'
      BY <1>1, <1>2 DEF SessionInv, ModeOK, Checked
<1>5. StartOK'
      BY <1>1, <1>2 DEF SessionInv, StartOK, Id, Img, Plan
<1>6. SendOK'
      BY <1>1, <1>2 DEF SessionInv, SendOK, Used, Img, Plan, Checked, ResendClose
<1>7. ReportOK'
      BY <1>1, <1>2 DEF SessionInv, ReportOK, Img, Plan, Checked, ResendClose
<1>8. QED
      BY <1>3, <1>4, <1>5, <1>6, <1>7 DEF SessionInv

\* Away from sending, the session asks for the shape, the mode, the procedure
\* and that no answer to a buffer report is on its way.
LEMMA SessionElsewhere ==
    ASSUME Shape', ModeOK', StartOK', NoReport(notif)',
           client' \notin {"send", "REPORT_BUFFER_CRC"}
    PROVE  SessionInv'
BY DEF SessionInv, SendOK, ReportOK

\* The client goes on with the same image.
LEMMA SameImage ==
    ASSUME UNCHANGED current
    PROVE  Plan' = Plan /\ Img' = Img /\ Id' = Id /\ Checked' = Checked
BY DEF Plan, Img, Id, Checked

-----------------------------------------------------------------------------
(* The steps of the client that begin and end an update.                   *)

\* A client that connects starts with its first image, or asks for a reset.
LEMMA SessionConnect ==
    ASSUME SessionInv, Connect \/ Reconnect
    PROVE  SessionInv'
<1>1. /\ UNCHANGED <<pos, sent, intact, notif, power>>
      /\ UNCHANGED <<is_ota_procedure, buffer_check_en, ota_temp_buffer, cur_offset,
                     dfu_resend_offset, image_id, image_total_length>>
      /\ client' \in {"enable", "reset"}
      /\ current' \in {current, [current EXCEPT !.k = 1]}
      BY DEF Connect, Reconnect, dfuVars, ramVars, sessionVars
<1>2. /\ current \in [by : Clients, k : Nat] /\ current.k \in 1 .. Len(Plan)
      /\ Plan \in Seq(Image) /\ Plan # << >>
      BY ImageType DEF SessionInv, Shape
<1>3. /\ current' \in [by : Clients, k : Nat]
      /\ current'.by = current.by
      /\ current'.k \in {current.k, 1}
      BY <1>1, <1>2
<1>4. Plan' = Plan /\ Checked' = Checked
      BY <1>3 DEF Plan, Checked
<1>5. current'.k \in 1 .. Len(Plan')
      BY <1>2, <1>3, <1>4
<1>6. Shape'
      BY <1>1, <1>3, <1>5 DEF SessionInv, Shape
<1>7. ModeOK'
      BY <1>1, <1>4 DEF SessionInv, ModeOK, ModeStates
<1>8. StartOK'
      BY <1>1 DEF StartOK, StartStates
<1>9. NoReport(notif)'
  <2>1. client # "REPORT_BUFFER_CRC"
        BY DEF Connect, Reconnect
  <2>2. QED
        BY <1>1, <2>1 DEF SessionInv, ReportOK
<1>10. QED
      BY <1>1, <1>6, <1>7, <1>8, <1>9, SessionElsewhere

\* A command that is answered, by one notification that is no buffer report.
LEMMA Answered ==
    ASSUME SessionInv, client # "REPORT_BUFFER_CRC",
           NEW op \in Answers \ {"REPORT_BUFFER_CRC"}, NEW res \in Results, NEW off \in Nat,
           Notify(op, res, off)
    PROVE  /\ notif' \in Seq(Notification)
           /\ NoReport(notif)'
<1> DEFINE n == [op |-> op, res |-> res, off |-> off]
<1>1. n \in Notification /\ n.op # "REPORT_BUFFER_CRC" /\ notif' = Append(notif, n)
      BY DEF Notification, Notify
<1> HIDE DEF n
<1>2. notif \in Seq(Notification) /\ NoReport(notif)
      BY DEF SessionInv, Shape, ReportOK
<1>3. QED
      BY <1>1, <1>2, AppendOther, QueueAppend

\* BUFFER_CHECK_EN, which only a client with buffer check sends.
LEMMA SessionEnable ==
    ASSUME SessionInv, Enable
    PROVE  SessionInv'
<1>1. /\ UNCHANGED <<current, pos, sent, intact, power>>
      /\ UNCHANGED <<is_ota_procedure, ota_temp_buffer, cur_offset,
                     dfu_resend_offset, image_id, image_total_length>>
      /\ \/ /\ Checked /\ buffer_check_en' = TRUE
            /\ Notify("BUFFER_CHECK_EN", "SUCCESS", BUF)
            /\ client' = "BUFFER_CHECK_EN"
         \/ /\ ~Checked /\ UNCHANGED <<buffer_check_en, notif>>
            /\ client' = "info"
      /\ client = "enable"
      BY DEF Enable, At, GoTo, BufferCheckEn, dfuVars, ramVars, sessionVars
<1>2. notif' \in Seq(Notification) /\ NoReport(notif)'
  <2>1. CASE UNCHANGED notif
        BY <1>1, <2>1 DEF SessionInv, Shape, ReportOK
  <2>2. CASE Notify("BUFFER_CHECK_EN", "SUCCESS", BUF)
    <3>1. /\ "BUFFER_CHECK_EN" \in Answers \ {"REPORT_BUFFER_CRC"}
          /\ "SUCCESS" \in Results /\ BUF \in Nat /\ client # "REPORT_BUFFER_CRC"
          BY <1>1, ServiceAssumption DEF Answers, Results
    <3>2. QED
          BY <2>2, <3>1, Answered, Zenon
  <2>3. QED
        BY <1>1, <2>1, <2>2
<1>3. Plan' = Plan /\ Img' = Img /\ Id' = Id /\ Checked' = Checked
      BY <1>1, SameImage
<1>4. buffer_check_en' \in BOOLEAN
      BY <1>1 DEF SessionInv, Shape
<1>5. Shape'
      BY <1>1, <1>2, <1>3, <1>4 DEF SessionInv, Shape
<1>6. ModeOK'
      BY <1>1, <1>3 DEF SessionInv, ModeOK
<1>7. StartOK'
      BY <1>1 DEF StartOK, StartStates
<1>8. QED
      BY <1>1, <1>2, <1>5, <1>6, <1>7, SessionElsewhere

\* REPORT_TARGET_INFO.
LEMMA SessionInfo ==
    ASSUME SessionInv, Info
    PROVE  SessionInv'
<1>1. /\ UNCHANGED <<current, pos, sent, intact, power>>
      /\ UNCHANGED <<is_ota_procedure, buffer_check_en, ota_temp_buffer,
                     dfu_resend_offset, image_total_length>>
      /\ Notify("REPORT_TARGET_INFO", "SUCCESS", 0)
      /\ image_id' = Id /\ cur_offset' = 0
      /\ client = "info" /\ client' = "REPORT_TARGET_INFO"
      BY DEF Info, At, GoTo, ReportTargetInfo
<1>2. notif' \in Seq(Notification) /\ NoReport(notif)'
  <2>1. /\ "REPORT_TARGET_INFO" \in Answers \ {"REPORT_BUFFER_CRC"}
        /\ "SUCCESS" \in Results /\ 0 \in Nat /\ client # "REPORT_BUFFER_CRC"
        BY <1>1 DEF Answers, Results
  <2>2. QED
        BY <1>1, <2>1, Answered, Zenon
<1>3. Plan' = Plan /\ Img' = Img /\ Id' = Id /\ Checked' = Checked
      BY <1>1, SameImage
<1>4. Id \in ImageId /\ 0 \in 0 .. Wrap - 1
      BY ImageType, ServiceAssumption, ImageAssumption, FlashAssumption DEF SessionInv
<1>5. Shape'
      BY <1>1, <1>2, <1>3, <1>4 DEF SessionInv, Shape
<1>6. ModeOK'
      BY <1>1, <1>3 DEF SessionInv, ModeOK, ModeStates, Running
<1>7. StartOK'
      BY <1>1 DEF StartOK, StartStates
<1>8. QED
      BY <1>1, <1>2, <1>5, <1>6, <1>7, SessionElsewhere

\* START_DFU: the device takes the image, for its id is not NoId.
LEMMA SessionStart ==
    ASSUME SessionInv, Start
    PROVE  SessionInv'
<1>1. Id \in ImageId /\ Id # NoId /\ Total[Img] \in Nat
      BY ImageType DEF SessionInv
<1>2. /\ UNCHANGED <<current, pos, sent, intact, power>>
      /\ UNCHANGED <<buffer_check_en, ota_temp_buffer, cur_offset, dfu_resend_offset>>
      /\ Notify("START_DFU", "SUCCESS", 0)
      /\ image_id' = Id /\ image_total_length' = Total[Img] /\ is_ota_procedure' = TRUE
      /\ client = "start" /\ client' = "START_DFU"
      BY <1>1 DEF Start, At, GoTo, StartDfu
<1>3. notif' \in Seq(Notification) /\ NoReport(notif)'
  <2>1. /\ "START_DFU" \in Answers \ {"REPORT_BUFFER_CRC"}
        /\ "SUCCESS" \in Results /\ 0 \in Nat /\ client # "REPORT_BUFFER_CRC"
        BY <1>2 DEF Answers, Results
  <2>2. QED
        BY <1>2, <2>1, Answered, Zenon
<1>4. Plan' = Plan /\ Img' = Img /\ Id' = Id /\ Checked' = Checked
      BY <1>2, SameImage
<1>5. Shape'
      BY <1>1, <1>2, <1>3, <1>4 DEF SessionInv, Shape
<1>6. ModeOK'
      BY <1>2, <1>4 DEF SessionInv, ModeOK, ModeStates, Running
<1>7. StartOK'
      BY <1>2, <1>4 DEF StartOK
<1>8. QED
      BY <1>2, <1>3, <1>5, <1>6, <1>7, SessionElsewhere

\* RECEIVE_FW_IMAGE_INFO: both sides start at the start of the image.
LEMMA SessionOffset ==
    ASSUME SessionInv, Offset
    PROVE  SessionInv'
<1>1. /\ UNCHANGED <<current, power, notif>>
      /\ UNCHANGED <<is_ota_procedure, buffer_check_en, image_total_length>>
      /\ image_id' = Id /\ cur_offset' = 0 /\ ota_temp_buffer' = << >> /\ dfu_resend_offset' = 0
      /\ pos' = 0 /\ sent' = 0 /\ intact' = TRUE
      /\ client = "offset" /\ client' = "send"
      BY DEF Offset, At, ReceiveFwImageInfo
<1>2. Plan' = Plan /\ Img' = Img /\ Id' = Id /\ Checked' = Checked
      BY <1>1, SameImage
<1>3. /\ Id \in ImageId /\ Total[Img] \in Nat
      /\ 0 \in 0 .. Wrap - 1 /\ SECTOR \in Nat \ {0} /\ BUF \in Nat
      BY ImageType, ServiceAssumption, ImageAssumption, FlashAssumption DEF SessionInv
<1>4. 0 % SECTOR = 0
      BY <1>3, Z3
<1>5. << >> \in Seq(Content) /\ Used' = 0
      BY <1>1 DEF Used
<1>6. Shape'
      BY <1>1, <1>2, <1>3, <1>4, <1>5 DEF SessionInv, Shape
<1>7. ModeOK'
      BY <1>1, <1>2 DEF SessionInv, ModeOK, ModeStates, Running
<1>8. StartOK'
      BY <1>1, <1>2 DEF SessionInv, StartOK, StartStates, Running
<1>9. SendOK'
  <2>1. ota_temp_buffer' = Cells(Img', cur_offset', Used')
        BY <1>1, <1>5, CellsNone
  <2>2. ResendClose'
        BY <1>1, <1>3 DEF ResendClose
  <2>3. QED
        BY <1>1, <1>2, <1>3, <1>5, <2>1, <2>2 DEF SendOK
<1>10. ReportOK'
      BY <1>1 DEF SessionInv, ReportOK
<1>11. QED
      BY <1>6, <1>7, <1>8, <1>9, <1>10 DEF SessionInv

\* VALID_FW.
LEMMA SessionValidFw ==
    ASSUME SessionInv, SendValidFw
    PROVE  SessionInv'
<1>1. /\ UNCHANGED <<current, pos, sent, intact, power, notif>>
      /\ UNCHANGED <<is_ota_procedure, buffer_check_en, ota_temp_buffer, cur_offset,
                     dfu_resend_offset, image_total_length>>
      /\ image_id' = Id
      /\ client = "send" /\ client' = "VALID_FW"
      BY DEF SendValidFw, At, GoTo, ValidFw
<1>2. Plan' = Plan /\ Img' = Img /\ Id' = Id /\ Checked' = Checked
      BY <1>1, SameImage
<1>3. Id \in ImageId
      BY ImageType DEF SessionInv
<1>4. Shape'
      BY <1>1, <1>2, <1>3 DEF SessionInv, Shape
<1>5. ModeOK'
      BY <1>1, <1>2 DEF SessionInv, ModeOK, ModeStates, Running
<1>6. StartOK'
      BY <1>1 DEF StartOK, StartStates
<1>7. NoReport(notif)'
      BY <1>1 DEF SessionInv, ReportOK
<1>8. QED
      BY <1>1, <1>4, <1>5, <1>6, <1>7, SessionElsewhere

\* The commands that end an update.
LEMMA SessionEnd ==
    ASSUME SessionInv, SendActiveImageReset \/ SendSystemReset
    PROVE  SessionInv'
<1>1. /\ UNCHANGED <<current, pos, sent, intact, notif>>
      /\ UNCHANGED <<is_ota_procedure, buffer_check_en, ota_temp_buffer, cur_offset,
                     dfu_resend_offset, image_id, image_total_length>>
      /\ power' \in {power, "fail"}
      /\ client \in {"activate", "reset"} /\ client' \in {"done", "off", "declined"}
      BY DEF SendActiveImageReset, SendSystemReset, ActiveImageReset, SystemReset, At,
             dfu_fw_reboot, ramVars, sessionVars
<1>2. Plan' = Plan /\ Checked' = Checked
      BY <1>1, SameImage
<1>3. Shape'
      BY <1>1, <1>2 DEF SessionInv, Shape
<1>4. ModeOK'
      BY <1>1, <1>2 DEF SessionInv, ModeOK, ModeStates
<1>5. StartOK'
      BY <1>1 DEF StartOK, StartStates
<1>6. NoReport(notif)'
      BY <1>1 DEF SessionInv, ReportOK
<1>7. QED
      BY <1>1, <1>3, <1>4, <1>5, <1>6, SessionElsewhere

-----------------------------------------------------------------------------
(* Packets.                                                                *)

\* What a packet does to the buffer and the offset: it resets the device, is
\* added to the buffer, or is flushed with it.
LEMMA PacketEffect ==
    ASSUME NEW data, PacketReq(data), is_ota_procedure
    PROVE  /\ UNCHANGED <<is_ota_procedure, buffer_check_en, dfu_resend_offset, image_id,
                          image_total_length, notif>>
           /\ \/ power' = "fail" /\ UNCHANGED <<ota_temp_buffer, cur_offset>>
              \/ UNCHANGED <<power, cur_offset>> /\ ota_temp_buffer' = ota_temp_buffer \o data
              \/ /\ UNCHANGED power
                 /\ ~buffer_check_en
                 /\ cur_offset' = cur_offset + Len(ota_temp_buffer \o data)
                 /\ ota_temp_buffer' = << >>
BY DEF PacketReq, PacketIgnored, PacketBuffered, PacketPlain, dfu_fw_reboot

\* A packet that arrives moves both sides by its length, and the buffer holds
\* what the client sent when all packets arrive as they were sent.
LEMMA SessionPacket ==
    ASSUME SessionInv, Sizes, Running, client = "send", UNCHANGED <<client, current, pos>>,
           NEW length \in Nat \ {0}, NEW fate \in {"arrives", "damaged", "lost"},
           Packet(length, fate),
           pos + sent + length <= Total[Img], Checked => sent + length <= BUF
    PROVE  SessionInv'
<1> DEFINE cells == Cells(Img, pos + sent, length)
<1>1. /\ pos \in Nat /\ sent \in Nat /\ intact \in BOOLEAN
      /\ ota_temp_buffer \in Seq(Content) /\ Used \in Nat
      /\ cur_offset \in Nat /\ cur_offset < Wrap /\ Wrap \in Nat
      /\ Img \in Image /\ Total[Img] \in Nat /\ Total[Img] < Wrap /\ Checked \in BOOLEAN
      BY ImageType, ServiceAssumption, ImageAssumption, FlashAssumption DEF SessionInv, Shape, Used, Sizes
<1>2. /\ is_ota_procedure /\ (Checked => buffer_check_en) /\ (buffer_check_en => Checked)
      /\ cur_offset + Used <= pos + sent
      /\ Checked => cur_offset = pos /\ ResendClose
      /\ intact => /\ cur_offset + Used = pos + sent
                   /\ ota_temp_buffer = Cells(Img, cur_offset, Used)
      BY DEF SessionInv, SendOK, StartOK, ModeOK, StartStates, ModeStates
<1>3. pos + sent \in Nat
      BY <1>1
<1>4. cells \in Seq(Content) /\ Len(cells) = length
      BY <1>1, <1>3, CellsType
<1> HIDE DEF cells
<1>5. /\ sent' = sent + length
      /\ \/ fate = "lost" /\ UNCHANGED dfuVars /\ intact' = FALSE
         \/ \E data \in Seq(Content) : /\ Len(data) = length /\ PacketReq(data)
                                       /\ \/ UNCHANGED intact /\ data = cells
                                          \/ intact' = FALSE
  <2>1. CASE fate = "arrives"
        BY <1>4, <2>1 DEF Packet, cells
  <2>2. CASE fate = "damaged"
    <3>1. [cells EXCEPT ![1] = Torn] \in Seq(Content) /\ Len([cells EXCEPT ![1] = Torn]) = length
          BY <1>4 DEF Content
    <3>2. QED
          BY <2>2, <3>1 DEF Packet, cells
  <2>3. CASE fate = "lost"
        BY <2>3 DEF Packet
  <2>4. QED
        BY <2>1, <2>2, <2>3
<1> DEFINE moved ==
        /\ UNCHANGED <<is_ota_procedure, buffer_check_en, dfu_resend_offset, image_id,
                       image_total_length, notif>>
        /\ power' \in {power, "fail"}
        /\ cur_offset' \in Nat /\ cur_offset' < Wrap /\ ota_temp_buffer' \in Seq(Content)
        /\ intact' \in BOOLEAN
        /\ power' = power => /\ cur_offset' + Used' <= pos + sent'
                             /\ Checked => UNCHANGED cur_offset
                             /\ intact' => /\ cur_offset' + Used' = pos + sent'
                                           /\ ota_temp_buffer' = Cells(Img, cur_offset', Used')
<1>6. moved
  <2>1. CASE fate = "lost" /\ UNCHANGED dfuVars /\ intact' = FALSE
    <3>1. /\ UNCHANGED <<is_ota_procedure, buffer_check_en, dfu_resend_offset, image_id,
                         image_total_length, notif, power, cur_offset, ota_temp_buffer>>
          /\ Used' = Used /\ intact' = FALSE
          BY <2>1 DEF dfuVars, ramVars, sessionVars, Used
    <3>2. cur_offset + Used <= pos + sent'
          BY <1>1, <1>2, <1>5
    <3>3. QED
          BY <1>1, <3>1, <3>2
  <2>2. ASSUME NEW data \in Seq(Content), Len(data) = length, PacketReq(data),
               \/ UNCHANGED intact /\ data = cells
               \/ intact' = FALSE
        PROVE  moved
    <3> DEFINE filled == ota_temp_buffer \o data
    <3>1. filled \in Seq(Content) /\ Len(filled) = Used + length
          BY <1>1, <2>2 DEF Used
    <3>2. ASSUME intact'
          PROVE  /\ cur_offset + Len(filled) = pos + sent'
                 /\ filled = Cells(Img, cur_offset, Len(filled))
      <4>1. intact /\ data = cells
            BY <2>2, <3>2
      <4>2. pos + sent = cur_offset + Used /\ ota_temp_buffer = Cells(Img, cur_offset, Used)
            BY <1>2, <4>1
      <4>3. data = Cells(Img, cur_offset + Used, length)
            BY <4>1, <4>2 DEF cells
      <4>4. filled = Cells(Img, cur_offset, Used + length)
        <5>1. cur_offset \in Nat /\ Used \in Nat /\ length \in Nat
              BY <1>1
        <5>2. Cells(Img, cur_offset, Used) \o Cells(Img, cur_offset + Used, length)
                 = Cells(Img, cur_offset, Used + length)
              BY <5>1, CellsJoin, Zenon
        <5>3. QED
              BY <4>2, <4>3, <5>2
      <4>5. cur_offset + (Used + length) = pos + sent'
            BY <1>1, <1>5, <4>2
      <4>6. QED
            BY <3>1, <4>4, <4>5
    <3>3. cur_offset + Len(filled) \in Nat /\ cur_offset + Len(filled) <= pos + sent'
          BY <1>1, <1>2, <1>5, <3>1
    <3>4. cur_offset + Len(filled) < Wrap
          BY <1>1, <1>5, <3>3
    <3> HIDE DEF filled
    <3>5. /\ UNCHANGED <<is_ota_procedure, buffer_check_en, dfu_resend_offset, image_id,
                         image_total_length, notif>>
          /\ \/ power' = "fail" /\ UNCHANGED <<ota_temp_buffer, cur_offset>>
             \/ UNCHANGED <<power, cur_offset>> /\ ota_temp_buffer' = filled
             \/ /\ UNCHANGED power
                /\ ~buffer_check_en
                /\ cur_offset' = cur_offset + Len(filled)
                /\ ota_temp_buffer' = << >>
          BY <1>2, <2>2, PacketEffect DEF filled
    <3>6. intact' \in BOOLEAN
          BY <1>1, <2>2
    <3>7. CASE power' = "fail" /\ UNCHANGED <<ota_temp_buffer, cur_offset>>
          BY <1>1, <3>5, <3>6, <3>7 DEF Running
    <3>8. CASE UNCHANGED <<power, cur_offset>> /\ ota_temp_buffer' = filled
          BY <1>1, <3>1, <3>2, <3>3, <3>5, <3>6, <3>8 DEF Used
    <3>9. CASE /\ UNCHANGED power
               /\ ~buffer_check_en
               /\ cur_offset' = cur_offset + Len(filled)
               /\ ota_temp_buffer' = << >>
      <4>1. << >> \in Seq(Content) /\ Used' = 0 /\ Cells(Img, cur_offset', Used') = << >>
            BY <3>9, CellsNone DEF Used
      <4>2. QED
            BY <1>1, <1>2, <3>2, <3>3, <3>4, <3>5, <3>6, <3>9, <4>1
    <3>10. QED
          BY <3>5, <3>7, <3>8, <3>9
  <2>3. QED
        BY <1>5, <2>1, <2>2
<1>7. Plan' = Plan /\ Img' = Img /\ Id' = Id /\ Checked' = Checked
      BY SameImage
<1>8. Shape'
      BY <1>1, <1>5, <1>6, <1>7 DEF SessionInv, Shape
<1>9. ModeOK'
      BY <1>6, <1>7 DEF SessionInv, ModeOK, Running
<1>10. StartOK'
      BY <1>6, <1>7 DEF SessionInv, StartOK, Running
<1>11. SendOK'
  <2>1. /\ pos' + sent' <= Total[Img']
        /\ Checked' => sent' <= BUF
        BY <1>1, <1>5, <1>7
  <2>2. power' = power => /\ cur_offset' + Used' <= pos' + sent'
                          /\ Checked' => cur_offset' = pos' /\ ResendClose'
                          /\ intact' => /\ cur_offset' + Used' = pos' + sent'
                                        /\ ota_temp_buffer' = Cells(Img', cur_offset', Used')
        BY <1>2, <1>6, <1>7 DEF ResendClose
  <2>3. Running' => power' = power
        BY DEF Running
  <2>4. QED
        BY <2>1, <2>2, <2>3 DEF SendOK
<1>12. ReportOK'
      BY <1>6 DEF SessionInv, ReportOK
<1>13. QED
      BY <1>8, <1>9, <1>10, <1>11, <1>12 DEF SessionInv

\* The two ways of sending.
LEMMA SessionSend ==
    ASSUME SessionInv, Sizes, SendPacket \/ SendRest
    PROVE  SessionInv'
<1>1. /\ Running /\ client = "send" /\ UNCHANGED <<client, current, pos>>
      /\ pos \in Nat /\ sent \in Nat /\ Total[Img] \in Nat /\ BUF \in Nat
      /\ current.by.chunks \subseteq Nat \ {0}
      BY ImageType, ServiceAssumption DEF SendPacket, SendRest, At, SessionInv, Shape
<1>2. CASE SendPacket
  <2>1. PICK length \in current.by.chunks, fate \in {"arrives", "damaged", "lost"} :
               /\ pos + sent + length <= Total[Img]
               /\ Checked => sent + length <= BUF
               /\ Packet(length, fate)
        BY <1>2 DEF SendPacket
  <2>2. QED
        BY <1>1, <2>1, SessionPacket
<1>3. CASE SendRest
  <2>1. PICK length : length = Total[Img] - pos - sent
        OBVIOUS
  <2>2. /\ length \in Nat \ {0}
        /\ pos + sent + length <= Total[Img]
        /\ Checked => sent + length <= BUF
        BY <1>1, <1>3, <2>1 DEF SendRest
  <2>3. Packet(length, "arrives")
        BY <1>3, <2>1 DEF SendRest
  <2>4. QED
        BY <1>1, <2>2, <2>3, SessionPacket
<1>4. QED
      BY <1>2, <1>3

-----------------------------------------------------------------------------
(* Buffer reports.                                                         *)

\* A number below the divisor is its own remainder.
LEMMA SmallRemainder ==
    ASSUME NEW a \in Nat, NEW n \in Nat \ {0}, a < n
    PROVE  a % n = a
BY Z3

\* The resend point catches up when the writer is less than two sectors past it.
LEMMA NextResendClose ==
    ASSUME NEW cur \in Nat, cur < Wrap,
           dfu_resend_offset \in 0 .. Wrap - 1, dfu_resend_offset % SECTOR = 0,
           dfu_resend_offset <= cur, cur < dfu_resend_offset + SECTOR + SECTOR
    PROVE  /\ NextResend(cur) \in 0 .. Wrap - 1
           /\ NextResend(cur) % SECTOR = 0
           /\ cur - NextResend(cur) \in 0 .. SECTOR - 1
<1>1. /\ NextResend(cur) \in 0 .. Wrap - 1
      /\ NextResend(cur) % SECTOR = 0
      BY NextResendType
<1>2. /\ Wrap \in Nat \ {0} /\ SECTOR \in Nat \ {0} /\ dfu_resend_offset \in Nat
      BY ServiceAssumption, ImageAssumption, FlashAssumption
<1>3. Minus(cur, dfu_resend_offset) = cur - dfu_resend_offset
  <2>1. cur - dfu_resend_offset \in Nat /\ cur - dfu_resend_offset < Wrap
        BY <1>2
  <2>2. QED
        BY <1>2, <2>1, SmallRemainder DEF Minus
<1>4. CASE cur - dfu_resend_offset >= SECTOR
  <2>1. dfu_resend_offset + SECTOR \in Nat /\ dfu_resend_offset + SECTOR < Wrap
        BY <1>2, <1>4
  <2>2. (dfu_resend_offset + SECTOR) % Wrap = dfu_resend_offset + SECTOR
        BY <1>2, <2>1, SmallRemainder
  <2>3. NextResend(cur) = dfu_resend_offset + SECTOR
        BY <1>3, <1>4, <2>2 DEF NextResend
  <2>4. QED
        BY <1>1, <1>2, <1>4, <2>3
<1>5. CASE ~(cur - dfu_resend_offset >= SECTOR)
  <2>1. NextResend(cur) = dfu_resend_offset
        BY <1>3, <1>5 DEF NextResend
  <2>2. QED
        BY <1>1, <1>2, <1>5, <2>1
<1>6. QED
      BY <1>4, <1>5

\* As the writer is never more than a sector past the resend point, the retries
\* erase one sector.
LEMMA OneRetry ==
    ASSUME ResendClose, cur_offset \in 0 .. Wrap - 1, dfu_resend_offset \in 0 .. Wrap - 1, NEW n
    PROVE  ResendErase(n) = dfu_flash_erase_sector_with_retry(n, image_id, dfu_resend_offset)
<1>1. SECTOR \in Nat \ {0} /\ Wrap \in Nat \ {0}
      BY ServiceAssumption, ImageAssumption, FlashAssumption
<1>2. /\ cur_offset - dfu_resend_offset \in Nat /\ cur_offset - dfu_resend_offset < Wrap
      /\ ~(cur_offset - dfu_resend_offset > SECTOR)
      BY <1>1 DEF ResendClose
<1>3. Minus(cur_offset, dfu_resend_offset) = cur_offset - dfu_resend_offset
      BY <1>1, <1>2, SmallRemainder DEF Minus
<1>4. QED
      BY <1>2, <1>3 DEF ResendErase

\* What a buffer report does to the offset and the resend point, and what it
\* tells the client.
LEMMA ReportEffect ==
    ASSUME NEW size, NEW ok, ReportBufferCrc(size, ok)
    PROVE  /\ UNCHANGED <<power, is_ota_procedure, buffer_check_en, image_id,
                          image_total_length>>
           /\ ota_temp_buffer' = << >>
           /\ \E res \in Results :
                 notif' = Append(notif, [op |-> "REPORT_BUFFER_CRC", res |-> res,
                                         off |-> cur_offset'])
           /\ \/ UNCHANGED <<cur_offset, dfu_resend_offset>>
              \/ cur_offset' = cur_offset + Used /\ dfu_resend_offset' = NextResend(cur_offset')
              \/ cur_offset' = dfu_resend_offset /\ UNCHANGED dfu_resend_offset
<1>1. ASSUME NEW res \in {"INVALID_PARAMETER", "LENGTH_ERROR", "CRC_ERROR"},
             Notify("REPORT_BUFFER_CRC", res, cur_offset),
             UNCHANGED <<cur_offset, dfu_resend_offset>>
      PROVE  \E r \in Results :
                 notif' = Append(notif, [op |-> "REPORT_BUFFER_CRC", res |-> r,
                                         off |-> cur_offset'])
      BY <1>1 DEF Notify, Results
<1>2. ASSUME NEW o, BufferWritten(o)
      PROVE  /\ \E r \in Results :
                   notif' = Append(notif, [op |-> "REPORT_BUFFER_CRC", res |-> r,
                                           off |-> cur_offset'])
             /\ cur_offset' = cur_offset + Used /\ dfu_resend_offset' = NextResend(cur_offset')
      BY <1>2 DEF BufferWritten, Notify, Results
<1>3. ASSUME NEW o, BufferLost(o)
      PROVE  /\ \E r \in Results :
                   notif' = Append(notif, [op |-> "REPORT_BUFFER_CRC", res |-> r,
                                           off |-> cur_offset'])
             /\ cur_offset' = dfu_resend_offset /\ UNCHANGED dfu_resend_offset
      BY <1>3 DEF BufferLost, Notify, Results
<1>4. QED
      BY <1>1, <1>2, <1>3 DEF ReportBufferCrc

\* A buffer report leaves the buffer empty, and the client waits for the offset.
LEMMA SessionBufferCrc ==
    ASSUME SessionInv, Sizes, SendBufferCrc
    PROVE  SessionInv'
<1>1. /\ UNCHANGED <<current, pos, sent, intact>>
      /\ Running /\ client = "send" /\ client' = "REPORT_BUFFER_CRC" /\ Checked
      BY DEF SendBufferCrc, At, GoTo
<1>2. PICK ok : ReportBufferCrc(sent, ok)
      BY DEF SendBufferCrc
<1>3. /\ UNCHANGED <<power, is_ota_procedure, buffer_check_en, image_id, image_total_length>>
      /\ ota_temp_buffer' = << >>
      /\ \/ UNCHANGED <<cur_offset, dfu_resend_offset>>
         \/ cur_offset' = cur_offset + Used /\ dfu_resend_offset' = NextResend(cur_offset')
         \/ cur_offset' = dfu_resend_offset /\ UNCHANGED dfu_resend_offset
      BY <1>2, ReportEffect
<1>4. PICK res \in Results :
             notif' = Append(notif, [op |-> "REPORT_BUFFER_CRC", res |-> res,
                                     off |-> cur_offset'])
      BY <1>2, ReportEffect
<1>5. /\ pos \in Nat /\ sent \in Nat /\ Used \in Nat /\ cur_offset \in 0 .. Wrap - 1
      /\ dfu_resend_offset \in 0 .. Wrap - 1 /\ dfu_resend_offset % SECTOR = 0
      /\ Wrap \in Nat /\ SECTOR \in Nat \ {0} /\ BUF \in Nat /\ BUF <= SECTOR
      /\ Total[Img] \in Nat /\ Total[Img] < Wrap
      BY ImageType, ServiceAssumption, ImageAssumption, FlashAssumption DEF SessionInv, Shape, Used, Sizes
<1>6. /\ pos + sent <= Total[Img] /\ cur_offset + Used <= pos + sent
      /\ cur_offset = pos /\ sent <= BUF
      /\ cur_offset - dfu_resend_offset \in 0 .. SECTOR - 1
      BY <1>1 DEF SessionInv, SendOK, ResendClose
<1>7. /\ cur_offset' \in 0 .. Wrap - 1 /\ cur_offset' <= Total[Img]
      /\ dfu_resend_offset' \in 0 .. Wrap - 1 /\ dfu_resend_offset' % SECTOR = 0
      /\ cur_offset' - dfu_resend_offset' \in 0 .. SECTOR - 1
  <2>1. CASE UNCHANGED <<cur_offset, dfu_resend_offset>>
        BY <1>5, <1>6, <2>1
  <2>2. CASE cur_offset' = cur_offset + Used /\ dfu_resend_offset' = NextResend(cur_offset')
    <3>1. /\ cur_offset' \in Nat /\ cur_offset' < Wrap /\ cur_offset' <= Total[Img]
          /\ dfu_resend_offset <= cur_offset'
          /\ cur_offset' < dfu_resend_offset + SECTOR + SECTOR
          BY <1>5, <1>6, <2>2
    <3>2. QED
          BY <1>5, <2>2, <3>1, NextResendClose
  <2>3. CASE cur_offset' = dfu_resend_offset /\ UNCHANGED dfu_resend_offset
        BY <1>5, <1>6, <2>3
  <2>4. QED
        BY <1>3, <2>1, <2>2, <2>3
<1>8. notif' \in Seq(Notification) /\ OneReport(notif, cur_offset)'
  <2> DEFINE n == [op |-> "REPORT_BUFFER_CRC", res |-> res, off |-> cur_offset']
  <2>1. n \in Notification /\ n.off = cur_offset' /\ notif' = Append(notif, n)
        BY <1>4, <1>7 DEF Notification, Answers
  <2> HIDE DEF n
  <2>2. notif \in Seq(Notification) /\ NoReport(notif)
        BY <1>1 DEF SessionInv, Shape, ReportOK
  <2>3. OneReport(Append(notif, n), n.off) /\ Append(notif, n) \in Seq(Notification)
        BY <2>1, <2>2, AppendReport, QueueAppend
  <2>4. QED
        BY <2>1, <2>3 DEF OneReport
<1>9. Plan' = Plan /\ Img' = Img /\ Id' = Id /\ Checked' = Checked
      BY <1>1, SameImage
<1>10. Shape'
      BY <1>1, <1>3, <1>7, <1>8, <1>9 DEF SessionInv, Shape
<1>11. ModeOK'
      BY <1>1, <1>3, <1>9 DEF SessionInv, ModeOK, ModeStates, Running
<1>12. StartOK'
      BY <1>1, <1>3, <1>9 DEF SessionInv, StartOK, StartStates, Running
<1>13. SendOK'
      BY <1>1 DEF SendOK
<1>14. ReportOK'
      BY <1>1, <1>3, <1>7, <1>8, <1>9 DEF ReportOK, ResendClose
<1>15. QED
      BY <1>10, <1>11, <1>12, <1>13, <1>14 DEF SessionInv

-----------------------------------------------------------------------------
(* Notifications, the connection, resets.                                  *)

\* The client goes on from the offset that answers its buffer report: both are
\* at the same place again, whatever was lost or had to be erased.
LEMMA SessionReceive ==
    ASSUME SessionInv, Receive
    PROVE  SessionInv'
<1> DEFINE n == Head(notif)
<1>1. /\ Running /\ notif' = Tail(notif) /\ notif # << >>
      /\ UNCHANGED <<power, is_ota_procedure, buffer_check_en, ota_temp_buffer, cur_offset,
                     dfu_resend_offset, image_id, image_total_length>>
      BY DEF Receive, ramVars, sessionVars
<1>2. /\ notif \in Seq(Notification) /\ n \in Notification /\ notif' \in Seq(Notification)
      /\ NoReport(notif) => NoReport(notif)'
      /\ OneReport(notif, cur_offset) => OneReport(notif, cur_offset)'
      /\ OneReport(notif, cur_offset) /\ n.op = "REPORT_BUFFER_CRC" =>
            NoReport(notif)' /\ n.off = cur_offset
  <2>1. notif \in Seq(Notification)
        BY DEF SessionInv, Shape
  <2>2. /\ n \in Notification /\ Tail(notif) \in Seq(Notification)
        /\ NoReport(notif) => NoReport(Tail(notif))
        /\ OneReport(notif, cur_offset) => OneReport(Tail(notif), cur_offset)
        /\ OneReport(notif, cur_offset) /\ n.op = "REPORT_BUFFER_CRC" =>
              NoReport(Tail(notif)) /\ n.off = cur_offset
        BY <1>1, <2>1, QueueTail
  <2>3. /\ NoReport(notif)' <=> NoReport(Tail(notif))
        /\ OneReport(notif, cur_offset)' <=> OneReport(Tail(notif), cur_offset)
        BY <1>1 DEF NoReport, OneReport
  <2>4. QED
        BY <1>1, <2>1, <2>2, <2>3
<1> HIDE DEF n
<1>3. CASE n.op # client
  <2>1. UNCHANGED <<client, current, pos, sent, intact>>
        BY <1>3 DEF Receive, clientVars, n
  <2>2. Plan' = Plan /\ Img' = Img /\ Id' = Id /\ Checked' = Checked
        BY <2>1, SameImage
  <2>3. Shape'
        BY <1>1, <1>2, <2>1, <2>2 DEF SessionInv, Shape
  <2>4. ModeOK' /\ StartOK'
        BY <1>1, <2>1, <2>2 DEF SessionInv, ModeOK, StartOK, Running
  <2>5. SendOK'
        BY <1>1, <2>1, <2>2 DEF SessionInv, SendOK, Running, Used, ResendClose
  <2>6. ReportOK'
        BY <1>1, <1>2, <2>1, <2>2 DEF SessionInv, ReportOK, Running, ResendClose
  <2>7. QED
        BY <2>3, <2>4, <2>5, <2>6 DEF SessionInv
<1>4. CASE n.op = client /\ client = "REPORT_BUFFER_CRC"
  <2>1. /\ client' = "send" /\ UNCHANGED current
        /\ pos' = n.off /\ sent' = 0 /\ intact' = TRUE
        BY <1>4 DEF Receive, n
  <2>2. Plan' = Plan /\ Img' = Img /\ Id' = Id /\ Checked' = Checked
        BY <2>1, SameImage
  <2>3. /\ Checked /\ ResendClose /\ ota_temp_buffer = << >> /\ cur_offset <= Total[Img]
        /\ n.off = cur_offset /\ NoReport(notif)'
        BY <1>1, <1>2, <1>4 DEF SessionInv, ReportOK
  <2>4. /\ Used' = 0 /\ cur_offset \in Nat /\ BUF \in Nat
        /\ Cells(Img, cur_offset, 0) = << >>
        BY <1>1, <2>3, CellsNone, ServiceAssumption DEF Used, SessionInv, Shape
  <2>5. Shape'
        BY <1>1, <1>2, <2>1, <2>2, <2>3, <2>4 DEF SessionInv, Shape
  <2>6. ModeOK' /\ StartOK'
        BY <1>1, <1>4, <2>1, <2>2 DEF SessionInv, ModeOK, StartOK, ModeStates, StartStates, Running
  <2>7. SendOK'
    <3>1. ota_temp_buffer' = Cells(Img', cur_offset', Used')
          BY <1>1, <2>2, <2>3, <2>4
    <3>2. ResendClose'
          BY <1>1, <2>3 DEF ResendClose
    <3>3. QED
          BY <1>1, <2>1, <2>2, <2>3, <2>4, <3>1, <3>2 DEF SendOK
  <2>8. ReportOK'
        BY <2>1, <2>3 DEF ReportOK
  <2>9. QED
        BY <2>5, <2>6, <2>7, <2>8 DEF SessionInv
<1>5. CASE n.op = client /\ client # "REPORT_BUFFER_CRC"
  <2>1. n.op \in Answers
        BY <1>2 DEF Notification
  <2>2. /\ UNCHANGED <<pos, sent, intact>>
        /\ \/ client = "BUFFER_CHECK_EN" /\ client' = "info" /\ UNCHANGED current
           \/ client = "REPORT_TARGET_INFO" /\ client' = "start" /\ UNCHANGED current
           \/ client = "START_DFU" /\ client' = "offset" /\ UNCHANGED current
           \/ client = "VALID_FW" /\ client' \in {"reset", "activate"} /\ UNCHANGED current
           \/ /\ client = "VALID_FW" /\ client' = "info"
              /\ current.k < Len(Plan) /\ current' = [current EXCEPT !.k = @ + 1]
        BY <1>5, <2>1 DEF Receive, n, Answers
  <2>3. /\ current \in [by : Clients, k : Nat] /\ current.k \in 1 .. Len(Plan)
        /\ Plan \in Seq(Image)
        BY ImageType DEF SessionInv, Shape
  <2>4. /\ current' \in [by : Clients, k : Nat]
        /\ current'.by = current.by
        /\ current'.k \in 1 .. Len(Plan)
    <3>1. CASE UNCHANGED current
          BY <2>3, <3>1
    <3>2. CASE current.k < Len(Plan) /\ current' = [current EXCEPT !.k = @ + 1]
          BY <2>3, <3>2
    <3>3. QED
          BY <2>2, <3>1, <3>2
  <2>5. Plan' = Plan /\ Checked' = Checked
        BY <2>4 DEF Plan, Checked
  <2>6. Shape'
        BY <1>1, <1>2, <2>2, <2>4, <2>5 DEF SessionInv, Shape
  <2>7. ModeOK'
        BY <1>1, <2>2, <2>5 DEF SessionInv, ModeOK, ModeStates, Running
  <2>8. StartOK'
    <3>1. CASE client = "START_DFU" /\ UNCHANGED current
      <4>1. Img' = Img /\ Id' = Id
            BY <3>1, SameImage
      <4>2. QED
            BY <1>1, <3>1, <4>1 DEF SessionInv, StartOK, StartStates, Running
    <3>2. CASE client' \notin StartStates
          BY <3>2 DEF StartOK
    <3>3. QED
          BY <2>2, <3>1, <3>2 DEF StartStates
  <2>9. NoReport(notif)'
        BY <1>2, <1>5 DEF SessionInv, ReportOK
  <2>10. QED
        BY <2>2, <2>6, <2>7, <2>8, <2>9, SessionElsewhere
<1>6. QED
      BY <1>3, <1>4, <1>5

\* The application task touches the session with its answer to VALID_FW alone.
LEMMA SessionTask ==
    ASSUME SessionInv, TaskStep
    PROVE  SessionInv'
<1>1. /\ UNCHANGED <<client, current, pos, sent, intact, power>>
      /\ UNCHANGED <<is_ota_procedure, buffer_check_en, ota_temp_buffer, cur_offset,
                     dfu_resend_offset, image_id, image_total_length>>
      BY DEF TaskStep, TaskCheck, TaskUnlock, TaskSetReady, TaskLock, TaskReport, TaskOnly,
             clientVars, sessionVars
<1>2. CASE UNCHANGED notif
      BY <1>1, <1>2, SessionUntouched DEF sessionState, sessionVars, clientVars
<1>3. ASSUME NEW res \in {"SUCCESS", "CRC_ERROR"}, Notify("VALID_FW", res, 0)
      PROVE  SessionInv'
  <2> DEFINE n == [op |-> "VALID_FW", res |-> res, off |-> 0]
  <2>1. n \in Notification /\ n.op # "REPORT_BUFFER_CRC" /\ notif' = Append(notif, n)
        BY <1>3 DEF Notification, Answers, Results, Notify
  <2> HIDE DEF n
  <2>2. notif \in Seq(Notification)
        BY DEF SessionInv, Shape
  <2>3. /\ notif' \in Seq(Notification)
        /\ NoReport(notif) => NoReport(Append(notif, n))
        /\ OneReport(notif, cur_offset) => OneReport(Append(notif, n), cur_offset)
        BY <2>1, <2>2, AppendOther, QueueAppend
  <2>4. /\ NoReport(notif)' <=> NoReport(Append(notif, n))
        /\ OneReport(notif, cur_offset)' <=> OneReport(Append(notif, n), cur_offset)
        BY <1>1, <2>1 DEF NoReport, OneReport
  <2>5. Plan' = Plan /\ Img' = Img /\ Id' = Id /\ Checked' = Checked
        BY <1>1, SameImage
  <2>6. Shape'
        BY <1>1, <2>3, <2>5 DEF SessionInv, Shape
  <2>7. ModeOK' /\ StartOK'
        BY <1>1, <2>5 DEF SessionInv, ModeOK, StartOK, Running
  <2>8. SendOK'
        BY <1>1, <2>5 DEF SessionInv, SendOK, Running, Used, ResendClose
  <2>9. ReportOK'
        BY <1>1, <2>3, <2>4, <2>5 DEF SessionInv, ReportOK, Running, ResendClose
  <2>10. QED
        BY <2>6, <2>7, <2>8, <2>9 DEF SessionInv
<1>4. UNCHANGED notif \/ \E res \in {"SUCCESS", "CRC_ERROR"} : Notify("VALID_FW", res, 0)
      BY DEF TaskStep, TaskCheck, TaskUnlock, TaskSetReady, TaskLock, TaskReport
<1>5. QED
      BY <1>2, <1>3, <1>4

\* No notification is on its way on a connection that is gone.
LEMMA NoneOnTheWay ==
    /\ << >> \in Seq(Notification)
    /\ NoReport(<< >>)
BY DEF NoReport

\* A lost connection, and a reset after one.
LEMMA SessionLost ==
    ASSUME SessionInv, LinkLoss \/ DisconnectAll
    PROVE  SessionInv'
<1>1. /\ UNCHANGED <<current, pos, sent, intact>>
      /\ UNCHANGED <<is_ota_procedure, buffer_check_en, ota_temp_buffer, cur_offset,
                     dfu_resend_offset, image_id, image_total_length>>
      /\ notif' = << >> /\ power' \in {power, "active"}
      /\ \/ LinkLoss /\ client' \in {"off", "done", "declined", "lost"}
         \/ client' = client /\ power' = "active"
      BY DEF LinkLoss, DisconnectAll, Disconnected, Lost, dfu_fw_reboot, ramVars, sessionVars,
             clientVars
<1>2. Plan' = Plan /\ Checked' = Checked
      BY <1>1, SameImage
<1>3. notif' \in Seq(Notification) /\ NoReport(notif)'
      BY <1>1, NoneOnTheWay DEF NoReport
<1>4. Shape'
      BY <1>1, <1>2, <1>3 DEF SessionInv, Shape
<1>5. ModeOK' /\ StartOK'
      BY <1>1, <1>2 DEF SessionInv, ModeOK, StartOK, ModeStates, StartStates, Running
<1>6. SendOK'
      BY <1>1 DEF SendOK, Running
<1>7. ReportOK'
  <2>1. OneReport(notif, cur_offset)'
        BY <1>3 DEF NoReport, OneReport
  <2>2. QED
        BY <1>1, <1>3, <2>1 DEF ReportOK, Running
<1>8. QED
      BY <1>4, <1>5, <1>6, <1>7 DEF SessionInv

\* A boot clears the session of the device, and the client has to connect.
LEMMA SessionBoot ==
    ASSUME SessionInv, Boot
    PROVE  SessionInv'
<1>1. /\ UNCHANGED <<current, pos, sent, intact>>
      /\ client' \in {"off", "done", "declined"}
      /\ power' = "on"
      /\ is_ota_procedure' = FALSE /\ buffer_check_en' = FALSE
      /\ ota_temp_buffer' = << >> /\ cur_offset' = 0 /\ dfu_resend_offset' = 0
      /\ image_id' = NoId /\ image_total_length' = 0 /\ notif' = << >>
      BY DEF Boot, RamReset
<1>2. Plan' = Plan /\ Checked' = Checked
      BY <1>1, SameImage
<1>3. notif' \in Seq(Notification) /\ NoReport(notif)'
      BY <1>1, NoneOnTheWay DEF NoReport
<1>4. /\ 0 \in 0 .. Wrap - 1 /\ NoId \in ImageId /\ << >> \in Seq(Content)
      /\ SECTOR \in Nat \ {0}
      BY ServiceAssumption, ImageAssumption, FlashAssumption
<1>5. 0 % SECTOR = 0
      BY <1>4, Z3
<1>6. Shape'
      BY <1>1, <1>2, <1>3, <1>4, <1>5 DEF SessionInv, Shape
<1>7. ModeOK' /\ StartOK'
      BY <1>1 DEF ModeOK, StartOK, ModeStates, StartStates
<1>8. QED
      BY <1>1, <1>3, <1>6, <1>7, SessionElsewhere

\* A device at the start.
LEMMA SessionInit ==
    ASSUME Init
    PROVE  SessionInv
<1>1. /\ current \in [by : Clients, k : {1}] /\ client = "off" /\ power = "on"
      /\ pos = 0 /\ sent = 0 /\ intact = TRUE
      /\ is_ota_procedure = FALSE /\ buffer_check_en = FALSE
      /\ ota_temp_buffer = << >> /\ cur_offset = 0 /\ dfu_resend_offset = 0
      /\ image_id = NoId /\ image_total_length = 0 /\ notif = << >>
      BY DEF Init, RamInit
<1>2. /\ 0 \in 0 .. Wrap - 1 /\ NoId \in ImageId /\ << >> \in Seq(Content)
      /\ SECTOR \in Nat \ {0}
      BY ServiceAssumption, ImageAssumption, FlashAssumption
<1>3. 0 % SECTOR = 0
      BY <1>2, Z3
<1>4. current.by \in Clients /\ current.k = 1 /\ current \in [by : Clients, k : Nat]
      BY <1>1
<1>5. Plan \in Seq(Image) /\ Plan # << >>
      BY <1>4, ClientAssumption DEF Plan
<1>6. current.k \in 1 .. Len(Plan)
      BY <1>4, <1>5
<1>7. Shape
      BY <1>1, <1>2, <1>3, <1>4, <1>6, NoneOnTheWay DEF Shape
<1>8. QED
      BY <1>1, <1>7, NoneOnTheWay
      DEF SessionInv, ModeOK, StartOK, SendOK, ReportOK, ModeStates, StartStates

\* Every step keeps the session.
LEMMA SessionStep ==
    ASSUME SessionInv, Sizes, [Next]_vars
    PROVE  SessionInv'
<1>1. CASE ClientStep
      BY <1>1, SessionConnect, SessionEnable, SessionInfo, SessionStart, SessionOffset,
         SessionSend, SessionBufferCrc, SessionValidFw, SessionEnd, SessionReceive
      DEF ClientStep
<1>2. CASE PowerLoss \/ PowerLossInUpdate \/ PowerLossInActivation
      BY <1>2, SessionUntouched
      DEF PowerLoss, PowerLossInUpdate, PowerLossInActivation, sessionState, ramVars
<1>3. CASE UNCHANGED vars
      BY <1>3, SessionUntouched DEF vars, sessionState, dfuVars, ramVars
<1>4. QED
      BY <1>1, <1>2, <1>3, SessionTask, SessionLost, SessionBoot DEF Next, Over

\* The session holds in every behaviour.
LEMMA Session == ASSUME Sizes PROVE Spec => []SessionInv
<1>1. Init => SessionInv
      BY SessionInit
<1>2. SessionInv /\ [Next]_vars => SessionInv'
      BY SessionStep
<1>3. QED
      BY <1>1, <1>2, PTL DEF Spec

\* With the sizes of the code, the device and the client mean the same place of
\* the image, whatever was lost, damaged or had to be repeated: the buffer holds
\* what comes next in the image and ends where the client is.
THEOREM SidesInStep == ASSUME Sizes PROVE Spec => []InStep
<1>1. SessionInv => InStep
      BY DEF SessionInv, SendOK, InStep, Sending
<1>2. QED
      BY <1>1, Session, PTL

\* With the sizes of the code, the resend point is the start of the sector that
\* the writer is in: one erase undoes a failed write, and the branch of
\* dfu_buffer_check_process that erases a second sector is never taken.
THEOREM ResendPointInSector == ASSUME Sizes PROVE Spec => []ResendPoint
<1>1. SessionInv => ResendPoint
      BY DEF SessionInv, Shape, SendOK, ReportOK, ResendPoint, Sending, ResendClose
<1>2. QED
      BY <1>1, Session, PTL

-----------------------------------------------------------------------------
(* The device with bank switching.                                         *)

Tasks == {"wait", "unlock", "set", "lock", "report"}

\* The application task; the header it sets ready is one of the flash.
TaskOK == /\ validQueue \in 0 .. MaxIo
          /\ task \in Tasks
          /\ header \in Nat /\ valid \in BOOLEAN
          /\ task \in {"unlock", "set"} => header \in Addr

\* No image is counted in the combined bank.
TempOK == /\ temp_image_num = 0
          /\ temp_image_info = [i \in 0 .. MaxTemp - 1 |-> NoEntry]

FlagsOK == /\ link \in BOOLEAN /\ active_rst_pending \in BOOLEAN
           /\ otaHeader \in BOOLEAN /\ conn_para_update \in BOOLEAN

DeviceInv == nor \in Flash /\ TaskOK /\ TempOK /\ FlagsOK

\* Everything goes to the bank of its image id, from the start of it on.
LEMMA NoEntries ==
    ASSUME TempOK
    PROVE  /\ EntryOffset = 0
           /\ temp_image_info \in [0 .. MaxTemp - 1 ->
                                     [image_id : ImageId, image_size : Nat, image_offset : Nat]]
<1>1. 0 \in 0 .. MaxTemp - 1
      BY ServiceAssumption
<1>2. NoEntry \in [image_id : ImageId, image_size : Nat, image_offset : Nat]
      BY ServiceAssumption DEF NoEntry
<1>3. QED
      BY <1>1, <1>2 DEF TempOK, EntryOffset, NoEntry

\* The facts about the commands apply.
LEMMA WriterThere ==
    ASSUME SessionInv, DeviceInv
    PROVE  WriterOK
<1>1. cur_offset \in Nat
      BY ServiceAssumption DEF SessionInv, Shape
<1>2. QED
      BY <1>1, NoEntries DEF SessionInv, Shape, DeviceInv, TempOK, WriterOK

\* A cell that is not the header of another image.
Ours(cell) == \A m \in Image : cell = <<m, 0>> => m = Img

\* The packets of the client are contents of the flash, none is empty, and none
\* starts with the header of another image.
LEMMA PacketContent ==
    ASSUME SessionInv, SendPacket \/ SendRest
    PROVE  UNCHANGED dfuVars \/ \E data \in Seq(Content) : data # << >> /\ Ours(data[1]) /\ PacketReq(data)
<1>1. /\ client = "send" /\ Running
      /\ pos \in Nat /\ sent \in Nat /\ Img \in Image /\ Total[Img] \in Nat
      /\ current.by.chunks \subseteq Nat \ {0}
      BY ImageType DEF SendPacket, SendRest, At, SessionInv, Shape
<1>2. ASSUME NEW length \in Nat \ {0}, NEW fate \in {"arrives", "damaged", "lost"},
             Packet(length, fate), pos + sent + length <= Total[Img]
      PROVE  UNCHANGED dfuVars \/ \E data \in Seq(Content) : data # << >> /\ Ours(data[1]) /\ PacketReq(data)
  <2> DEFINE cells == Cells(Img, pos + sent, length)
  <2>1. cells \in Seq(Content) /\ Len(cells) = length
    <3>1. pos + sent \in Nat
          BY <1>1
    <3>2. QED
          BY <1>1, <1>2, <3>1, CellsType
  <2>0. Ours(cells[1]) /\ Ours(Torn)
    <3>1. cells[1] = <<Img, pos + sent + 1 - 1>>
          BY DEF cells, Cells
    <3>2. \A m \in Image : Torn # <<m, 0>>
          BY NoHeader
    <3>3. QED
          BY <3>1, <3>2 DEF Ours
  <2> HIDE DEF cells
  <2>2. /\ [cells EXCEPT ![1] = Torn] \in Seq(Content)
        /\ Len([cells EXCEPT ![1] = Torn]) = length
        /\ [cells EXCEPT ![1] = Torn][1] = Torn
        BY <2>1 DEF Content
  <2>3. UNCHANGED dfuVars \/ PacketReq(cells) \/ PacketReq([cells EXCEPT ![1] = Torn])
        BY <1>2 DEF Packet, cells
  <2>4. \A data \in Seq(Content) : Len(data) = length => data # << >>
        OBVIOUS
  <2>5. QED
        BY <2>0, <2>1, <2>2, <2>3, <2>4
<1>3. CASE SendPacket
  <2>1. PICK length \in current.by.chunks, fate \in {"arrives", "damaged", "lost"} :
               pos + sent + length <= Total[Img] /\ Packet(length, fate)
        BY <1>3 DEF SendPacket
  <2>2. QED
        BY <1>1, <1>2, <2>1
<1>4. CASE SendRest
  <2>1. PICK length : length = Total[Img] - pos - sent
        OBVIOUS
  <2>2. length \in Nat \ {0} /\ pos + sent + length <= Total[Img]
        BY <1>1, <1>4, <2>1 DEF SendRest
  <2>3. Packet(length, "arrives")
        BY <1>4, <2>1 DEF SendRest
  <2>4. QED
        BY <1>2, <2>2, <2>3
<1>5. QED
      BY <1>3, <1>4

\* No step changes the entries of the combined bank.
LEMMA TempStep ==
    ASSUME BankSwitch, TempOK, [Next]_vars
    PROVE  TempOK'
<1>1. ASSUME UNCHANGED tempVars
      PROVE  TempOK'
      BY <1>1 DEF tempVars, TempOK
<1>2. ASSUME NEW data, PacketReq(data)
      PROVE  UNCHANGED tempVars
      BY <1>2 DEF PacketReq, PacketIgnored, PacketBuffered, PacketPlain, dfuVars, ramVars
<1>3. CASE SendPacket \/ SendRest
  <2>1. UNCHANGED dfuVars \/ \E data : PacketReq(data)
        BY <1>3 DEF SendPacket, SendRest, Packet
  <2>2. UNCHANGED tempVars
        BY <1>2, <2>1 DEF dfuVars, ramVars
  <2>3. QED
        BY <1>1, <2>2
<1>4. CASE Connect \/ Reconnect \/ Enable \/ Info \/ Offset
      BY <1>1, <1>4 DEF Connect, Reconnect, Enable, Info, Offset, BufferCheckEn,
         ReportTargetInfo, ReceiveFwImageInfo, dfuVars, ramVars
<1>5. CASE Start
  <2>1. UNCHANGED temp_image_num /\ UNCHANGED temp_image_info
        BY <1>5 DEF Start, StartDfu
  <2>2. QED
        BY <1>1, <2>1 DEF tempVars
<1>6. CASE SendBufferCrc \/ SendValidFw \/ SendActiveImageReset \/ SendSystemReset \/ Receive
      BY <1>1, <1>6 DEF SendBufferCrc, SendValidFw, SendActiveImageReset, SendSystemReset, Receive,
         ReportBufferCrc, ValidFw, ActiveImageReset, SystemReset, ramVars
<1>7. CASE TaskCheck \/ TaskUnlock \/ TaskSetReady \/ TaskLock
      BY <1>1, <1>7 DEF TaskCheck, TaskUnlock, TaskSetReady, TaskLock
<1>8. CASE TaskReport
      BY <1>8 DEF TaskReport, TempOK, CheckOwnBank
<1>9. CASE DisconnectAll \/ LinkLoss \/ PowerLoss \/ PowerLossInUpdate \/ PowerLossInActivation
      BY <1>1, <1>9 DEF DisconnectAll, LinkLoss, PowerLoss, PowerLossInUpdate,
         PowerLossInActivation, ramVars
<1>10. CASE Boot
      BY <1>10 DEF Boot, RamReset, TempOK
<1>11. CASE UNCHANGED vars
      BY <1>1, <1>11 DEF vars, dfuVars, ramVars
<1>12. QED
      BY <1>3, <1>4, <1>5, <1>6, <1>7, <1>8, <1>9, <1>10, <1>11
      DEF Next, ClientStep, TaskStep, Over

\* The work of the task but for the check of an image.
LEMMA TaskElse ==
    ASSUME TaskOK, [Next]_vars, ~TaskCheck
    PROVE  TaskOK'
<1>1. ASSUME UNCHANGED taskVars
      PROVE  TaskOK'
      BY <1>1 DEF taskVars, TaskOK
<1>2. CASE TaskUnlock \/ TaskSetReady \/ TaskLock \/ TaskReport
      BY <1>2 DEF TaskUnlock, TaskSetReady, TaskLock, TaskReport, TaskOK, Tasks
<1>3. CASE SendValidFw
  <2>1. validQueue' \in 0 .. MaxIo
        BY <1>3, LayoutAssumption DEF SendValidFw, TaskOK
  <2>2. QED
        BY <1>3, <2>1 DEF SendValidFw, TaskOK
<1>4. CASE Boot
  <2>1. validQueue' = 0 /\ task' = "wait" /\ header' = 0 /\ valid' = FALSE
        BY <1>4 DEF Boot, TaskReset
  <2>2. 0 \in 0 .. MaxIo
        BY LayoutAssumption
  <2>3. QED
        BY <2>1, <2>2 DEF TaskOK, Tasks
<1>5. CASE \/ Connect \/ Reconnect \/ Enable \/ Info \/ Start \/ Offset \/ SendPacket \/ SendRest
           \/ SendBufferCrc \/ SendActiveImageReset \/ SendSystemReset \/ Receive
      BY <1>1, <1>5 DEF Connect, Reconnect, Enable, Info, Start, Offset, SendPacket, SendRest,
         SendBufferCrc, SendActiveImageReset, SendSystemReset, Receive, Quiet
<1>6. CASE DisconnectAll \/ LinkLoss \/ PowerLoss \/ PowerLossInUpdate \/ PowerLossInActivation
      BY <1>1, <1>6 DEF DisconnectAll, LinkLoss, PowerLoss, PowerLossInUpdate,
         PowerLossInActivation
<1>7. CASE UNCHANGED vars
      BY <1>1, <1>7 DEF vars
<1>8. QED
      BY <1>2, <1>3, <1>4, <1>5, <1>6, <1>7 DEF Next, ClientStep, TaskStep, Over

\* The task sets ready only what it found to be an image, at an address of the
\* flash.
LEMMA TaskStepOK ==
    ASSUME SessionInv, DeviceInv, BankSwitch, [Next]_vars
    PROVE  TaskOK'
<1>1. CASE TaskCheck
  <2>1. CheckId = image_id /\ CheckOffset = 0
        BY DEF CheckId, CheckOffset, CheckOwnBank
  <2>2. image_id \in ImageId /\ TempBase[image_id] \in Nat /\ MaxIo \in Nat
        BY ImageAssumption, LayoutAssumption DEF SessionInv, Shape
  <2>3. HeaderAddr(image_id, 0) = TempBase[image_id]
        BY <2>2 DEF HeaderAddr
  <2>4. /\ validQueue' = validQueue - 1 /\ validQueue > 0
        /\ valid' <=> dfu_check_checksum(nor, image_id, 0)
        /\ valid' \in BOOLEAN
        /\ header' = TempBase[image_id]
        /\ task' = IF valid' /\ BankSwitch THEN "unlock" ELSE "report"
    <3>1. /\ validQueue' = validQueue - 1 /\ validQueue > 0
          /\ valid' = dfu_check_checksum(nor, CheckId, CheckOffset)
          /\ header' = HeaderAddr(CheckId, CheckOffset)
          /\ task' = IF valid' /\ BankSwitch THEN "unlock" ELSE "report"
          BY <1>1, Zenon DEF TaskCheck
    <3>2. dfu_check_checksum(nor, image_id, 0) \in BOOLEAN
          BY DEF dfu_check_checksum
    <3>3. QED
          BY <2>1, <2>3, <3>1, <3>2
  <2>5. valid' => TempBase[image_id] # 0
        BY <2>4 DEF dfu_check_checksum
  <2>6. valid' => TempBase[image_id] \in Addr
    <3>1. ASSUME valid'
          PROVE  TempBase[image_id] \in Addr
      <4>1. /\ TempSize[image_id] \in Nat \ {0} /\ FlashSize \in Nat
            /\ TempBase[image_id] + TempSize[image_id] <= FlashSize
            BY <2>2, <2>5, <3>1, ImageAssumption, FlashAssumption
      <4>2. QED
            BY <2>2, <4>1 DEF Addr
    <3>2. QED
          BY <3>1
  <2>7. validQueue' \in 0 .. MaxIo
        BY <2>2, <2>4 DEF DeviceInv, TaskOK
  <2>8. task' \in Tasks /\ (task' \in {"unlock", "set"} => valid')
        BY <2>4 DEF Tasks
  <2>9. QED
        BY <2>2, <2>4, <2>6, <2>7, <2>8 DEF TaskOK
<1>2. CASE ~TaskCheck
      BY <1>2, TaskElse DEF DeviceInv
<1>3. QED
      BY <1>1, <1>2

\* The flags stay flags.
LEMMA FlagsStep ==
    ASSUME FlagsOK, [Next]_vars
    PROVE  FlagsOK'
<1>1. ASSUME NEW data, PacketReq(data)
      PROVE  UNCHANGED conn_para_update
      BY <1>1 DEF PacketReq, PacketIgnored, PacketBuffered, PacketPlain, dfuVars, ramVars
<1>2. CASE SendPacket \/ SendRest
  <2>1. UNCHANGED dfuVars \/ \E data : PacketReq(data)
        BY <1>2 DEF SendPacket, SendRest, Packet
  <2>2. UNCHANGED conn_para_update
        BY <1>1, <2>1 DEF dfuVars, ramVars
  <2>3. QED
        BY <1>2, <2>2 DEF SendPacket, SendRest, Quiet, FlagsOK
<1>3. CASE Connect \/ Reconnect \/ Enable \/ Info \/ Start \/ Offset
      BY <1>3 DEF Connect, Reconnect, Enable, Info, Start, Offset, Quiet, BufferCheckEn,
         ReportTargetInfo, StartDfu, ReceiveFwImageInfo, dfuVars, ramVars, FlagsOK
<1>4. CASE SendBufferCrc \/ SendValidFw \/ SendActiveImageReset \/ SendSystemReset \/ Receive
      BY <1>4 DEF SendBufferCrc, SendValidFw, SendActiveImageReset, SendSystemReset, Receive,
         Quiet, ReportBufferCrc, ValidFw, ActiveImageReset, SystemReset, ramVars, FlagsOK
<1>5. CASE TaskStep
      BY <1>5 DEF TaskStep, TaskCheck, TaskUnlock, TaskSetReady, TaskLock, TaskReport, TaskOnly,
         FlagsOK
<1>6. CASE DisconnectAll \/ LinkLoss \/ PowerLoss \/ PowerLossInUpdate \/ PowerLossInActivation
      BY <1>6 DEF DisconnectAll, LinkLoss, Disconnected, PowerLoss, PowerLossInUpdate,
         PowerLossInActivation, ramVars, FlagsOK
<1>7. CASE Boot
      BY <1>7 DEF Boot, RamReset, FlagsOK
<1>8. CASE UNCHANGED vars
      BY <1>8 DEF vars, dfuVars, ramVars, FlagsOK
<1>9. QED
      BY <1>2, <1>3, <1>4, <1>5, <1>6, <1>7, <1>8 DEF Next, ClientStep, Over

-----------------------------------------------------------------------------
(* The flash and its protection.                                           *)

\* A step of the service that keeps the flash as FlashKeptBut says keeps it
\* protected.
LEMMA LockKept ==
    ASSUME FlashLocked, NEW hs, FlashKeptBut(hs), BankSwitch,
           UNCHANGED <<task, active_rst_pending>>
    PROVE  nor' \in Flash /\ FlashLocked'
BY DEF FlashLocked, FlashKeptBut, Running

\* The commands of the client.
LEMMA LockClient ==
    ASSUME SessionInv, DeviceInv, BankSwitch, FlashLocked, ClientStep
    PROVE  nor' \in Flash /\ FlashLocked'
<1>1. WriterOK
      BY WriterThere
<1>2. CASE \/ Connect \/ Reconnect \/ Enable \/ Info \/ Start \/ Offset \/ SendValidFw
           \/ Receive
  <2>1. UNCHANGED <<nor, power, task, active_rst_pending>>
        BY <1>2 DEF Connect, Reconnect, Enable, Info, Start, Offset, SendValidFw, Receive, Quiet,
           BufferCheckEn, ReportTargetInfo, StartDfu, ReceiveFwImageInfo, ValidFw, dfuVars,
           taskVars
  <2>2. QED
        BY <2>1 DEF DeviceInv, FlashLocked, Running
<1>3. CASE SendPacket \/ SendRest
  <2>1. UNCHANGED <<task, active_rst_pending>>
        BY <1>3 DEF SendPacket, SendRest, Quiet, taskVars
  <2>2. UNCHANGED dfuVars \/ \E data \in Seq(Content) : PacketReq(data)
        BY <1>3, PacketContent
  <2>3. ASSUME UNCHANGED dfuVars
        PROVE  \E hs : FlashKeptBut(hs)
        BY <1>1, <2>3, FlashUntouched DEF dfuVars
  <2>4. ASSUME NEW data \in Seq(Content), PacketReq(data)
        PROVE  \E hs : FlashKeptBut(hs)
        BY <1>1, <2>4, FlashPacket, Zenon
  <2>5. QED
        BY <2>1, <2>2, <2>3, <2>4, LockKept
<1>4. CASE SendBufferCrc
  <2>1. UNCHANGED <<task, active_rst_pending>>
        BY <1>4 DEF SendBufferCrc, Quiet, taskVars
  <2>2. PICK ok : ReportBufferCrc(sent, ok)
        BY <1>4 DEF SendBufferCrc
  <2>3. \E hs : FlashKeptBut(hs)
        BY <1>1, <2>2, FlashReport
  <2>4. QED
        BY <2>1, <2>3, LockKept
<1>5. CASE SendActiveImageReset
  <2>1. FlashKeptBut({}) /\ active_rst_pending' = TRUE
        BY <1>1, <1>5, FlashActivate DEF SendActiveImageReset
  <2>2. QED
        BY <2>1 DEF FlashKeptBut, FlashLocked
<1>6. CASE SendSystemReset
  <2>1. FlashKeptBut({}) /\ UNCHANGED <<task, active_rst_pending>>
        BY <1>1, <1>6, FlashReset DEF SendSystemReset, taskVars
  <2>2. QED
        BY <2>1, LockKept
<1>7. QED
      BY <1>2, <1>3, <1>4, <1>5, <1>6 DEF ClientStep

\* The application task opens the flash for its two steps only.
LEMMA LockTask ==
    ASSUME DeviceInv, FlashLocked, TaskStep
    PROVE  nor' \in Flash /\ FlashLocked'
<1>1. CASE TaskCheck \/ TaskReport
      BY <1>1 DEF TaskCheck, TaskReport, TaskOnly, DeviceInv, FlashLocked, Running
<1>2. CASE TaskUnlock
      BY <1>2, BpType DEF TaskUnlock, DeviceInv, FlashLocked
<1>3. CASE TaskSetReady
  <2>1. PICK w \in ClearNotReady(nor, {header}) : nor' = w
        BY <1>3 DEF TaskSetReady
  <2>2. {header} \in SUBSET Addr
        BY <1>3 DEF TaskSetReady, DeviceInv, TaskOK
  <2>3. w \in Flash
        BY <2>1, <2>2, ClearType DEF DeviceInv
  <2>4. QED
        BY <1>3, <2>1, <2>3 DEF TaskSetReady, FlashLocked
<1>4. CASE TaskLock
      BY <1>4, BpType DEF TaskLock, DeviceInv, FlashLocked
<1>5. QED
      BY <1>1, <1>2, <1>3, <1>4 DEF TaskStep

\* The headers that ACTIVE_IMAGE_RESET may have set ready when the power goes.
LEMMA ReadySoFarType ==
    ASSUME WriterOK, NEW hs \in ReadySoFar
    PROVE  hs \subseteq Addr /\ hs \subseteq UserHeaders
BY ActivationHeaders DEF ReadySoFar

\* The connection, the power and the boot.
LEMMA LockRest ==
    ASSUME SessionInv, DeviceInv, FlashLocked,
           \/ DisconnectAll \/ LinkLoss \/ Boot \/ PowerLoss \/ PowerLossInUpdate
           \/ PowerLossInActivation
    PROVE  nor' \in Flash /\ FlashLocked'
<1>1. WriterOK
      BY WriterThere
<1>2. CASE DisconnectAll \/ LinkLoss \/ PowerLoss
      BY <1>2 DEF DisconnectAll, LinkLoss, PowerLoss, Disconnected, dfu_fw_reboot, taskVars,
         DeviceInv, FlashLocked, Running
<1>3. CASE Boot
      BY <1>3, BpType DEF Boot, DeviceInv, FlashLocked
<1>4. CASE PowerLossInUpdate
  <2>1. \/ \E o \in dfu_update(nor, image_id, cur_offset, EntryOffset, ota_temp_buffer) :
              nor' = o.nor
        \/ nor' \in UpdateCut(nor, image_id, cur_offset, EntryOffset, ota_temp_buffer)
        BY <1>4 DEF PowerLossInUpdate
  <2>2. ASSUME NEW o \in dfu_update(nor, image_id, cur_offset, EntryOffset, ota_temp_buffer)
        PROVE  o.nor \in Flash
        BY <1>1, UpdateStep DEF OutcomeWith, WriterOK
  <2>3. ASSUME nor' \in UpdateCut(nor, image_id, cur_offset, EntryOffset, ota_temp_buffer)
        PROVE  nor' \in Flash
    <3>1. EntryOffset \in Nat
          BY <1>1, ServiceAssumption DEF WriterOK, EntryOffset
    <3>2. QED
          BY <1>1, <2>3, <3>1, CutType DEF WriterOK
  <2>4. QED
        BY <1>4, <2>1, <2>2, <2>3 DEF PowerLossInUpdate, FlashLocked, Running
<1>5. CASE PowerLossInActivation
  <2>1. PICK hs \in ReadySoFar : nor' \in dfu_set_image_ready(nor, hs)
        BY <1>5 DEF PowerLossInActivation
  <2>2. nor' \in Flash
        BY <1>1, <2>1, ReadySoFarType, ReadyType DEF DeviceInv
  <2>3. QED
        BY <1>5, <2>2 DEF PowerLossInActivation, FlashLocked, Running
<1>6. QED
      BY <1>2, <1>3, <1>4, <1>5

\* The flash of earlier updates is a flash.
LEMMA OldFlashType ==
    ASSUME current.by \in Clients
    PROVE  OldFlash \in Flash
<1> DEFINE holds(x) == {m \in DOMAIN OldImage : x - OldImage[m] \in 0 .. Total[m] - 1}
           cell(x) == IF holds(x) = {} THEN Erased
                      ELSE LET m == CHOOSE i \in holds(x) : TRUE IN <<m, x - OldImage[m]>>
<1>1. ASSUME NEW x \in Addr
      PROVE  cell(x) \in Content
  <2>1. CASE holds(x) = {}
        BY <2>1 DEF Content
  <2>2. CASE holds(x) # {}
    <3>1. PICK m : m = CHOOSE i \in holds(x) : TRUE
          OBVIOUS
    <3>2. m \in holds(x)
          BY <2>2, <3>1
    <3>3. m \in Image /\ x - OldImage[m] \in 0 .. Total[m] - 1
          BY <3>2, LayoutAssumption
    <3>4. <<m, x - OldImage[m]>> \in {m} \X (0 .. Total[m] - 1)
          BY <3>3
    <3>5. <<m, x - OldImage[m]>> \in Content
          BY <3>3, <3>4, DataAssumption DEF Content
    <3>6. QED
          BY <2>2, <3>1, <3>5
  <2>3. QED
        BY <2>1, <2>2
<1>2. [x \in Addr |-> cell(x)] \in [Addr -> Content]
      BY <1>1
<1>3. {OldImage[m] : m \in DOMAIN OldImage} \subseteq Addr
      BY LayoutAssumption
<1>4. MaxFaults - current.by.faults \in 0 .. MaxFaults
      BY ClientAssumption, FlashAssumption
<1>5. QED
      BY <1>2, <1>3, <1>4 DEF OldFlash, Flash

\* The device at the start.
LEMMA DeviceInit ==
    ASSUME Init
    PROVE  DeviceInv /\ FlashLocked
<1>1. current.by \in Clients /\ nor = OldFlash
      BY DEF Init
<1>2. nor \in Flash /\ nor.bp = TRUE
      BY <1>1, OldFlashType DEF OldFlash
<1>3. 0 \in 0 .. MaxIo
      BY LayoutAssumption
<1>4. TaskOK
      BY <1>3 DEF Init, TaskInit, TaskOK, Tasks
<1>5. TempOK /\ FlagsOK
      BY DEF Init, RamInit, TempOK, FlagsOK
<1>6. QED
      BY <1>2, <1>4, <1>5 DEF DeviceInv, FlashLocked

\* Every step keeps the device and its protection.
LEMMA DeviceStep ==
    ASSUME SessionInv, DeviceInv, BankSwitch, FlashLocked, [Next]_vars
    PROVE  DeviceInv' /\ FlashLocked'
<1>1. TaskOK' /\ TempOK' /\ FlagsOK'
      BY TaskStepOK, TempStep, FlagsStep DEF DeviceInv
<1>2. CASE UNCHANGED vars
  <2>1. UNCHANGED <<nor, power, task, active_rst_pending>>
        BY <1>2 DEF vars, dfuVars, taskVars
  <2>2. nor' \in Flash /\ FlashLocked'
        BY <2>1 DEF DeviceInv, FlashLocked, Running
  <2>3. QED
        BY <1>1, <2>2 DEF DeviceInv
<1>3. CASE ~UNCHANGED vars
  <2>1. nor' \in Flash /\ FlashLocked'
        BY <1>3, LockClient, LockTask, LockRest DEF Next, Over
  <2>2. QED
        BY <1>1, <2>1 DEF DeviceInv
<1>4. QED
      BY <1>2, <1>3

\* The device and its protection in every behaviour.
LEMMA Device == ASSUME Sizes, BankSwitch PROVE Spec => [](SessionInv /\ DeviceInv /\ FlashLocked)
<1>1. Init => SessionInv /\ DeviceInv /\ FlashLocked
      BY SessionInit, DeviceInit
<1>2. (SessionInv /\ DeviceInv /\ FlashLocked) /\ [Next]_vars
         => (SessionInv /\ DeviceInv /\ FlashLocked)'
      BY SessionStep, DeviceStep
<1>3. QED
      BY <1>1, <1>2, PTL DEF Spec

\* With bank switching the state keeps its shape: no offset leaves 32 bits, the
\* queue of the application task never holds more than MAX_NUMBER_OF_IO_MESSAGE.
THEOREM TypeCorrect == ASSUME Sizes, BankSwitch PROVE Spec => []TypeOK
<1>1. SessionInv /\ DeviceInv => TypeOK
  <2> SUFFICES ASSUME SessionInv, DeviceInv
               PROVE  TypeOK
      OBVIOUS
  <2>1. temp_image_num \in 0 .. MaxTemp - 1
        BY ServiceAssumption DEF DeviceInv, TempOK
  <2>2. current.by \in Clients
        BY DEF SessionInv, Shape
  <2>3. QED
        BY <2>1, <2>2, NoEntries
        DEF SessionInv, Shape, DeviceInv, TaskOK, FlagsOK, Tasks, TypeOK
<1>2. QED
      BY <1>1, Device, PTL

\* With bank switching the flash is protected whenever the application task is
\* not setting an image ready, whatever failed, whoever lost the connection or
\* the power, and however the task and the client take turns.
THEOREM FlashProtected == ASSUME Sizes, BankSwitch PROVE Spec => []FlashLocked
<1>1. QED
      BY Device, PTL
-----------------------------------------------------------------------------
(* What the flash holds of the image that is sent.                         *)

\* The first length cells of the image stand at the start of its bank.
Prefix(n, length) == \A i \in 0 .. length - 1 : /\ TempBase[Id] + i \in Addr
                                                /\ n.mem[TempBase[Id] + i] = <<Img, i>>

\* The device can tell what it receives: from the checksum of the buffer, or
\* because everything arrives.
Undamaged == ~current.by.missed /\ (Checked \/ intact)

PrefixOK == Running /\ client \in {"send", "REPORT_BUFFER_CRC"} /\ Undamaged =>
                Prefix(nor, cur_offset)

\* A flash that agrees on these cells has the prefix too.
LEMMA PrefixSame ==
    ASSUME NEW n, NEW w, NEW k \in Nat, NEW l \in Nat, l <= k, Prefix(n, k),
           \A i \in 0 .. l - 1 : TempBase[Id] + i \in Addr =>
               w.mem[TempBase[Id] + i] = n.mem[TempBase[Id] + i]
    PROVE  Prefix(w, l)
<1>1. \A i \in 0 .. l - 1 : i \in 0 .. k - 1
      OBVIOUS
<1>2. QED
      BY <1>1 DEF Prefix

\* An update that is refused, or of an image without a bank, does nothing.
LEMMA NoUpdate ==
    ASSUME NEW n, NEW id, NEW offset, NEW total_offset, NEW data,
           NEW o \in dfu_update(n, id, offset, total_offset, data),
           ~(TempBase[id] # 0 /\ Fitting(id, offset, data))
    PROVE  o.nor = n /\ ~o.ok
BY UpdateCases DEF Failed

\* The offset behind the data is not cut to its width.
Unwrapped(k, data) == k + Len(data) < Wrap

\* An update behind the prefix keeps it, also one that fails halfway: no sector
\* before the one it starts in is erased.  One that succeeds with the next cells
\* of the image makes it longer.
LEMMA PrefixUpdate ==
    ASSUME Shape, NEW n \in Flash, NEW data \in Seq(Content), NEW k \in Nat, Prefix(n, k),
           Unwrapped(k, data), NEW o \in dfu_update(n, Id, k, 0, data)
    PROVE  /\ Prefix(o.nor, k)
           /\ o.ok /\ data = Cells(Img, k, Len(data)) => Prefix(o.nor, k + Len(data))
<1>0. SUFFICES ASSUME TempBase[Id] # 0, Fitting(Id, k, data)
               PROVE  /\ Prefix(o.nor, k)
                      /\ o.ok /\ data = Cells(Img, k, Len(data)) => Prefix(o.nor, k + Len(data))
      BY NoUpdate
<1>1. /\ Id \in ImageId /\ TempBase[Id] \in Nat /\ TempSize[Id] \in Nat
      /\ SECTOR \in Nat /\ Len(data) \in Nat
      BY ImageType, ImageAssumption, FlashAssumption
<1>2. PICK start : start = StartAddr(Id, k, 0)
      OBVIOUS
<1>a. PICK base \in Nat, size \in Nat, length \in Nat :
           base = TempBase[Id] /\ size = TempSize[Id] /\ length = Len(data)
      BY <1>1
<1>b. k + length <= size /\ k <= size /\ Wrap \in Nat
  <2>1. k + Len(data) <= TempSize[Id]
        BY <1>0, <1>1, FitsBank DEF Unwrapped
  <2>2. k + length <= size
        BY <1>a, <2>1
  <2>3. QED
        BY <2>2, ImageAssumption
<1>c. start = base + k /\ base + size < Wrap
      BY <1>0, <1>1, <1>2, <1>a, <1>b, InBank
<1>d. start + length < Wrap
      BY <1>b, <1>c
<1>3. start = TempBase[Id] + k /\ start \in Nat
      BY <1>a, <1>c
<1>4. /\ \A x \in Addr :
            /\ x \notin start .. start + Len(data) - 1
            /\ \A e \in SectorToErase(start, Len(data)) : x \notin e .. e + SECTOR - 1
            => o.nor.mem[x] = n.mem[x]
      /\ o.ok => \A j \in 1 .. Len(data) : /\ start + j - 1 \in Addr
                                           /\ o.nor.mem[start + j - 1] = data[j]
  <2>1. 0 \in Nat
        OBVIOUS
  <2>2. \A x \in Spared(start, Len(data)) : o.nor.mem[x] = n.mem[x]
        BY <1>1, <1>2, <2>1, UpdateCells DEF Alike
  <2>3. o.ok => \A j \in 1 .. Len(data) : /\ start + j - 1 \in Addr
                                          /\ o.nor.mem[start + j - 1] = data[j]
        BY <1>1, <1>2, <2>1, UpdateCells
  <2>4. QED
        BY <2>2, <2>3 DEF Spared
<1>5. ASSUME NEW e \in SectorToErase(start, Len(data))
      PROVE  e \in Nat /\ start <= e
      BY <1>1, <1>3, <1>a, <1>d, SectorToEraseRange, Zenon
<1>6. ASSUME NEW i \in 0 .. k - 1
      PROVE  TempBase[Id] + i \in Addr /\ o.nor.mem[TempBase[Id] + i] = <<Img, i>>
  <2>1. TempBase[Id] + i \in Addr /\ n.mem[TempBase[Id] + i] = <<Img, i>>
        BY DEF Prefix
  <2>2. PICK x \in Addr : x = TempBase[Id] + i
        BY <2>1
  <2>3. x < start /\ x \in Nat
        BY <1>1, <1>3, <2>2
  <2>4. /\ x \notin start .. start + Len(data) - 1
        /\ \A e \in SectorToErase(start, Len(data)) : x \notin e .. e + SECTOR - 1
    <3>1. x \notin start .. start + Len(data) - 1
          BY <1>1, <1>3, <2>3
    <3>2. ASSUME NEW e \in SectorToErase(start, Len(data))
          PROVE  x \notin e .. e + SECTOR - 1
      <4>1. e \in Nat /\ start <= e
            BY <1>5
      <4>2. QED
            BY <1>1, <1>3, <2>3, <4>1
    <3>3. QED
          BY <3>1, <3>2
  <2>5. o.nor.mem[x] = n.mem[x]
        BY <1>4, <2>4
  <2>6. QED
        BY <2>1, <2>2, <2>5
<1>7. ASSUME o.ok, data = Cells(Img, k, Len(data)), NEW i \in 0 .. k + Len(data) - 1, ~(i < k)
      PROVE  TempBase[Id] + i \in Addr /\ o.nor.mem[TempBase[Id] + i] = <<Img, i>>
  <2>1. PICK j : j = i - k + 1
        OBVIOUS
  <2>2. /\ j \in 1 .. Len(data) /\ start + j - 1 = TempBase[Id] + i
        /\ k + j - 1 = i
    <3>1. i \in 0 .. k + length - 1 /\ ~(i < k)
          BY <1>7, <1>a
    <3>2. j \in 1 .. length /\ start + j - 1 = base + i /\ k + j - 1 = i
          BY <1>c, <2>1, <3>1
    <3>3. QED
          BY <1>a, <3>2
  <2>3. data[j] = <<Img, k + j - 1>>
    <3>1. Cells(Img, k, Len(data))[j] = <<Img, k + j - 1>>
          BY <1>1, <2>2, CellsAt, Zenon
    <3>2. QED
          BY <1>7, <3>1
  <2>4. start + j - 1 \in Addr /\ o.nor.mem[start + j - 1] = data[j]
        BY <1>4, <1>7, <2>2
  <2>5. QED
        BY <2>2, <2>3, <2>4
<1>8. Prefix(o.nor, k)
      BY <1>6 DEF Prefix
<1>9. ASSUME o.ok, data = Cells(Img, k, Len(data))
      PROVE  Prefix(o.nor, k + Len(data))
  <2>1. ASSUME NEW i \in 0 .. k + Len(data) - 1
        PROVE  TempBase[Id] + i \in Addr /\ o.nor.mem[TempBase[Id] + i] = <<Img, i>>
    <3>1. CASE i < k
      <4>1. i \in 0 .. k - 1
            BY <1>1, <3>1
      <4>2. QED
            BY <1>6, <4>1
    <3>2. CASE ~(i < k)
          BY <1>7, <1>9, <3>2
    <3>3. QED
          BY <3>1, <3>2
  <2>2. QED
        BY <2>1 DEF Prefix
<1>10. QED
      BY <1>8, <1>9

\* The retries after a failed update keep what is before the sector they erase.
LEMMA PrefixRetry ==
    ASSUME Shape, NEW n \in Flash, NEW k \in Nat, NEW l \in Nat, l <= k, Prefix(n, k),
           l < Wrap, NEW o \in dfu_flash_erase_sector_with_retry(n, Id, l)
    PROVE  Prefix(o.nor, l)
<1>1. Id \in ImageId /\ TempBase[Id] \in Nat /\ SECTOR \in Nat /\ Wrap \in Nat
      BY ImageType, ImageAssumption, FlashAssumption
<1>0. PICK a \in Nat : a = (TempBase[Id] + l) % Wrap
      BY <1>1, WrapType
<1>2. ASSUME NEW i \in 0 .. l - 1, TempBase[Id] + i \in Addr
      PROVE  o.nor.mem[TempBase[Id] + i] = n.mem[TempBase[Id] + i]
  <2>1. PICK x \in Addr : x = TempBase[Id] + i
        BY <1>2
  <2>2. a = TempBase[Id] + l
    <3>1. \A j \in 0 .. l - 1 : TempBase[Id] + j \in Addr
          BY DEF Prefix
    <3>2. TempBase[Id] + (l - 1) \in Addr
          BY <1>2, <3>1
    <3>3. TempBase[Id] + l < Wrap
          BY <1>1, <3>2, ImageAssumption, FlashAssumption DEF Addr
    <3>4. QED
          BY <1>0, <1>1, <3>3, NoWrap
  <2>4. x \notin a .. a + SECTOR - 1
        BY <1>1, <2>1, <2>2
  <2>3. o.nor.mem[x] = n.mem[x]
        BY <1>0, <1>1, <2>4, RetryCells DEF Alike
  <2>5. QED
        BY <2>1, <2>3
<1>3. QED
      BY <1>2, PrefixSame

\* A packet: what is flushed are the next cells of the image.
LEMMA PrefixPacket ==
    ASSUME SessionInv, DeviceInv, Sizes, PrefixOK, Running, client = "send",
           UNCHANGED <<client, current, pos>>,
           NEW length \in Nat \ {0}, NEW fate \in {"arrives", "damaged", "lost"},
           Packet(length, fate), pos + sent + length <= Total[Img]
    PROVE  PrefixOK'
<1> DEFINE cells == Cells(Img, pos + sent, length)
           filled == ota_temp_buffer \o cells
<1> SUFFICES ASSUME Running', Undamaged'
             PROVE  Prefix(nor', cur_offset')
  <2>1. Img' = Img /\ Id' = Id
        BY SameImage
  <2>2. Prefix(nor', cur_offset') => Prefix(nor, cur_offset)'
        BY <2>1 DEF Prefix
  <2>3. QED
        BY <2>2 DEF PrefixOK
<1>1. /\ Checked' = Checked /\ current'.by.missed = current.by.missed
      BY SameImage
<1>2. /\ is_ota_procedure /\ (Checked => buffer_check_en) /\ image_id = Id /\ EntryOffset = 0
      /\ Checked \in BOOLEAN
      BY NoEntries, ImageType
      DEF SessionInv, DeviceInv, StartOK, ModeOK, StartStates, ModeStates
<1>3. intact' => intact /\ fate = "arrives"
      BY DEF Packet
<1>4. Prefix(nor, cur_offset)
      BY <1>1, <1>3 DEF PrefixOK, Undamaged
<1>5. CASE UNCHANGED <<nor, cur_offset>>
      BY <1>4, <1>5
<1>6. CASE fate = "lost"
      BY <1>5, <1>6 DEF Packet, dfuVars, ramVars, sessionVars
<1>7. CASE Checked /\ fate # "lost"
  <2>1. PICK data : PacketReq(data)
        BY <1>7 DEF Packet
  <2>2. UNCHANGED <<nor, cur_offset>>
        BY <1>2, <1>7, <2>1 DEF PacketReq, PacketIgnored, PacketBuffered, PacketPlain
  <2>3. QED
        BY <1>5, <2>2
<1>8. CASE ~Checked
  <2>1. intact /\ fate = "arrives"
        BY <1>1, <1>3, <1>8 DEF Undamaged
  <2>2. PacketReq(cells)
        BY <2>1 DEF Packet
  <2>3. /\ Shape /\ nor \in Flash /\ cur_offset \in Nat /\ Used \in Nat
        /\ pos \in Nat /\ sent \in Nat /\ pos + sent \in Nat /\ Img \in Image
        /\ ota_temp_buffer \in Seq(Content)
        BY ImageType, ServiceAssumption DEF SessionInv, DeviceInv, Shape, Used
  <2>4. pos + sent = cur_offset + Used /\ ota_temp_buffer = Cells(Img, cur_offset, Used)
        BY <2>1 DEF SessionInv, SendOK
  <2>5. cells \in Seq(Content) /\ Len(cells) = length
        BY <2>3, CellsType
  <2>6. filled \in Seq(Content) /\ Len(filled) = Used + length
        BY <2>3, <2>5 DEF Used
  <2>7. filled = Cells(Img, cur_offset, Used + length)
    <3>1. cur_offset \in Nat /\ Used \in Nat /\ length \in Nat
          BY <2>3
    <3>2. cells = Cells(Img, cur_offset + Used, length)
          BY <2>4
    <3>3. Cells(Img, cur_offset, Used) \o Cells(Img, cur_offset + Used, length)
             = Cells(Img, cur_offset, Used + length)
          BY <3>1, CellsJoin, Zenon
    <3>4. QED
          BY <2>4, <3>2, <3>3
  <2> HIDE DEF filled
  <2>8. CASE \E o \in dfu_update(nor, image_id, cur_offset, EntryOffset, filled) :
               o.ok /\ nor' = o.nor /\ cur_offset' = cur_offset + Len(filled)
    <3>1. PICK o \in dfu_update(nor, Id, cur_offset, 0, filled) :
                 o.ok /\ nor' = o.nor /\ cur_offset' = cur_offset + Len(filled)
          BY <1>2, <2>8
    <3>2. filled = Cells(Img, cur_offset, Len(filled))
          BY <2>6, <2>7
    <3>3. cur_offset + Len(filled) < Wrap
      <4>1. cur_offset + Len(filled) <= Total[Img]
            BY <2>3, <2>4, <2>6
      <4>2. Total[Img] < Wrap /\ Total[Img] \in Nat /\ Wrap \in Nat
            BY <2>3, ImageAssumption DEF Sizes
      <4>3. QED
            BY <2>3, <2>6, <4>1, <4>2
    <3>5. Prefix(o.nor, cur_offset + Len(filled))
          BY <1>4, <2>3, <2>6, <3>1, <3>2, <3>3, PrefixUpdate DEF Unwrapped
    <3>4. QED
          BY <3>1, <3>5
  <2>9. UNCHANGED <<nor, cur_offset>>
        \/ \E o \in dfu_update(nor, image_id, cur_offset, EntryOffset, filled) :
               o.ok /\ nor' = o.nor /\ cur_offset' = cur_offset + Len(filled)
        BY <1>2, <2>2 DEF filled, PacketReq, PacketIgnored, PacketBuffered, PacketPlain,
           dfu_fw_reboot, Running
  <2>10. QED
        BY <1>5, <2>8, <2>9
<1>9. QED
      BY <1>2, <1>6, <1>7, <1>8

\* The two ways of sending.
LEMMA PrefixSend ==
    ASSUME SessionInv, DeviceInv, Sizes, PrefixOK, SendPacket \/ SendRest
    PROVE  PrefixOK'
<1>1. /\ Running /\ client = "send" /\ UNCHANGED <<client, current, pos>>
      /\ pos \in Nat /\ sent \in Nat /\ Total[Img] \in Nat
      /\ current.by.chunks \subseteq Nat \ {0}
      BY ImageType DEF SendPacket, SendRest, At, SessionInv, Shape
<1>2. CASE SendPacket
  <2>1. PICK length \in current.by.chunks, fate \in {"arrives", "damaged", "lost"} :
               pos + sent + length <= Total[Img] /\ Packet(length, fate)
        BY <1>2 DEF SendPacket
  <2>2. QED
        BY <1>1, <2>1, PrefixPacket
<1>3. CASE SendRest
  <2>1. PICK length : length = Total[Img] - pos - sent
        OBVIOUS
  <2>2. length \in Nat \ {0} /\ pos + sent + length <= Total[Img]
        BY <1>1, <1>3, <2>1 DEF SendRest
  <2>3. Packet(length, "arrives")
        BY <1>3, <2>1 DEF SendRest
  <2>4. QED
        BY <1>1, <2>2, <2>3, PrefixPacket
<1>4. QED
      BY <1>2, <1>3

\* A buffer report: a buffer with the right checksum are the next cells, and a
\* failed update takes the offset back to what the retries leave alone.
LEMMA PrefixReport ==
    ASSUME SessionInv, DeviceInv, Sizes, PrefixOK, SendBufferCrc
    PROVE  PrefixOK'
<1> SUFFICES ASSUME Undamaged'
             PROVE  Prefix(nor', cur_offset')
  <2>1. Img' = Img /\ Id' = Id
        BY SameImage DEF SendBufferCrc, GoTo
  <2>2. Prefix(nor', cur_offset') => Prefix(nor, cur_offset)'
        BY <2>1 DEF Prefix
  <2>3. QED
        BY <2>2 DEF PrefixOK
<1>1. /\ UNCHANGED <<current, intact>> /\ Running /\ client = "send" /\ Checked
      BY DEF SendBufferCrc, At, GoTo
<1>2. /\ image_id = Id /\ EntryOffset = 0
      /\ cur_offset - dfu_resend_offset \in 0 .. SECTOR - 1
      /\ intact => ota_temp_buffer = Cells(Img, cur_offset, Used)
      BY <1>1, NoEntries DEF SessionInv, DeviceInv, StartOK, SendOK, StartStates, ResendClose
<1>3. /\ Shape /\ nor \in Flash /\ cur_offset \in Nat /\ dfu_resend_offset \in Nat
      /\ Used \in Nat /\ ota_temp_buffer \in Seq(Content) /\ Used = Len(ota_temp_buffer)
      /\ cur_offset < Wrap /\ Wrap \in Nat \ {0} /\ SECTOR \in Nat \ {0} /\ intact \in BOOLEAN
      BY ServiceAssumption, ImageAssumption, FlashAssumption DEF SessionInv, DeviceInv, Shape, Used
<1>4. ~current.by.missed
      BY <1>1 DEF Undamaged
<1>5. Prefix(nor, cur_offset)
      BY <1>1, <1>4 DEF PrefixOK, Undamaged
<1>6. PICK ok : ReportBufferCrc(sent, ok) /\ (ok => intact)
      BY <1>3, <1>4 DEF SendBufferCrc
<1>7. CASE UNCHANGED <<nor, cur_offset>>
      BY <1>5, <1>7
<1>8. CASE intact /\ \E o \in dfu_update(nor, image_id, cur_offset, EntryOffset, ota_temp_buffer) :
               BufferWritten(o) \/ BufferLost(o)
  <2>1. PICK o \in dfu_update(nor, Id, cur_offset, 0, ota_temp_buffer) :
               BufferWritten(o) \/ BufferLost(o)
        BY <1>2, <1>8
  <2>0. cur_offset + Len(ota_temp_buffer) < Wrap
    <3>1. pos + sent <= Total[Img] /\ cur_offset + Used <= pos + sent
          BY <1>1 DEF SessionInv, SendOK
    <3>2. /\ Total[Img] < Wrap /\ Total[Img] \in Nat /\ Wrap \in Nat
          /\ pos \in Nat /\ sent \in Nat
          BY <1>3, ImageType, ImageAssumption DEF Sizes, Shape
    <3>3. QED
          BY <1>3, <3>1, <3>2
  <2>2. /\ Prefix(o.nor, cur_offset)
        /\ o.ok => Prefix(o.nor, cur_offset + Used)
        BY <1>2, <1>3, <1>5, <1>8, <2>0, <2>1, PrefixUpdate DEF Unwrapped
  <2>3. CASE BufferWritten(o)
        BY <2>2, <2>3 DEF BufferWritten
  <2>4. CASE BufferLost(o)
    <3>1. PICK e \in ResendErase(o.nor) : nor' = e.nor
          BY <2>4 DEF BufferLost
    <3>2. e \in dfu_flash_erase_sector_with_retry(o.nor, Id, dfu_resend_offset)
      <4>1. ResendErase(o.nor)
               = dfu_flash_erase_sector_with_retry(o.nor, image_id, dfu_resend_offset)
            BY <1>2, <1>3, OneRetry DEF ResendClose, Shape
      <4>2. QED
            BY <1>2, <3>1, <4>1
    <3>3. o.nor \in Flash
      <4>1. WriterOK
            BY WriterThere
      <4>2. o \in OutcomeWith(nor, HeadersFlushed(ota_temp_buffer))
            BY <1>2, <1>3, <2>1, <4>1, UpdateStep
      <4>3. QED
            BY <4>2 DEF OutcomeWith
    <3>4. dfu_resend_offset <= cur_offset
          BY <1>2, <1>3
    <3>5. Prefix(e.nor, dfu_resend_offset)
          BY <1>3, <2>2, <3>2, <3>3, <3>4, PrefixRetry DEF Shape
    <3>6. QED
          BY <2>4, <3>1, <3>5 DEF BufferLost
  <2>5. QED
        BY <2>1, <2>3, <2>4
<1>9. QED
      BY <1>6, <1>7, <1>8 DEF ReportBufferCrc

\* The answer to a buffer report changes neither the flash nor the offset.
LEMMA PrefixReceive ==
    ASSUME SessionInv, PrefixOK, Receive
    PROVE  PrefixOK'
<1> DEFINE n == Head(notif)
<1>1. Running /\ UNCHANGED <<nor, power, cur_offset>>
      BY DEF Receive, ramVars, sessionVars
<1>2. n.op \in Answers
  <2>1. n \in Notification
        BY DEF Receive, SessionInv, Shape
  <2>2. QED
        BY <2>1 DEF Notification
<1> HIDE DEF n
<1>3. \/ client' \notin {"send", "REPORT_BUFFER_CRC"}
      \/ UNCHANGED <<client, current, intact>>
      \/ client = "REPORT_BUFFER_CRC" /\ UNCHANGED current
      BY <1>2 DEF Receive, clientVars, n, Answers
<1>4. CASE client' \notin {"send", "REPORT_BUFFER_CRC"}
      BY <1>4 DEF PrefixOK
<1>5. CASE UNCHANGED current
  <2>1. Img' = Img /\ Id' = Id /\ Checked' = Checked
        BY <1>5, SameImage
  <2>2. Prefix(nor, cur_offset) => Prefix(nor, cur_offset)'
        BY <1>1, <2>1 DEF Prefix
  <2>3. CASE UNCHANGED <<client, intact>>
        BY <1>1, <1>5, <2>1, <2>2, <2>3 DEF PrefixOK, Undamaged, Running
  <2>4. CASE client = "REPORT_BUFFER_CRC"
    <3>1. Checked
          BY <1>1, <2>4 DEF SessionInv, ReportOK
    <3>2. QED
          BY <1>1, <1>5, <2>2, <2>4, <3>1 DEF PrefixOK, Undamaged
  <2>5. QED
        BY <1>3, <1>4, <2>3, <2>4
<1>6. QED
      BY <1>3, <1>4, <1>5

\* The application task sets ready what it found whole: no cell of an image
\* changes by that.
LEMMA PrefixTask ==
    ASSUME SessionInv, DeviceInv, PrefixOK, TaskStep
    PROVE  PrefixOK'
<1>1. UNCHANGED <<client, current, intact, power, cur_offset>>
      BY DEF TaskStep, TaskCheck, TaskUnlock, TaskSetReady, TaskLock, TaskReport, TaskOnly,
             clientVars, sessionVars
<1>2. Plan' = Plan /\ Img' = Img /\ Id' = Id /\ Checked' = Checked
      BY <1>1, SameImage
<1> SUFFICES ASSUME Running, client \in {"send", "REPORT_BUFFER_CRC"}, Undamaged
             PROVE  Prefix(nor', cur_offset)
  <2>1. Prefix(nor', cur_offset) => Prefix(nor, cur_offset)'
        BY <1>1, <1>2 DEF Prefix
  <2>2. QED
        BY <1>1, <1>2, <2>1 DEF PrefixOK, Undamaged, Running
<1>3. Prefix(nor, cur_offset)
      BY DEF PrefixOK
<1>4. cur_offset \in Nat /\ nor \in Flash /\ Img \in Image /\ Total[Img] \in Nat
      BY ServiceAssumption, ImageType DEF SessionInv, DeviceInv, Shape
<1>5. cur_offset <= Total[Img]
  <2>1. pos \in Nat /\ sent \in Nat /\ Used \in Nat
        BY DEF SessionInv, Shape, Used
  <2>2. CASE client = "send"
        BY <1>4, <2>1, <2>2 DEF SessionInv, SendOK
  <2>3. CASE client = "REPORT_BUFFER_CRC"
        BY <2>3 DEF SessionInv, ReportOK
  <2>4. QED
        BY <2>2, <2>3
<1>6. CASE UNCHANGED nor
      BY <1>3, <1>6
<1>7. CASE TaskUnlock \/ TaskLock
  <2>1. nor'.mem = nor.mem
        BY <1>4, <1>7 DEF TaskUnlock, TaskLock, unlock_flash_bp_all, lock_flash_bp, Flash
  <2>2. QED
        BY <1>3, <2>1 DEF Prefix
<1>8. CASE TaskSetReady
  <2>1. PICK w \in ClearNotReady(nor, {header}) : nor' = w
        BY <1>8 DEF TaskSetReady
  <2>2. {header} \in SUBSET Addr
        BY <1>8 DEF TaskSetReady, DeviceInv, TaskOK
  <2>3. ASSUME NEW i \in 0 .. cur_offset - 1, TempBase[Id] + i \in Addr
        PROVE  w.mem[TempBase[Id] + i] = nor.mem[TempBase[Id] + i]
    <3>1. nor.mem[TempBase[Id] + i] = <<Img, i>>
          BY <1>3 DEF Prefix
    <3>2. i \in 0 .. Total[Img] - 1
          BY <1>4, <1>5
    <3>3. <<Img, i>> \in {Img} \X (0 .. Total[Img] - 1)
          BY <3>2
    <3>4. <<Img, i>> # Erased
          BY <1>4, <3>3, DataAssumption
    <3>5. QED
          BY <1>4, <2>1, <2>2, <2>3, <3>1, <3>4, ClearCells
  <2>4. Prefix(w, cur_offset)
        BY <1>3, <2>3 DEF Prefix
  <2>5. QED
        BY <2>1, <2>4
<1>9. QED
      BY <1>6, <1>7, <1>8 DEF TaskStep, TaskCheck, TaskReport

\* Every step keeps what the flash holds of the image that is sent.
LEMMA PrefixStep ==
    ASSUME SessionInv, DeviceInv, Sizes, PrefixOK, [Next]_vars
    PROVE  PrefixOK'
<1>1. ASSUME client' \notin {"send", "REPORT_BUFFER_CRC"} \/ power' # "on"
      PROVE  PrefixOK'
      BY <1>1 DEF PrefixOK, Running
<1>2. CASE \/ Connect \/ Reconnect \/ Enable \/ Info \/ Start \/ SendValidFw
           \/ SendActiveImageReset \/ SendSystemReset \/ LinkLoss \/ Boot
  <2>1. client' \notin {"send", "REPORT_BUFFER_CRC"}
        BY <1>2 DEF Connect, Reconnect, Enable, Info, Start, SendValidFw, SendActiveImageReset,
           SendSystemReset, LinkLoss, Lost, Boot, GoTo
  <2>2. QED
        BY <1>1, <2>1
<1>3. CASE PowerLoss \/ PowerLossInUpdate \/ PowerLossInActivation
      BY <1>1, <1>3 DEF PowerLoss, PowerLossInUpdate, PowerLossInActivation
<1>4. CASE Offset
  <2>1. cur_offset' = 0
        BY <1>4 DEF Offset, ReceiveFwImageInfo
  <2>2. QED
        BY <2>1 DEF PrefixOK, Prefix
<1>5. CASE UNCHANGED <<nor, cur_offset, client, current, intact>> /\ (Running' => Running)
  <2>1. Img' = Img /\ Id' = Id /\ Checked' = Checked
        BY <1>5, SameImage
  <2>2. Prefix(nor, cur_offset) => Prefix(nor, cur_offset)'
        BY <1>5, <2>1 DEF Prefix
  <2>3. QED
        BY <1>5, <2>1, <2>2 DEF PrefixOK, Undamaged
<1>6. CASE DisconnectAll \/ UNCHANGED vars
      BY <1>5, <1>6 DEF DisconnectAll, vars, dfuVars, ramVars, sessionVars, clientVars, Running
<1>7. QED
      BY <1>2, <1>3, <1>4, <1>6, PrefixSend, PrefixReport, PrefixReceive, PrefixTask
      DEF Next, ClientStep, Over

\* With bank switching the flash holds what the device reports as received, for
\* every image, bank and packet length, and whatever fails in the flash: a
\* client that uses the buffer check can go on from any offset it is told.
THEOREM PrefixKept == ASSUME Sizes, BankSwitch PROVE Spec => []PrefixIntact
<1>1. Init => PrefixOK
      BY DEF Init, PrefixOK
<1>2. SessionInv /\ DeviceInv /\ PrefixOK /\ [Next]_vars => PrefixOK'
      BY PrefixStep
<1>3. SessionInv /\ DeviceInv /\ PrefixOK => PrefixIntact
  <2> SUFFICES ASSUME SessionInv, DeviceInv, PrefixOK, Sending,
                      ~current.by.missed, Checked \/ intact, NEW i \in 0 .. cur_offset - 1
               PROVE  nor.mem[ImageStart + i] = <<Img, i>>
      BY DEF PrefixIntact
  <2>1. Prefix(nor, cur_offset)
        BY DEF PrefixOK, Undamaged, Sending
  <2>2. ImageStart = TempBase[Id]
    <3>1. TempBase[Id] \in Nat
          BY ImageType, ImageAssumption DEF SessionInv
    <3>2. EntryOffset = 0
          BY NoEntries DEF DeviceInv
    <3>3. TempBase[Id] < Wrap
      <4>1. TempBase[Id] + i \in Addr
            BY <2>1 DEF Prefix
      <4>2. QED
            BY <3>1, <4>1, ImageAssumption, FlashAssumption DEF Addr
    <3>4. ImageStart = TempBase[Id] % Wrap
          BY <3>1, <3>2 DEF ImageStart, StartAddr
    <3>5. QED
          BY <3>1, <3>3, <3>4, NoWrap
  <2>3. QED
        BY <2>1, <2>2 DEF Prefix
<1>4. QED
      BY <1>1, <1>2, <1>3, Device, PTL DEF Spec

-----------------------------------------------------------------------------
(* What the update leaves alone.                                           *)

\* Every image that is sent is packed as not ready and fits the bank of its id,
\* and the banks are whole sectors.
Fits == /\ SectorBanks
        /\ Released = {}
        /\ \A c \in Clients : \A k \in 1 .. Len(c.plan) :
               Total[c.plan[k]] <= TempSize[IdOf[c.plan[k]]]

\* No client sends user data: after user data ACTIVE_IMAGE_RESET sets the banks
\* of other ids ready as well.
NoUserData == /\ NoId \notin UserData
              /\ \A c \in Clients : \A k \in 1 .. Len(c.plan) : IdOf[c.plan[k]] \notin UserData

PlanIds == {IdOf[Plan[k]] : k \in 1 .. Len(Plan)}

\* What the service is about to write, and what the task is about to set ready,
\* belongs to an image of the client.
BankOK == /\ image_id \in {NoId} \cup PlanIds
          /\ task \in {"unlock", "set"} => header \in {TempBase[id] : id \in PlanIds}
          /\ InsideBanks

\* A step that writes in the banks of the client only.
Confined == \A x \in Addr : ~InBanks(x) => nor'.mem[x] = nor.mem[x]

\* The banks of the client, and the sector that each of them starts with.
LEMMA PlanBanks ==
    ASSUME Shape, Fits, NEW id \in PlanIds
    PROVE  /\ id \in ImageId /\ id # NoId
           /\ 0 < TempSize[id] /\ TempBase[id] \in Nat /\ TempSize[id] \in Nat
           /\ \A x : ~InBanks(x) => x \notin Bank(id)
<1>1. PICK k \in 1 .. Len(Plan) : id = IdOf[Plan[k]]
      BY DEF PlanIds
<1>2. Plan \in Seq(Image)
      BY ImageType
<1>3. Plan[k] \in Image
      BY <1>2
<1>4. id \in ImageId /\ id # NoId /\ Total[Plan[k]] \in Nat \ {0} /\ TempSize[id] \in Nat
      /\ Total[Plan[k]] <= TempSize[id] /\ TempBase[id] \in Nat
  <2>1. current.by \in Clients
        BY DEF Shape
  <2>2. Total[Plan[k]] <= TempSize[IdOf[Plan[k]]]
        BY <2>1 DEF Fits, Plan
  <2>3. QED
        BY <1>1, <1>3, <2>2, LayoutAssumption, ImageAssumption
<1>5. \A x : ~InBanks(x) => x \notin Bank(id)
      BY <1>1 DEF InBanks, Bank
<1>6. QED
      BY <1>4, <1>5

\* The image that is sent is one of them.
LEMMA IdInPlan ==
    ASSUME Shape
    PROVE  Id \in PlanIds
BY DEF Shape, Id, Img, PlanIds

\* Once cells of the image are received, what stood in its bank is not ready.
Onward == (cur_offset > 0 => TempBase[Id] \notin nor.ready)
              => (cur_offset' > 0 => TempBase[Id] \notin nor'.ready)

\* What is known of the image while it is sent.
LEMMA SentBank ==
    ASSUME SessionInv, DeviceInv, Fits, Running, client = "send"
    PROVE  /\ image_id = Id /\ EntryOffset = 0 /\ image_total_length = Total[Img]
           /\ Id \in PlanIds /\ Id \in ImageId /\ SectorBanks
           /\ Total[Img] <= TempSize[Id] /\ TempSize[Id] \in Nat /\ Total[Img] \in Nat
           /\ nor \in Flash /\ ota_temp_buffer \in Seq(Content)
           /\ cur_offset \in Nat /\ pos \in Nat /\ sent \in Nat
           /\ Used \in Nat /\ Used = Len(ota_temp_buffer)
<1>1. image_id = Id /\ EntryOffset = 0 /\ image_total_length = Total[Img]
      BY NoEntries DEF SessionInv, DeviceInv, StartOK, StartStates
<1>2. Id \in PlanIds /\ Id \in ImageId /\ TempSize[Id] \in Nat /\ Total[Img] \in Nat
      BY IdInPlan, PlanBanks, ImageType DEF SessionInv
<1>3. current.by \in Clients /\ current.k \in 1 .. Len(Plan)
      BY DEF SessionInv, Shape
<1>4. SectorBanks /\ Total[Img] <= TempSize[Id]
      BY <1>3 DEF Fits, Plan, Img, Id
<1>5. QED
      BY <1>1, <1>2, <1>4, ServiceAssumption DEF SessionInv, DeviceInv, Shape, Used

\* Data inside the image neither wraps nor sets a header ready.
LEMMA PlainData ==
    ASSUME Shape, Sizes, Fits, NEW k \in Nat, NEW data \in Seq(Content),
           k + Len(data) <= Total[Img]
    PROVE  k + Len(data) < Wrap /\ SentReady(k, data) = {}
<1>1. /\ Total[Img] \in Nat /\ Total[Img] < Wrap /\ Wrap \in Nat /\ Len(data) \in Nat
      BY ImageType, ImageAssumption DEF Sizes
<1>2. SentReady(k, data) = {}
      BY NoneSent, Zenon DEF Fits
<1>3. k + Len(data) < Wrap
  <2>1. PICK total \in Nat : total = Total[Img] /\ total < Wrap
        BY <1>1
  <2>2. PICK length \in Nat : length = Len(data)
        BY <1>1
  <2>3. k + length <= total
        BY <2>1, <2>2
  <2>4. QED
        BY <1>1, <2>1, <2>2, <2>3
<1>4. QED
      BY <1>2, <1>3

\* A packet is work on the bank of the image.
LEMMA WorkSend ==
    ASSUME SessionInv, DeviceInv, Sizes, Fits, SendPacket \/ SendRest
    PROVE  Work(nor', nor, Id, cur_offset) /\ Onward
<1>1. Running /\ client = "send"
      BY DEF SendPacket, SendRest, At
<1>2. /\ image_id = Id /\ EntryOffset = 0 /\ Id \in ImageId /\ SectorBanks /\ Shape
      /\ nor \in Flash /\ ota_temp_buffer \in Seq(Content) /\ cur_offset \in Nat
      /\ image_total_length = Total[Img]
      BY <1>1, SentBank DEF SessionInv
<1>3. ASSUME nor' = nor, cur_offset' = cur_offset
      PROVE  Work(nor', nor, Id, cur_offset) /\ Onward
      BY <1>3, NoWork DEF Onward
<1>4. ASSUME NEW data \in Seq(Content), data # << >>, PacketReq(data)
      PROVE  Work(nor', nor, Id, cur_offset) /\ Onward
  <2>1. PICK filled : filled = ota_temp_buffer \o data
        OBVIOUS
  <2>2. filled \in Seq(Content) /\ filled # << >>
        BY <1>2, <1>4, <2>1
  <2>3. ASSUME NEW o \in dfu_update(nor, Id, cur_offset, 0, filled), nor' = o.nor,
               o.ok \/ cur_offset' = cur_offset, cur_offset + Len(filled) <= Total[Img]
        PROVE  Work(nor', nor, Id, cur_offset) /\ Onward
    <3>0. cur_offset + Len(filled) < Wrap /\ SentReady(cur_offset, filled) = {}
          BY <1>2, <2>2, <2>3, PlainData
    <3>1. /\ Work(o.nor, nor, Id, cur_offset)
          /\ o.ok /\ (cur_offset = 0 \/ TempBase[Id] \notin nor.ready)
                => TempBase[Id] \notin o.nor.ready
          BY <1>2, <2>2, <3>0, UpdateWork
    <3>2. CASE o.ok
          BY <1>2, <2>3, <3>1, <3>2 DEF Onward
    <3>3. CASE cur_offset' = cur_offset
          BY <2>3, <3>1, <3>3 DEF Onward, Work
    <3>4. QED
          BY <2>3, <3>1, <3>2, <3>3
  <2>4. \/ nor' = nor /\ cur_offset' = cur_offset
        \/ \E o \in dfu_update(nor, Id, cur_offset, 0, filled) :
              /\ nor' = o.nor /\ (o.ok \/ cur_offset' = cur_offset)
              /\ cur_offset + Len(filled) <= Total[Img]
        BY <1>2, <1>4, <2>1
        DEF PacketReq, PacketIgnored, PacketBuffered, PacketPlain, dfuVars, ramVars, sessionVars
  <2>5. QED
        BY <1>3, <2>3, <2>4
<1>5. QED
      BY <1>3, <1>4, PacketContent DEF dfuVars, ramVars, sessionVars

\* A buffer is work on the bank of the image, and so are the retries when its
\* update fails: the resend point lies before the end of the image.
LEMMA WorkReport ==
    ASSUME SessionInv, DeviceInv, Fits, Sizes, SendBufferCrc
    PROVE  Work(nor', nor, Id, cur_offset) /\ Onward
<1>1. Running /\ client = "send" /\ Checked /\ sent > 0
      BY DEF SendBufferCrc, At
<1>2. /\ image_id = Id /\ EntryOffset = 0 /\ image_total_length = Total[Img]
      /\ Id \in ImageId /\ SectorBanks
      /\ Total[Img] <= TempSize[Id] /\ TempSize[Id] \in Nat /\ Total[Img] \in Nat
      /\ nor \in Flash /\ ota_temp_buffer \in Seq(Content)
      /\ cur_offset \in Nat /\ pos \in Nat /\ sent \in Nat
      /\ Used \in Nat /\ Used = Len(ota_temp_buffer)
      BY <1>1, SentBank
<1>3. /\ cur_offset = pos /\ pos + sent <= Total[Img]
      /\ cur_offset - dfu_resend_offset \in 0 .. SECTOR - 1
      BY <1>1 DEF SessionInv, SendOK, ResendClose
<1>4. /\ dfu_resend_offset \in Nat /\ dfu_resend_offset % SECTOR = 0
      /\ dfu_resend_offset <= cur_offset /\ dfu_resend_offset < TempSize[Id]
      BY <1>1, <1>2, <1>3, ImageAssumption, FlashAssumption DEF SessionInv, Shape
<1>5. ASSUME nor' = nor, cur_offset' = cur_offset
      PROVE  Work(nor', nor, Id, cur_offset) /\ Onward
      BY <1>5, NoWork DEF Onward
<1>6. CASE /\ BufferComplete(sent)
           /\ \E o \in dfu_update(nor, image_id, cur_offset, EntryOffset, ota_temp_buffer) :
                  BufferWritten(o) \/ BufferLost(o)
  <2>1. PICK o \in dfu_update(nor, Id, cur_offset, 0, ota_temp_buffer) :
               BufferWritten(o) \/ BufferLost(o)
        BY <1>2, <1>6
  <2>2. ota_temp_buffer # << >>
    <3>1. Used > 0
          BY <1>1, <1>2, <1>3, <1>6 DEF BufferComplete
    <3>2. QED
          BY <1>2, <3>1
  <2>0. cur_offset + Len(ota_temp_buffer) < Wrap /\ SentReady(cur_offset, ota_temp_buffer) = {}
    <3>1. cur_offset + Used <= pos + sent /\ Shape
          BY <1>1 DEF SessionInv, SendOK
    <3>2. cur_offset + Len(ota_temp_buffer) <= Total[Img]
          BY <1>2, <1>3, <3>1
    <3>3. QED
          BY <1>2, <3>1, <3>2, PlainData
  <2>3. /\ Work(o.nor, nor, Id, cur_offset)
        /\ o.ok /\ (cur_offset = 0 \/ TempBase[Id] \notin nor.ready)
              => TempBase[Id] \notin o.nor.ready
        BY <1>2, <2>0, <2>2, UpdateWork
  <2>4. CASE BufferWritten(o)
    <3>1. o.ok /\ nor' = o.nor
          BY <2>4 DEF BufferWritten
    <3>2. QED
          BY <1>2, <2>3, <3>1 DEF Onward
  <2>5. CASE BufferLost(o)
    <3>1. PICK e \in ResendErase(o.nor) : nor' = e.nor
          BY <2>5 DEF BufferLost
    <3>2. e \in dfu_flash_erase_sector_with_retry(o.nor, Id, dfu_resend_offset)
      <4>1. ResendErase(o.nor)
               = dfu_flash_erase_sector_with_retry(o.nor, image_id, dfu_resend_offset)
            BY <1>3, OneRetry DEF ResendClose, SessionInv, Shape
      <4>2. QED
            BY <1>2, <3>1, <4>1
    <3>3. o.nor \in Flash
      <4>1. WriterOK
            BY WriterThere
      <4>2. o \in OutcomeWith(nor, HeadersFlushed(ota_temp_buffer))
            BY <1>2, <2>1, <4>1, UpdateStep
      <4>3. QED
            BY <4>2 DEF OutcomeWith
    <3>4. Work(e.nor, o.nor, Id, dfu_resend_offset)
          BY <1>2, <1>4, <3>2, <3>3, RetryWork
    <3>5. dfu_resend_offset = 0 \/ cur_offset # 0
          BY <1>2, <1>4
    <3>6. Work(e.nor, nor, Id, cur_offset)
          BY <2>3, <3>4, <3>5 DEF Work, Alike
    <3>7. cur_offset' = dfu_resend_offset
          BY <2>5 DEF BufferLost
    <3>8. cur_offset' > 0 => cur_offset > 0
          BY <1>2, <1>4, <3>7
    <3>9. QED
          BY <3>1, <3>6, <3>8 DEF Onward, Work
  <2>6. QED
        BY <2>1, <2>4, <2>5
<1>7. PICK ok : ReportBufferCrc(sent, ok)
      BY DEF SendBufferCrc
<1>8. QED
      BY <1>5, <1>6, <1>7 DEF ReportBufferCrc

\* The content of the flash and the ready bits stay as they are.
SameFlash == nor'.mem = nor.mem /\ nor'.ready = nor.ready

\* Of the other steps, SYSTEM_RESET and a power loss in an update work on a bank
\* of the client, and the task sets an image ready; without user data
\* ACTIVE_IMAGE_RESET sets nothing ready.
LEMMA WorkRest ==
    ASSUME SessionInv, DeviceInv, Sizes, Fits, NoUserData, BankOK, [Next]_vars,
           ~(SendPacket \/ SendRest \/ SendBufferCrc)
    PROVE  \/ SameFlash
           \/ SendSystemReset /\ image_id \in PlanIds /\ Work(nor', nor, image_id, 0)
           \/ PowerLossInUpdate /\ Work(nor', nor, Id, cur_offset)
           \/ TaskSetReady
<1>1. CASE UNCHANGED nor
      BY <1>1 DEF SameFlash
<1>2. WriterOK /\ nor \in Flash /\ image_id \in ImageId /\ Shape
      BY WriterThere DEF SessionInv, DeviceInv, Shape
<1>3. UserHeaders = {}
  <2>1. Plan \in Seq(Image) /\ current.by \in Clients
        BY <1>2, ImageType DEF Shape
  <2>2. ASSUME NEW id \in PlanIds
        PROVE  id \notin UserData
        BY <2>1 DEF PlanIds, NoUserData, Plan
  <2>3. image_id \notin UserData
        BY <2>2 DEF BankOK, NoUserData
  <2>4. QED
        BY <2>3 DEF UserHeaders
<1>4. CASE SendActiveImageReset \/ PowerLossInActivation
  <2>1. ASSUME NEW hs, hs \subseteq UserHeaders, NEW w \in dfu_set_image_ready(nor, hs)
        PROVE  w = nor
    <3>1. hs = {}
          BY <1>3, <2>1
    <3>2. QED
          BY <2>1, <3>1 DEF dfu_set_image_ready
  <2>2. EntryHeaders \cup UserHeaders \subseteq UserHeaders
        BY <1>2, ActivationHeaders
  <2>3. CASE SendActiveImageReset
    <3>1. PICK w \in dfu_set_image_ready(nor, EntryHeaders \cup UserHeaders) :
                 nor' = IF BankSwitch THEN w ELSE unlock_flash_bp_all(w)
          BY <2>3 DEF SendActiveImageReset, ActiveImageReset, dfu_service_handle_active_image
    <3>2. w = nor
          BY <2>1, <2>2, <3>1
    <3>3. QED
          BY <1>2, <3>1, <3>2 DEF unlock_flash_bp_all, Flash, SameFlash
  <2>4. CASE PowerLossInActivation
    <3>1. PICK hs \in ReadySoFar : nor' \in dfu_set_image_ready(nor, hs)
          BY <2>4 DEF PowerLossInActivation
    <3>2. hs \subseteq UserHeaders
          BY <1>2, ReadySoFarType
    <3>3. QED
          BY <1>1, <2>1, <3>1, <3>2
  <2>5. QED
        BY <1>4, <2>3, <2>4
<1>5. CASE SendSystemReset
  <2>1. CASE /\ image_id # NoId /\ TempBase[image_id] \in nor.ready
             /\ \E o \in dfu_flash_erase_sector(nor, TempBase[image_id]) : nor' = o.nor
    <3>1. PICK o \in dfu_flash_erase_sector(nor, TempBase[image_id]) : nor' = o.nor
          BY <2>1
    <3>2. image_id \in PlanIds
          BY <2>1 DEF BankOK
    <3>3. TempBase[image_id] \in Addr /\ 0 < TempSize[image_id]
          BY <1>2, <2>1, <3>2, PlanBanks DEF Flash
    <3>4. Work(o.nor, nor, image_id, 0)
          BY <1>2, <3>1, <3>3, EraseWork DEF Fits
    <3>5. QED
          BY <1>5, <3>1, <3>2, <3>4
  <2>2. QED
        BY <1>1, <1>5, <2>1 DEF SendSystemReset, SystemReset
<1>6. CASE TaskUnlock \/ TaskLock \/ Boot
      BY <1>2, <1>6 DEF TaskUnlock, TaskLock, Boot, unlock_flash_bp_all, lock_flash_bp, Flash,
         SameFlash
<1>7. CASE PowerLossInUpdate
  <2>1. Running /\ client = "send" /\ sent > 0 /\ Checked /\ intact
        BY <1>7 DEF PowerLossInUpdate, At
  <2>2. /\ image_id = Id /\ EntryOffset = 0 /\ Id \in ImageId /\ SectorBanks
        /\ nor \in Flash /\ ota_temp_buffer \in Seq(Content)
        /\ cur_offset \in Nat /\ pos \in Nat /\ sent \in Nat
        /\ Used \in Nat /\ Used = Len(ota_temp_buffer) /\ Total[Img] \in Nat
        BY <2>1, SentBank
  <2>3. cur_offset + Used = pos + sent /\ cur_offset = pos /\ pos + sent <= Total[Img]
        BY <2>1 DEF SessionInv, SendOK
  <2>4. ota_temp_buffer # << >>
    <3>1. Used > 0
          BY <2>1, <2>2, <2>3
    <3>2. QED
          BY <2>2, <3>1
  <2>5. cur_offset + Len(ota_temp_buffer) < Wrap /\ SentReady(cur_offset, ota_temp_buffer) = {}
    <3>1. cur_offset + Len(ota_temp_buffer) <= Total[Img]
          BY <2>2, <2>3
    <3>2. QED
          BY <1>2, <2>2, <3>1, PlainData
  <2>6. ASSUME NEW o \in dfu_update(nor, Id, cur_offset, 0, ota_temp_buffer), nor' = o.nor
        PROVE  Work(nor', nor, Id, cur_offset)
        BY <2>2, <2>4, <2>5, <2>6, UpdateWork
  <2>7. ASSUME nor' \in UpdateCut(nor, Id, cur_offset, 0, ota_temp_buffer)
        PROVE  Work(nor', nor, Id, cur_offset)
        BY <2>2, <2>4, <2>5, <2>7, CutWork
  <2>8. \/ \E o \in dfu_update(nor, Id, cur_offset, 0, ota_temp_buffer) : nor' = o.nor
        \/ nor' \in UpdateCut(nor, Id, cur_offset, 0, ota_temp_buffer)
        BY <1>7, <2>2 DEF PowerLossInUpdate
  <2>9. QED
        BY <1>7, <2>6, <2>7, <2>8
<1>8. CASE \/ Connect \/ Reconnect \/ Enable \/ Info \/ Start \/ Offset \/ SendValidFw \/ Receive
           \/ TaskCheck \/ TaskReport \/ DisconnectAll \/ LinkLoss \/ PowerLoss \/ UNCHANGED vars
  <2>1. UNCHANGED nor
        BY <1>8 DEF Connect, Reconnect, Enable, Info, Start, Offset, SendValidFw, Receive,
           BufferCheckEn, ReportTargetInfo, StartDfu, ReceiveFwImageInfo, ValidFw, TaskCheck,
           TaskReport, DisconnectAll, LinkLoss, PowerLoss, vars, dfuVars
  <2>2. QED
        BY <1>1, <2>1
<1>9. QED
      BY <1>4, <1>5, <1>6, <1>7, <1>8 DEF Next, ClientStep, TaskStep, Over

\* The task sets the header of a bank of the client ready.
LEMMA ConfinedReady ==
    ASSUME SessionInv, DeviceInv, Fits, BankOK, TaskSetReady
    PROVE  Confined
<1>1. nor \in Flash /\ Shape
      BY DEF SessionInv, DeviceInv
<1>2. PICK w \in ClearNotReady(nor, {header}) : nor' = w
      BY DEF TaskSetReady
<1>3. {header} \in SUBSET Addr
      BY DEF TaskSetReady, DeviceInv, TaskOK
<1>4. PICK id \in PlanIds : header = TempBase[id]
      BY DEF TaskSetReady, BankOK
<1>5. header \in Bank(id)
  <2>1. 0 < TempSize[id] /\ TempBase[id] \in Nat /\ TempSize[id] \in Nat
        BY <1>1, PlanBanks
  <2>2. QED
        BY <1>4, <2>1 DEF Bank
<1>6. ASSUME NEW x \in Addr, ~InBanks(x)
      PROVE  w.mem[x] = nor.mem[x]
  <2>1. x \notin {header}
        BY <1>1, <1>5, <1>6, PlanBanks
  <2>2. QED
        BY <1>1, <1>2, <1>3, <2>1, ClearCells
<1>7. QED
      BY <1>2, <1>6 DEF Confined

\* No step writes outside the banks of the client.
LEMMA ConfinedStep ==
    ASSUME SessionInv, DeviceInv, Sizes, Fits, NoUserData, BankOK, [Next]_vars
    PROVE  Confined
<1>1. ASSUME NEW id \in PlanIds, NEW k, Work(nor', nor, id, k)
      PROVE  Confined
  <2>1. \A x : ~InBanks(x) => x \notin Bank(id)
        BY PlanBanks DEF SessionInv
  <2>2. QED
        BY <1>1, <2>1 DEF Work, Alike, Confined
<1>2. Id \in PlanIds
      BY IdInPlan DEF SessionInv
<1>3. CASE SendPacket \/ SendRest
      BY <1>1, <1>2, <1>3, WorkSend
<1>4. CASE SendBufferCrc
      BY <1>1, <1>2, <1>4, WorkReport
<1>5. CASE ~(SendPacket \/ SendRest \/ SendBufferCrc)
  <2>1. CASE SameFlash
        BY <2>1 DEF SameFlash, Confined
  <2>2. CASE TaskSetReady
        BY <2>2, ConfinedReady
  <2>3. QED
        BY <1>1, <1>2, <1>5, <2>1, <2>2, WorkRest
<1>6. QED
      BY <1>3, <1>4, <1>5

\* The client stays the one it is.
LEMMA SamePlan ==
    ASSUME Shape, [Next]_vars
    PROVE  current'.by = current.by /\ Plan' = Plan /\ PlanIds' = PlanIds
<1>1. UNCHANGED current \/ current' = [current EXCEPT !.k = 1]
                        \/ current' = [current EXCEPT !.k = @ + 1]
      BY DEF Next, ClientStep, TaskStep, Over, vars, clientVars, GoTo, TaskOnly, Connect, Reconnect,
         Enable, Info, Start, Offset, SendPacket, SendRest, SendBufferCrc, SendValidFw,
         SendActiveImageReset, SendSystemReset, Receive, TaskCheck, TaskUnlock, TaskSetReady,
         TaskLock, TaskReport, DisconnectAll, LinkLoss, Boot, PowerLoss, PowerLossInUpdate,
         PowerLossInActivation
<1>2. current'.by = current.by
      BY <1>1 DEF Shape
<1>3. Plan' = Plan
      BY <1>2 DEF Plan
<1>4. QED
      BY <1>2, <1>3 DEF PlanIds

\* The commands name the image of the client, and the task takes its header.
LEMMA NamesStep ==
    ASSUME SessionInv, DeviceInv, BankSwitch, BankOK, [Next]_vars
    PROVE  /\ image_id' \in {NoId} \cup PlanIds
           /\ task' \in {"unlock", "set"} => header' \in {TempBase[id] : id \in PlanIds}
<1> DEFINE named == task' \in {"unlock", "set"} => header' \in {TempBase[id] : id \in PlanIds}
<1>1. image_id \in {NoId} \cup PlanIds /\ Id \in PlanIds
      BY IdInPlan DEF BankOK, SessionInv
<1>2. image_id' \in {image_id, Id, NoId}
  <2>1. ASSUME NEW data, PacketReq(data)
        PROVE  UNCHANGED image_id
        BY <2>1 DEF PacketReq, PacketIgnored, PacketBuffered, PacketPlain, dfuVars, ramVars,
           sessionVars
  <2>2. CASE SendPacket \/ SendRest
    <3>1. UNCHANGED dfuVars \/ \E data : PacketReq(data)
          BY <2>2 DEF SendPacket, SendRest, Packet
    <3>2. QED
          BY <2>1, <3>1 DEF dfuVars, ramVars, sessionVars
  <2>3. CASE Connect \/ Reconnect \/ Enable \/ Info \/ Start \/ Offset \/ SendValidFw
        BY <2>3 DEF Connect, Reconnect, Enable, Info, Start, Offset, SendValidFw, BufferCheckEn,
           ReportTargetInfo, StartDfu, ReceiveFwImageInfo, ValidFw, dfuVars, ramVars, sessionVars
  <2>4. CASE SendBufferCrc \/ SendActiveImageReset \/ SendSystemReset \/ Receive
        BY <2>4 DEF SendBufferCrc, SendActiveImageReset, SendSystemReset, Receive,
           ReportBufferCrc, ActiveImageReset, SystemReset, ramVars, sessionVars
  <2>5. CASE TaskStep \/ UNCHANGED vars
        BY <2>5 DEF TaskStep, TaskCheck, TaskUnlock, TaskSetReady, TaskLock, TaskReport, TaskOnly,
           vars, dfuVars, ramVars, sessionVars
  <2>6. CASE \/ DisconnectAll \/ LinkLoss \/ Boot \/ PowerLoss \/ PowerLossInUpdate
             \/ PowerLossInActivation
        BY <2>6 DEF DisconnectAll, LinkLoss, Boot, RamReset, PowerLoss, PowerLossInUpdate,
           PowerLossInActivation, ramVars, sessionVars
  <2>7. QED
        BY <2>2, <2>3, <2>4, <2>5, <2>6 DEF Next, ClientStep, Over
<1>3. ASSUME TaskCheck
      PROVE  named
  <2>1. ASSUME task' \in {"unlock", "set"}
        PROVE  header' \in {TempBase[id] : id \in PlanIds}
    <3>1. /\ dfu_check_checksum(nor, CheckId, CheckOffset)
          /\ header' = HeaderAddr(CheckId, CheckOffset)
          BY <1>3, <2>1, Zenon DEF TaskCheck
    <3>2. CheckId = image_id /\ CheckOffset = 0
          BY DEF CheckId, CheckOffset, CheckOwnBank
    <3>3. TempBase[image_id] # 0
          BY <3>1, <3>2 DEF dfu_check_checksum
    <3>4. image_id \in PlanIds
          BY <1>1, <3>3, ServiceAssumption
    <3>5. TempBase[image_id] \in Nat
          BY ImageAssumption DEF SessionInv, Shape
    <3>6. header' = TempBase[image_id]
          BY <3>1, <3>2, <3>5 DEF HeaderAddr
    <3>7. QED
          BY <3>4, <3>6
  <2>2. QED
        BY <2>1
<1>4. ASSUME UNCHANGED taskVars \/ task' \notin {"unlock", "set"}
      PROVE  named
      BY <1>4 DEF taskVars, BankOK
<1>5. ASSUME TaskUnlock \/ SendValidFw
      PROVE  named
      BY <1>5 DEF TaskUnlock, SendValidFw, BankOK
<1>6. TaskCheck \/ TaskUnlock \/ SendValidFw \/ UNCHANGED taskVars \/ task' \notin {"unlock", "set"}
      BY DEF Next, ClientStep, TaskStep, Over, vars, Quiet, Connect, Reconnect,
         Enable, Info, Start, Offset, SendPacket, SendRest, SendBufferCrc,
         SendActiveImageReset, SendSystemReset, Receive, TaskSetReady, TaskLock, TaskReport,
         DisconnectAll, LinkLoss, Boot, TaskReset, PowerLoss, PowerLossInUpdate,
         PowerLossInActivation
<1>7. QED
      BY <1>1, <1>2, <1>3, <1>4, <1>5, <1>6

\* Every step keeps what is outside the banks of the client.
LEMMA BankStep ==
    ASSUME SessionInv, DeviceInv, Sizes, BankSwitch, Fits, NoUserData, BankOK, [Next]_vars
    PROVE  BankOK'
<1>1. Confined
      BY ConfinedStep
<1>2. current'.by = current.by /\ Plan' = Plan /\ PlanIds' = PlanIds
      BY SamePlan DEF SessionInv
<1>3. OldFlash' = OldFlash
      BY <1>2 DEF OldFlash
<1>4. \A x : InBanks(x)' <=> InBanks(x)
      BY <1>2 DEF InBanks
<1>5. InsideBanks'
      BY <1>1, <1>3, <1>4 DEF BankOK, InsideBanks, Confined
<1>6. QED
      BY <1>2, <1>5, NamesStep DEF BankOK

\* With bank switching and images that fit, no update of images other than user
\* data writes or erases a cell outside the banks of its images: not through
\* packets of any length, failed updates, retries, resets or power losses.
THEOREM BanksKept ==
    ASSUME Sizes, BankSwitch, Fits, NoUserData
    PROVE  Spec => []InsideBanks
<1>1. Init => BankOK
      BY DEF Init, RamInit, TaskInit, BankOK, InsideBanks
<1>2. SessionInv /\ DeviceInv /\ BankOK /\ [Next]_vars => BankOK'
      BY BankStep
<1>3. BankOK => InsideBanks
      BY DEF BankOK
<1>4. QED
      BY <1>1, <1>2, <1>3, Device, PTL DEF Spec
=============================================================================
