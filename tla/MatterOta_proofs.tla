--------------------------- MODULE MatterOta_proofs ---------------------------
(***************************************************************************)
(* Proofs about MatterOta, for files, banks, block lengths and buffers of  *)
(* every size.  TypeCorrect needs nothing more; the other theorems are     *)
(* about files that fit (Fitting).                                         *)
(***************************************************************************)
EXTENDS MatterOta, TLAPS

\* What the theorems but TypeCorrect assume: every file fits, and the write of
\* a ready bit, of which nobody sees the result, does not fail.
Fitting == (\A f \in Files : Fits(f)) /\ "ready" \notin FaultKinds

-----------------------------------------------------------------------------
(* The inductive invariant.                                                *)

\* No more of a payload is read than there is, and no more images are counted
\* than there are.
TypeInv == /\ TypeOK
           /\ state = "IMAGE_PAYLOAD" => cur_download_size <= cur_image_payload_size
           /\ sub_image_num <= file.num

\* A block is processed only in a download, and the parser runs only while
\* matter_ota_db is there.
Control ==
    /\ pc # "return" => caller = "download" /\ state # "MP_INFO"
    /\ caller = "download" => state # "NULL"
    /\ switched => caller = "idle"

\* Where the buffer starts, and what the parser knows, in each state.
Position ==
    caller = "download" =>
      /\ buf_offset <= given
      /\ state = "PACK_HEADER" => given = buf_offset /\ sub_image_num \in {0, file.num}
      /\ state # "PACK_HEADER" => sub_image_num = file.num /\ sub_headers
      /\ state \in {"IMAGE_HEADER", "IMAGE_PAYLOAD"} => cur_image_index < file.num
      /\ state = "IMAGE_HEADER" => given = buf_offset + file.start[cur_image_index + 1]
      /\ state = "IMAGE_PAYLOAD" =>
            /\ given = buf_offset + file.start[cur_image_index + 1] + MP_HEADER_SIZE
                          + cur_download_size
            /\ cur_image_id = file.id[cur_image_index + 1]
            /\ cur_image_payload_size = file.size[cur_image_index + 1]
            /\ cur_download_size < cur_image_payload_size
            /\ is_data_valid <=> cur_image_index + 1 \in Other
      /\ state = "MP_INFO" => cur_image_index = file.num

\* The piece of the current image that is in the flash.
Piece ==
    (caller = "download" /\ state = "IMAGE_PAYLOAD" /\ is_data_valid /\ cur_download_size > 0) =>
       /\ from[cur_image_id] = cur_image_index + 1
       /\ stored[cur_image_id] = cur_download_size
       /\ cur_image_id \notin ready

\* How full the buffer is between the functions of rtk_matter_ota_process_block.
Room ==
    caller = "download" =>
      /\ state = "PACK_HEADER" =>
            buf_offset < file.start[1] + IF pc = "pack_header" THEN MaxBlock ELSE 0
      /\ state = "IMAGE_HEADER" =>
            buf_offset < Bigger(MP_HEADER_SIZE, MaxBlock)
                            + IF pc \in {"pack_header", "mp_header"} THEN MaxBlock ELSE 0
      /\ state = "IMAGE_PAYLOAD" =>
            \/ buf_offset = 0
            \/ pc # "return" /\ buf_offset <= MaxBlock
            \/ /\ pc = "payload" /\ cur_download_size = 0
               /\ buf_offset + MP_HEADER_SIZE < Bigger(MP_HEADER_SIZE, MaxBlock) + MaxBlock

\* The images of the other bank that the parser went past are whole.
Passed ==
    (caller = "download" /\ state # "PACK_HEADER") =>
       \A k \in Other : k <= cur_image_index => Whole(k)

\* While the images are set ready, all are whole, and those before i are ready.
Finalizing ==
    caller = "finalize" => /\ sub_image_num = file.num /\ sub_headers
                           /\ \A k \in Other : Whole(k) /\ (k <= i => file.id[k] \in ready)

IInv == /\ TypeInv /\ Control /\ Position /\ Piece /\ Room /\ Passed
        /\ Finalizing /\ FinalizedWhole /\ ReadyWhole

-----------------------------------------------------------------------------
(* Facts about the files.                                                  *)

\* What the proofs use of a file: see FileAssumption.
LEMMA FileFacts ==
    ASSUME NEW f \in Files
    PROVE  /\ f.num \in Nat \ {0} /\ f.num \div 2 \in Nat /\ f.num \div 2 <= f.num
           /\ f.num = 2 * (f.num \div 2)
           /\ f.size \in [1 .. f.num -> Nat \ {0}]
           /\ f.id \in [1 .. f.num -> Id]
           /\ f.start \in [1 .. f.num + 1 -> Nat]
           /\ f.start[1] = PACK_HEADER_LEN1 + SUB_HEADER * f.num
           /\ \A k \in 1 .. f.num : f.start[k + 1] = f.start[k] + MP_HEADER_SIZE + f.size[k]
           /\ \A j, k \in 1 .. f.num + 1 : f.start[j] = f.start[k] => j = k
           /\ f.length \in Nat
           /\ \A k \in 1 .. f.num + 1 : f.start[k] <= f.length
  <1>1. /\ f.num \in Nat \ {0} /\ f.num % 2 = 0
        /\ f.start \in [1 .. f.num + 1 -> Nat]
        /\ \A j, k \in 1 .. f.num + 1 : j < k => f.start[j] < f.start[k]
    BY FileAssumption
  <1>2. \A j, k \in 1 .. f.num + 1 : f.start[j] = f.start[k] => j = k
    <2> SUFFICES ASSUME NEW j \in 1 .. f.num + 1, NEW k \in 1 .. f.num + 1,
                        f.start[j] = f.start[k], j # k
                 PROVE  FALSE
      OBVIOUS
    <2>1. f.start[j] \in Nat /\ f.start[k] \in Nat
      BY <1>1
    <2>2. j < k \/ k < j
      BY <1>1
    <2> QED BY <1>1, <2>1, <2>2
  <1>3. f.num \div 2 \in Nat /\ f.num \div 2 <= f.num /\ f.num = 2 * (f.num \div 2)
    BY <1>1
  <1> QED BY <1>1, <1>2, <1>3, FileAssumption

\* No two images start at the same place.
LEMMA StartsDiffer ==
    ASSUME NEW f \in Files, NEW j \in 1 .. f.num, NEW k \in 1 .. f.num, f.start[j] = f.start[k]
    PROVE  j = k
  <1>1. f.num \in Nat /\ j \in 1 .. f.num + 1 /\ k \in 1 .. f.num + 1
    BY FileFacts
  <1> QED BY <1>1, FileFacts

\* The constants are numbers.
LEMMA SizeFacts ==
    /\ BUF_SIZE \in Nat \ {0} /\ PACK_HEADER_LEN1 \in Nat \ {0} /\ SUB_HEADER \in Nat \ {0}
    /\ MP_HEADER_SIZE \in Nat \ {0} /\ Byte \in Nat \ {0} /\ MaxBlock \in Nat \ {0}
    /\ MaxFaults \in Nat /\ MaxLosses \in Nat
  BY SizeAssumption

\* A remainder is no more than the number, and the number itself when that is
\* less than the divisor.
LEMMA Remainder ==
    ASSUME NEW a \in Nat, NEW n \in Nat \ {0}
    PROVE  (a % n) \in 0 .. a /\ (a < n => (a % n) = a)
  <1>1. /\ a \div n \in Nat /\ a = n * (a \div n) + (a % n)
        /\ (a % n) \in 0 .. n - 1
    BY Z3
  <1>2. n * (a \div n) \in Nat
    BY <1>1, Z3
  <1>3. a < n => (a % n) = a
    BY Z3
  <1> QED BY <1>1, <1>2, <1>3

\* The length of a pack header is a number.
LEMMA PackLength ==
    ASSUME NEW n \in Nat
    PROVE  PACK_HEADER_LEN1 + SUB_HEADER * n \in Nat
  <1>1. \A a, b \in Nat : a * b \in Nat
    BY Z3
  <1> QED BY <1>1, SizeFacts

\* What the pack header says is counted right, or short by a multiple of Byte.
LEMMA PackFacts ==
    ASSUME file \in Files
    PROVE  /\ Count \in 0 .. file.num
           /\ sub_image_num' \in Nat => PackHeaderLen \in Nat
  <1>1. file.num \in Nat
    BY FileFacts
  <1>2. sub_image_num' \in Nat => PACK_HEADER_LEN1 + SUB_HEADER * sub_image_num' \in Nat
    BY PackLength
  <1> QED BY <1>1, <1>2, Remainder, SizeFacts DEF Count, PackHeaderLen

-----------------------------------------------------------------------------
(* The type invariant.                                                     *)

\* The parser takes no more out of the buffer than it holds, so that no length
\* and no offset becomes negative.
LEMMA PayloadTaken ==
    ASSUME TypeInv, state = "IMAGE_PAYLOAD"
    PROVE  /\ PayloadLen \in 0 .. buf_offset
           /\ cur_download_size + PayloadLen <= cur_image_payload_size
           /\ ~Last => cur_download_size + PayloadLen < cur_image_payload_size
  BY DEF TypeInv, TypeOK, PayloadLen, Last

\* Every step keeps the shape of the state.
LEMMA TypeStep == TypeInv /\ [Next]_vars => TypeInv'
  <1> SUFFICES ASSUME TypeInv, [Next]_vars PROVE TypeInv'
    OBVIOUS
  <1> USE SizeFacts
  <1>0. file \in Files /\ file.length \in Nat /\ file.num \in Nat
    BY FileFacts DEF TypeInv, TypeOK
  <1>1. CASE Prepare
    <2>1. /\ file' = file /\ given' = 0 /\ sub_image_num' \in {0, sub_image_num}
          /\ faults' \in 0 .. MaxFaults
      BY <1>1 DEF Prepare, CanFail, TypeInv, TypeOK, env
    <2>2. is_data_valid' \in BOOLEAN /\ sub_headers' \in BOOLEAN
      BY <1>1, Zenon DEF Prepare, TypeInv, TypeOK
    <2> QED BY <1>0, <1>1, <2>1, <2>2 DEF Prepare, TypeInv, TypeOK, flash, env
  <1>2. CASE Finalize
    <2>1. given' = given /\ file' = file /\ caller' = "finalize" /\ i' = 0
      BY <1>2 DEF Finalize, env
    <2> QED BY <1>2, <2>1 DEF Finalize, TypeInv, TypeOK, db, flash, env
  <1>3. CASE FinalizeImage
    <2>1. ready' \subseteq Id /\ faults' \in 0 .. MaxFaults
      <3>1. CASE InOtherBank(i)
        <4>1. file.id \in [1 .. file.num -> Id]
          BY <1>0, FileFacts
        <4>2. i + 1 \in 1 .. file.num
          BY <1>0, <1>3 DEF FinalizeImage, TypeInv, TypeOK
        <4>3. file.id[i + 1] \in Id
          BY <4>1, <4>2
        <4> QED BY <1>3, <3>1, <4>3 DEF FinalizeImage, CanFail, TypeInv, TypeOK
      <3>2. CASE ~InOtherBank(i)
        BY <1>3, <3>2 DEF FinalizeImage, TypeInv, TypeOK
      <3> QED BY <3>1, <3>2
    <2> QED BY <1>3, <2>1 DEF FinalizeImage, TypeInv, TypeOK, db, env
  <1>4. CASE FinalizeEnd
    BY <1>4 DEF FinalizeEnd, Clear, TypeInv, TypeOK, db, flash, env
  <1>5. CASE Apply
    <2>1. Reboot /\ losses' = losses /\ UNCHANGED flash
      BY <1>5 DEF Apply
    <2>2. switched' \in BOOLEAN /\ checksum_readies' \in BOOLEAN
          /\ is_data_valid' \in BOOLEAN /\ sub_headers' \in BOOLEAN
      BY <2>1, Zenon DEF Reboot, BootsOther, TypeInv, TypeOK, env, db
    <2> QED BY <2>1, <2>2 DEF Reboot, TypeInv, TypeOK, db, flash, env
  <1>6. ASSUME NEW len \in 1 .. MaxBlock, ProcessBlock(len) PROVE TypeInv'
    BY <1>0, <1>6 DEF ProcessBlock, Then, BlockFailed, TypeInv, TypeOK, flash, env
  <1>7. CASE ProcessPackHeader
    <2>1. /\ Count \in 0 .. file.num
          /\ sub_image_num' \in Nat => PackHeaderLen \in Nat
      BY <1>0, PackFacts
    <2>2. sub_image_num' \in 0 .. file.num
      BY <1>0, <1>7, <2>1 DEF ProcessPackHeader, TypeInv, TypeOK
    <2>3. buf_offset' \in 0 .. BUF_SIZE
      BY <1>7, <2>1, <2>2 DEF ProcessPackHeader, TypeInv, TypeOK
    <2>4. sub_headers' \in BOOLEAN
      <3>1. (buf_offset >= PACK_HEADER_LEN1 + SUB_HEADER * Count) \in BOOLEAN
        BY SMT
      <3> QED BY <1>7, <3>1, Zenon DEF ProcessPackHeader, TypeInv, TypeOK
    <2> QED
      BY <1>0, <1>7, <2>2, <2>3, <2>4
      DEF ProcessPackHeader, Then, BlockFailed, CanFail, TypeInv, TypeOK, flash, env
  <1>8. CASE ProcessMpHeader
    <2>1. is_data_valid' \in BOOLEAN
      BY <1>8, Zenon DEF ProcessMpHeader, InOtherBank, TypeInv, TypeOK
    <2>2. /\ buf_offset' \in 0 .. BUF_SIZE /\ cur_image_id' \in Id
          /\ cur_image_payload_size' \in Nat /\ cur_download_size' \in Nat
          /\ state' = "IMAGE_PAYLOAD" => cur_download_size' <= cur_image_payload_size'
          /\ state' \in {"NULL", "PACK_HEADER", "IMAGE_HEADER", "IMAGE_PAYLOAD", "MP_INFO"}
          /\ pc' \in {"return", "payload"} /\ caller' \in {caller, "failed"}
      BY <1>0, <1>8 DEF ProcessMpHeader, Then, BlockFailed, TypeInv, TypeOK
    <2> QED BY <1>8, <2>1, <2>2 DEF ProcessMpHeader, TypeInv, TypeOK, flash, env
  <1>9. CASE ProcessPayload
    <2>1. CASE state # "IMAGE_PAYLOAD"
      BY <1>9, <2>1 DEF ProcessPayload, Then, TypeInv, TypeOK, flash, env
    <2>2. CASE state = "IMAGE_PAYLOAD"
      <3>1. /\ from' \in [Id -> Nat] /\ stored' \in [Id -> Nat] /\ ready' \subseteq Id
            /\ faults' \in 0 .. MaxFaults
        BY <1>0, <1>9, <2>2, PayloadTaken
        DEF ProcessPayload, Written, WriteFailed, Spoilt, CanFail, flash, TypeInv, TypeOK
      <3>2. PayloadDone \/ PayloadFailed
        BY <1>9, <2>2 DEF ProcessPayload
      <3>3. CASE PayloadDone
        BY <1>9, <2>2, <3>1, <3>3, PayloadTaken
        DEF ProcessPayload, PayloadDone, Then, TypeInv, TypeOK, env
      <3>4. CASE PayloadFailed
        BY <1>9, <2>2, <3>1, <3>4
        DEF ProcessPayload, PayloadFailed, BlockFailed, TypeInv, TypeOK, env
      <3> QED BY <3>2, <3>3, <3>4
    <2> QED BY <2>1, <2>2
  <1>10. CASE Abort
    BY <1>10 DEF Abort, Clear, TypeInv, TypeOK, db, flash, env
  <1>11. CASE PowerLoss
    <2>1. Reboot /\ losses' \in 0 .. MaxLosses
      BY <1>11 DEF PowerLoss, TypeInv, TypeOK
    <2>2. switched' \in BOOLEAN /\ checksum_readies' \in BOOLEAN
          /\ is_data_valid' \in BOOLEAN /\ sub_headers' \in BOOLEAN
      BY <2>1, Zenon DEF Reboot, BootsOther, TypeInv, TypeOK, env, db
    <2>3. from' \in [Id -> Nat] /\ stored' \in [Id -> Nat] /\ ready' \subseteq Id
      BY <1>11 DEF PowerLoss, Spoilt, TypeInv, TypeOK, flash
    <2> QED BY <2>1, <2>2, <2>3 DEF Reboot, TypeInv, TypeOK, db, env
  <1>12. CASE UNCHANGED vars
    BY <1>12 DEF vars, db, flash, env, TypeInv, TypeOK
  <1> QED
    BY <1>1, <1>2, <1>3, <1>4, <1>5, <1>6, <1>7, <1>8, <1>9, <1>10, <1>11, <1>12
    DEF Next, Step, Over

\* The initial states have that shape.
LEMMA TypeInit == Init => TypeInv
  <1> SUFFICES ASSUME Init PROVE TypeInv
    OBVIOUS
  <1>1. (CHOOSE x \in Id : TRUE) \in Id
    <2>1. file.num \in Nat \ {0} /\ file.id \in [1 .. file.num -> Id]
      BY FileFacts DEF Init
    <2>2. 1 \in 1 .. file.num
      BY <2>1
    <2>3. file.id[1] \in Id
      BY <2>1, <2>2
    <2> QED BY <2>3
  <1>2. file \in Files /\ file.num \in Nat /\ file.length \in Nat
    BY FileFacts DEF Init
  <1>3. ready \subseteq Id /\ from \in [Id -> Nat] /\ stored \in [Id -> Nat]
    BY DEF Init
  <1>4. cur_image_id \in Id
    BY <1>1 DEF Init
  <1>5. is_data_valid \in BOOLEAN /\ sub_headers \in BOOLEAN /\ switched \in BOOLEAN
    BY DEF Init
  <1>6. /\ faults \in 0 .. MaxFaults /\ losses \in 0 .. MaxLosses
        /\ buf_offset \in 0 .. BUF_SIZE /\ given \in 0 .. file.length
    BY <1>2, SizeFacts DEF Init
  <1> QED BY <1>2, <1>3, <1>4, <1>5, <1>6 DEF Init, TypeInv, TypeOK

\* The processor keeps the shape of its state, for every file (matter_ota.c).
THEOREM TypeCorrect == Spec => []TypeOK
  <1>1. TypeInv => TypeOK
    BY DEF TypeInv
  <1> QED BY <1>1, TypeInit, TypeStep, PTL DEF Spec

-----------------------------------------------------------------------------
(* What files that fit give.                                               *)

\* The bounds on headers, images and the buffer, without Bigger.
LEMMA FitFacts ==
    ASSUME NEW f \in Files, Fits(f)
    PROVE  /\ f.start[1] < Byte
           /\ f.start[1] - 1 + MaxBlock <= BUF_SIZE
           /\ Bigger(MP_HEADER_SIZE, MaxBlock) \in Nat
           /\ Bigger(MP_HEADER_SIZE, MaxBlock) - 1 + MaxBlock <= BUF_SIZE
           /\ MP_HEADER_SIZE <= Bigger(MP_HEADER_SIZE, MaxBlock)
           /\ MaxBlock <= Bigger(MP_HEADER_SIZE, MaxBlock)
           /\ \A k \in 1 .. f.num : MP_HEADER_SIZE + f.size[k] >= Bigger(MP_HEADER_SIZE, MaxBlock)
  <1>1. f.num \in Nat \ {0} /\ f.size \in [1 .. f.num -> Nat \ {0}] /\ f.start[1] \in Nat
    <2>1. f.num \in Nat \ {0} /\ f.size \in [1 .. f.num -> Nat \ {0}]
          /\ f.start \in [1 .. f.num + 1 -> Nat]
      BY FileFacts
    <2>2. 1 \in 1 .. f.num + 1
      BY <2>1
    <2> QED BY <2>1, <2>2
  <1>2. \A k \in 1 .. f.num : f.size[k] \in Nat
    BY <1>1
  <1> QED BY <1>1, <1>2, SizeFacts, SMTT(30) DEF Fits, Bigger

\* The pack header is read to its end, with all images counted.
LEMMA WholePackHeader ==
    ASSUME file \in Files, Fits(file)
    PROVE  /\ Count = file.num
           /\ PACK_HEADER_LEN1 + SUB_HEADER * Count = file.start[1]
           /\ sub_image_num' = Count => PackHeaderLen = file.start[1]
           /\ PACK_HEADER_LEN1 <= file.start[1] /\ file.start[1] \in Nat \ {0}
  <1>1. /\ file.num \in Nat \ {0}
        /\ file.start[1] = PACK_HEADER_LEN1 + SUB_HEADER * file.num
        /\ file.start[1] < Byte
    BY FileFacts, FitFacts
  <1>2. \A a \in Nat \ {0}, b \in Nat : a * b \in Nat /\ b <= a * b
    BY Z3
  <1>3. SUB_HEADER * file.num \in Nat /\ file.num <= SUB_HEADER * file.num
    BY <1>1, <1>2, SizeFacts
  <1>4. file.num < Byte /\ file.start[1] \in Nat \ {0} /\ PACK_HEADER_LEN1 <= file.start[1]
    BY <1>1, <1>3, SizeFacts
  <1>5. Count = file.num
    BY <1>1, <1>4, Remainder, SizeFacts DEF Count
  <1>6. (file.start[1] % Byte) = file.start[1]
    BY <1>1, <1>4, Remainder, SizeFacts
  <1> QED BY <1>1, <1>4, <1>5, <1>6 DEF PackHeaderLen

\* The images for the other bank are images of the file with ids of their own.
LEMMA OtherFacts ==
    ASSUME file \in Files, active \in {0, 1}
    PROVE  /\ Other \subseteq 1 .. file.num
           /\ \A j, k \in Other : file.id[j] = file.id[k] => j = k
           /\ \A k \in 1 .. file.num : file.id[k] \in Id
           /\ sub_image_num = file.num =>
                 \A n \in 0 .. file.num - 1 : InOtherBank(n) <=> n + 1 \in Other
  <1> DEFINE h == file.num \div 2
  <1>1. h \in Nat /\ file.num \in Nat /\ file.num = 2 * h /\ file.id \in [1 .. file.num -> Id]
    BY FileFacts
  <1>2. /\ \A k \in 1 .. file.num : file.id[k] = file.id[IF k > h THEN k - h ELSE k + h]
        /\ \A j, k \in 1 .. h : file.id[j] = file.id[k] => j = k
    BY FileAssumption
  <1>3. \/ active = 0 /\ Other = h + 1 .. file.num
        \/ active = 1 /\ Other = 1 .. h
    BY DEF Other
  <1>4. sub_image_num = file.num =>
           \A n \in 0 .. file.num - 1 : InOtherBank(n) <=> \/ active = 0 /\ n >= h
                                                           \/ active = 1 /\ n < h
    BY DEF InOtherBank
  <1> HIDE DEF h
  <1>5. Other \subseteq 1 .. file.num
    BY <1>1, <1>3
  <1>6. ASSUME NEW j \in Other, NEW k \in Other, file.id[j] = file.id[k] PROVE j = k
    <2>1. CASE active = 1
      BY <1>1, <1>2, <1>3, <1>6, <2>1
    <2>2. CASE active = 0
      <3>1. j \in h + 1 .. file.num /\ k \in h + 1 .. file.num
        BY <1>3, <2>2
      <3>2. j - h \in 1 .. h /\ k - h \in 1 .. h
        BY <1>1, <3>1
      <3>3. file.id[j] = file.id[j - h] /\ file.id[k] = file.id[k - h]
        BY <1>1, <1>2, <3>1
      <3>4. j - h = k - h
        BY <1>2, <1>6, <3>2, <3>3
      <3> QED BY <1>1, <3>1, <3>4
    <2> QED BY <2>1, <2>2
  <1>7. sub_image_num = file.num =>
           \A n \in 0 .. file.num - 1 : InOtherBank(n) <=> n + 1 \in Other
    BY <1>1, <1>3, <1>4
  <1> QED BY <1>1, <1>5, <1>6, <1>7

-----------------------------------------------------------------------------
(* Each action keeps the invariant.                                        *)

\* The invariant besides the types.
Safe == Control /\ Position /\ Piece /\ Room /\ Passed /\ Finalizing /\ FinalizedWhole /\ ReadyWhole

\* The facts that every step of a fitting file starts from.
LEMMA StepFacts ==
    ASSUME Fitting, TypeInv
    PROVE  /\ file \in Files /\ Fits(file) /\ active \in {0, 1}
           /\ file.num \in Nat \ {0} /\ file.length \in Nat
           /\ \A k \in 1 .. file.num : file.size[k] \in Nat \ {0} /\ file.start[k] \in Nat
           /\ file.start[file.num + 1] \in Nat
  <1>1. file \in Files /\ Fits(file) /\ active \in {0, 1}
    BY DEF Fitting, TypeInv, TypeOK
  <1>2. /\ file.num \in Nat \ {0} /\ file.length \in Nat
        /\ file.size \in [1 .. file.num -> Nat \ {0}]
        /\ file.start \in [1 .. file.num + 1 -> Nat]
    BY <1>1, FileFacts
  <1>3. file.num + 1 \in 1 .. file.num + 1 /\ \A k \in 1 .. file.num : k \in 1 .. file.num + 1
    BY <1>2
  <1> QED BY <1>1, <1>2, <1>3

\* Steps that leave the flash and the file alone.
LEMMA SameImages ==
    ASSUME from' = from, stored' = stored, file' = file, active' = active
    PROVE  /\ Other' = Other
           /\ \A k : Whole(k)' <=> Whole(k)
           /\ ready' = ready /\ ReadyWhole => ReadyWhole'
  <1>1. Other' = Other /\ \A k : Whole(k)' <=> Whole(k)
    BY DEF Other, Whole
  <1>2. ready' = ready /\ ReadyWhole => ReadyWhole'
    BY <1>1 DEF ReadyWhole
  <1> QED BY <1>1, <1>2

\* A download starts with an empty buffer.
LEMMA PrepareStep == ASSUME Fitting, IInv, Prepare PROVE Safe'
  <1>1. /\ from' = from /\ stored' = stored /\ ready' = ready /\ file' = file /\ active' = active
        /\ switched' = switched /\ ~switched /\ pc' = pc /\ pc = "return" /\ given' = 0
        /\ \/ caller' = "failed"
           \/ /\ caller' = "download" /\ state' = "PACK_HEADER"
              /\ buf_offset' = 0 /\ sub_image_num' = 0
    BY DEF Prepare, flash, env, IInv, Control
  <1>2. file.start[1] \in Nat \ {0}
    BY StepFacts, WholePackHeader DEF IInv
  <1> QED
    BY <1>1, <1>2, SameImages
    DEF Safe, IInv, Control, Position, Piece, Room, Passed, Finalizing, FinalizedWhole

\* The end of the file is the end of its last image: nothing is left behind.
LEMMA FinalizeStep == ASSUME Fitting, IInv, Finalize PROVE Safe'
  <1>1. /\ from' = from /\ stored' = stored /\ ready' = ready /\ file' = file /\ active' = active
        /\ switched' = switched /\ pc' = "return" /\ pc = "return" /\ caller' = "finalize"
        /\ caller = "download" /\ given = file.length /\ i' = 0
        /\ sub_image_num' = sub_image_num /\ sub_headers' = sub_headers
    BY DEF Finalize, flash, env, db
  <1>2. file \in Files /\ Fits(file) /\ buf_offset \in Nat /\ cur_image_index \in Nat
        /\ cur_download_size \in Nat
        /\ state \in {"NULL", "PACK_HEADER", "IMAGE_HEADER", "IMAGE_PAYLOAD", "MP_INFO"}
    BY StepFacts, SizeFacts DEF IInv, TypeInv, TypeOK
  <1>3. state # "NULL"
    BY <1>1 DEF IInv, Control
  <1>4. state # "PACK_HEADER"
    <2>1. 1 \in 1 .. file.num + 1 /\ file.start[1] <= file.length
      BY <1>2, StepFacts, FileFacts DEF IInv
    <2> QED BY <1>1, <1>2, <2>1, WholePackHeader, FileFacts DEF IInv, Position, Room
  <1>5. state \notin {"IMAGE_HEADER", "IMAGE_PAYLOAD"}
    <2> SUFFICES ASSUME state \in {"IMAGE_HEADER", "IMAGE_PAYLOAD"} PROVE FALSE
      OBVIOUS
    <2> DEFINE k == cur_image_index + 1
    <2>1. k \in 1 .. file.num /\ k + 1 \in 1 .. file.num + 1
      BY <1>1, <1>2, StepFacts DEF IInv, Position
    <2>2. /\ file.start[k + 1] = file.start[k] + MP_HEADER_SIZE + file.size[k]
          /\ file.start[k + 1] <= file.length
          /\ file.start[k] \in Nat /\ file.size[k] \in Nat \ {0} /\ file.length \in Nat
      BY <1>2, <2>1, FileFacts, StepFacts DEF IInv
    <2>3. MP_HEADER_SIZE + file.size[k] >= Bigger(MP_HEADER_SIZE, MaxBlock)
          /\ Bigger(MP_HEADER_SIZE, MaxBlock) \in Nat
      BY <1>2, <2>1, FitFacts
    <2>4. CASE state = "IMAGE_HEADER"
      <3>1. given = buf_offset + file.start[k] /\ buf_offset < Bigger(MP_HEADER_SIZE, MaxBlock)
        BY <1>1, <1>2, <2>3, <2>4 DEF IInv, Position, Room
      <3> QED BY <1>1, <1>2, <2>2, <2>3, <3>1, SizeFacts
    <2>5. CASE state = "IMAGE_PAYLOAD"
      <3>1. given = buf_offset + file.start[k] + MP_HEADER_SIZE + cur_download_size
            /\ cur_download_size < file.size[k] /\ buf_offset = 0
        BY <1>1, <2>5 DEF IInv, Position, Room
      <3> QED BY <1>1, <1>2, <2>2, <3>1, SizeFacts
    <2> QED BY <2>4, <2>5
  <1>6. state = "MP_INFO"
    BY <1>2, <1>3, <1>4, <1>5
  <1>7. sub_image_num = file.num /\ sub_headers /\ cur_image_index = file.num
    BY <1>1, <1>6 DEF IInv, Position
  <1>8. \A k \in Other : Whole(k) /\ ~(k <= 0)
    <2>1. Other \subseteq 1 .. file.num
      BY <1>2, StepFacts, OtherFacts DEF IInv
    <2> QED BY <1>1, <1>2, <1>6, <1>7, <2>1, StepFacts DEF IInv, Passed
  <1> QED
    BY <1>1, <1>7, <1>8, SameImages
    DEF Safe, IInv, Control, Position, Piece, Room, Passed, Finalizing, FinalizedWhole

\* Setting images ready: of the bank that is not running, and whole ones only.
LEMMA FinalizeImageStep == ASSUME Fitting, IInv, FinalizeImage PROVE Safe'
  <1>1. /\ from' = from /\ stored' = stored /\ file' = file /\ active' = active
        /\ switched' = switched /\ pc' = pc /\ caller' = "finalize" /\ caller = "finalize"
        /\ i' = i + 1 /\ i < sub_image_num
        /\ sub_image_num' = sub_image_num /\ sub_headers' = sub_headers
    BY DEF FinalizeImage, env, db
  <1>2. sub_image_num = file.num /\ sub_headers /\ i \in 0 .. file.num - 1
    BY <1>1, StepFacts DEF IInv, Finalizing, TypeInv, TypeOK
  <1>3. pc = "return" /\ ~switched
    BY <1>1 DEF IInv, Control
  <1>4. /\ Other \subseteq 1 .. file.num
        /\ InOtherBank(i) <=> i + 1 \in Other
    BY <1>2, StepFacts, OtherFacts DEF IInv
  <1>5. /\ InOtherBank(i) => ready' = ready \cup {file.id[i + 1]}
        /\ ~InOtherBank(i) => ready' = ready
    BY <1>2 DEF FinalizeImage, Fitting, CanFail
  <1>6. \A k \in Other : Whole(k) /\ (k <= i + 1 => file.id[k] \in ready')
    <2> SUFFICES ASSUME NEW k \in Other PROVE Whole(k) /\ (k <= i + 1 => file.id[k] \in ready')
      OBVIOUS
    <2>1. Whole(k) /\ (k <= i => file.id[k] \in ready)
      BY <1>1 DEF IInv, Finalizing
    <2>2. k \in Nat /\ i \in Nat
      BY <1>2, <1>4, StepFacts DEF IInv
    <2> QED BY <1>4, <1>5, <2>1, <2>2
  <1>7. ReadyWhole'
    BY <1>1, <1>6, SameImages DEF ReadyWhole
  <1> QED
    BY <1>1, <1>2, <1>3, <1>6, <1>7, SameImages
    DEF Safe, Control, Position, Piece, Room, Passed, Finalizing, FinalizedWhole

\* The steps after the last image, and those that end a download.
LEMMA EndStep ==
    ASSUME Fitting, IInv,
           FinalizeEnd \/ Apply \/ Abort \/ (PowerLoss /\ UNCHANGED flash)
    PROVE  Safe'
  <1>1. /\ from' = from /\ stored' = stored /\ ready' = ready /\ file' = file /\ active' = active
        /\ caller' \in {"idle", "apply"} /\ pc' = "return"
    BY DEF FinalizeEnd, Apply, Abort, PowerLoss, Reboot, flash, env, IInv, Control
  <1>2. switched' => caller' = "idle"
    BY DEF FinalizeEnd, Apply, Abort, PowerLoss, Reboot, IInv, Control
  <1>3. FinalizedWhole'
    <2>1. ASSUME FinalizeEnd PROVE \A k \in Other : Whole(k) /\ file.id[k] \in ready
      <3>1. /\ caller = "finalize" /\ i >= sub_image_num /\ i \in Nat
        BY <2>1 DEF FinalizeEnd, IInv, TypeInv, TypeOK
      <3>2. Other \subseteq 1 .. file.num
        BY StepFacts, OtherFacts DEF IInv
      <3>3. \A k \in Other : k <= i
        BY <3>1, <3>2, StepFacts DEF IInv, Finalizing
      <3> QED BY <3>1, <3>3 DEF IInv, Finalizing
    <2>2. ASSUME Apply \/ Abort \/ PowerLoss PROVE caller' = "idle"
      BY <2>2 DEF Apply, Abort, PowerLoss, Reboot
    <2> QED BY <1>1, <2>1, <2>2, SameImages DEF FinalizedWhole
  <1> QED
    BY <1>1, <1>2, <1>3, SameImages
    DEF Safe, IInv, Control, Position, Piece, Room, Passed, Finalizing

\* The images that were passed stay so when neither they nor the index change.
LEMMA SamePassed ==
    ASSUME from' = from, stored' = stored, file' = file, active' = active, Passed,
           caller = "download", state # "PACK_HEADER", cur_image_index' = cur_image_index
    PROVE  Passed'
  BY SameImages DEF Passed

\* A block goes into the buffer, which has room for it.
LEMMA BlockStep ==
    ASSUME Fitting, IInv, NEW len \in 1 .. MaxBlock, ProcessBlock(len)
    PROVE  Safe'
  <1>1. /\ from' = from /\ stored' = stored /\ ready' = ready /\ file' = file /\ active' = active
        /\ switched' = switched /\ state' = state /\ caller = "download" /\ pc = "return"
        /\ sub_image_num' = sub_image_num /\ cur_image_index' = cur_image_index
        /\ cur_download_size' = cur_download_size /\ cur_image_id' = cur_image_id
        /\ cur_image_payload_size' = cur_image_payload_size
        /\ (is_data_valid' <=> is_data_valid) /\ (sub_headers' <=> sub_headers)
    BY DEF ProcessBlock, flash, env
  <1>2. \/ /\ state = "MP_INFO" /\ given' = given + len
           /\ caller' = caller /\ pc' = pc /\ buf_offset' = buf_offset
        \/ caller' = "failed" /\ pc' = "return"
        \/ /\ state # "MP_INFO" /\ given' = given + len /\ buf_offset' = buf_offset + len
           /\ pc' = "pack_header" /\ caller' = caller
    BY DEF ProcessBlock, Then, BlockFailed
  <1>3. ~switched /\ state # "NULL"
    BY <1>1 DEF IInv, Control
  <1>4. CASE caller' = "failed" /\ pc' = "return"
    BY <1>1, <1>3, <1>4, SameImages
    DEF Safe, IInv, Control, Position, Piece, Room, Passed, Finalizing, FinalizedWhole
  <1>5. CASE caller' = "download"
    <2>1. /\ len \in Nat /\ given \in Nat /\ buf_offset \in Nat /\ cur_image_index \in Nat
          /\ cur_download_size \in Nat /\ MaxBlock \in Nat
      BY StepFacts, SizeFacts DEF IInv, TypeInv, TypeOK
    <2>2. Position'
      <3>1. state \in {"IMAGE_HEADER", "IMAGE_PAYLOAD"} =>
               file.start[cur_image_index + 1] \in Nat
        BY <1>1, <2>1, StepFacts DEF IInv, Position
      <3>2. Other' = Other
        BY <1>1, SameImages
      <3> QED
        BY <1>1, <1>2, <1>5, <2>1, <3>1, <3>2, SizeFacts DEF IInv, Position
    <2>3. Room'
      <3>1. Bigger(MP_HEADER_SIZE, MaxBlock) \in Nat /\ file.start[1] \in Nat
        BY StepFacts, FitFacts, WholePackHeader DEF IInv
      <3> QED
        BY <1>1, <1>2, <1>5, <2>1, <3>1, SizeFacts DEF IInv, Room
    <2>4. Passed'
      <3>1. CASE state = "PACK_HEADER"
        BY <1>1, <3>1 DEF Passed
      <3>2. CASE state # "PACK_HEADER"
        BY <1>1, <3>2, SamePassed DEF IInv
      <3> QED BY <3>1, <3>2
    <2> QED
      BY <1>1, <1>2, <1>3, <1>5, <2>2, <2>3, <2>4, SameImages
      DEF Safe, IInv, Control, Piece, Finalizing, FinalizedWhole
  <1> QED BY <1>1, <1>2, <1>4, <1>5

\* The pack header is read once all of it is there.
LEMMA PackHeaderStep == ASSUME Fitting, IInv, ProcessPackHeader PROVE Safe'
  <1>1. /\ from' = from /\ stored' = stored /\ ready' = ready /\ file' = file /\ active' = active
        /\ switched' = switched /\ given' = given /\ pc = "pack_header"
        /\ cur_download_size' = cur_download_size /\ cur_image_id' = cur_image_id
        /\ cur_image_payload_size' = cur_image_payload_size
        /\ is_data_valid' <=> is_data_valid
    BY DEF ProcessPackHeader, flash, env
  <1>2. caller = "download" /\ ~switched /\ state \notin {"NULL", "MP_INFO"}
    BY <1>1 DEF IInv, Control
  <1>3. /\ file \in Files /\ buf_offset \in Nat /\ given \in Nat /\ file.num \in Nat \ {0}
        /\ MaxBlock \in Nat \ {0} /\ MP_HEADER_SIZE \in Nat \ {0}
        /\ Bigger(MP_HEADER_SIZE, MaxBlock) \in Nat
        /\ MaxBlock <= Bigger(MP_HEADER_SIZE, MaxBlock)
    BY StepFacts, FitFacts, SizeFacts DEF IInv, TypeInv, TypeOK
  <1>4. /\ Count = file.num /\ PACK_HEADER_LEN1 + SUB_HEADER * Count = file.start[1]
        /\ sub_image_num' = Count => PackHeaderLen = file.start[1]
        /\ PACK_HEADER_LEN1 <= file.start[1] /\ file.start[1] \in Nat \ {0}
    BY StepFacts, WholePackHeader DEF IInv
  <1>5. CASE caller' = "failed" /\ pc' = "return"
    BY <1>1, <1>2, <1>5, SameImages
    DEF Safe, IInv, Control, Position, Piece, Room, Passed, Finalizing, FinalizedWhole
  <1>6. CASE /\ state = "PACK_HEADER" /\ buf_offset >= file.start[1]
             /\ caller' = caller /\ pc' = "mp_header" /\ state' = "IMAGE_HEADER"
             /\ buf_offset' = buf_offset - file.start[1] /\ sub_headers'
             /\ cur_image_index' = 0 /\ sub_image_num' = file.num
    <2>1. Position'
      BY <1>1, <1>2, <1>3, <1>4, <1>6 DEF IInv, Position
    <2>2. Room'
      BY <1>1, <1>2, <1>3, <1>4, <1>6 DEF IInv, Room
    <2>3. Passed'
      <3>1. \A k \in Other : ~(k <= 0)
        BY StepFacts, OtherFacts DEF IInv
      <3> QED BY <1>1, <1>6, <3>1, SameImages DEF Passed
    <2> QED
      BY <1>1, <1>2, <1>6, <2>1, <2>2, <2>3, SameImages
      DEF Safe, IInv, Control, Piece, Finalizing, FinalizedWhole
  <1>7. CASE /\ caller' = caller /\ pc' = "mp_header" /\ state' = state
             /\ buf_offset' = buf_offset /\ (sub_headers' <=> sub_headers)
             /\ cur_image_index' = cur_image_index
             /\ sub_image_num' = IF state = "PACK_HEADER" /\ buf_offset >= PACK_HEADER_LEN1
                                 THEN file.num ELSE sub_image_num
             /\ state = "PACK_HEADER" => buf_offset < file.start[1]
    <2>1. Position'
      <3>1. Other' = Other
        BY <1>1, SameImages
      <3> QED BY <1>1, <1>2, <1>3, <1>7, <3>1 DEF IInv, Position
    <2>2. Room'
      BY <1>1, <1>2, <1>3, <1>4, <1>7 DEF IInv, Room
    <2>3. Passed'
      <3>1. CASE state = "PACK_HEADER"
        BY <1>7, <3>1 DEF Passed
      <3>2. CASE state # "PACK_HEADER"
        BY <1>1, <1>2, <1>7, <3>2, SamePassed DEF IInv
      <3> QED BY <3>1, <3>2
    <2> QED
      BY <1>1, <1>2, <1>7, <2>1, <2>2, <2>3, SameImages
      DEF Safe, IInv, Control, Piece, Finalizing, FinalizedWhole
  <1> QED
    <2>1. CASE state = "PACK_HEADER" /\ buf_offset >= PACK_HEADER_LEN1
      <3>1. sub_image_num' = file.num /\ PackHeaderLen = file.start[1]
        BY <1>4, <2>1 DEF ProcessPackHeader
      <3>2. CASE buf_offset >= file.start[1] /\ caller' = caller /\ pc' = "mp_header"
        BY <1>3, <1>4, <1>6, <2>1, <3>1, <3>2
        DEF ProcessPackHeader, Then, BlockFailed
      <3>3. CASE ~(buf_offset >= file.start[1]) /\ caller' = caller /\ pc' = "mp_header"
        BY <1>3, <1>4, <1>7, <2>1, <3>1, <3>3
        DEF ProcessPackHeader, Then, BlockFailed
      <3>4. \/ caller' = caller /\ pc' = "mp_header"
            \/ caller' = "failed" /\ pc' = "return"
        BY <2>1 DEF ProcessPackHeader, Then, BlockFailed
      <3> QED BY <1>5, <3>2, <3>3, <3>4
    <2>2. CASE ~(state = "PACK_HEADER" /\ buf_offset >= PACK_HEADER_LEN1)
      <3>1. state = "PACK_HEADER" => buf_offset < file.start[1]
        BY <1>3, <1>4, <2>2, SizeFacts
      <3> QED BY <1>7, <2>2, <3>1 DEF ProcessPackHeader, Then
    <2> QED BY <2>1, <2>2

\* An MP header is read where an MP header is, so that the id, the length and
\* the bank are those of the image.
LEMMA MpHeaderStep == ASSUME Fitting, IInv, ProcessMpHeader PROVE Safe'
  <1>1. /\ from' = from /\ stored' = stored /\ ready' = ready /\ file' = file /\ active' = active
        /\ switched' = switched /\ given' = given /\ pc = "mp_header"
        /\ sub_image_num' = sub_image_num /\ cur_image_index' = cur_image_index
        /\ sub_headers' <=> sub_headers
    BY DEF ProcessMpHeader, flash, env
  <1>2. caller = "download" /\ ~switched /\ state \notin {"NULL", "MP_INFO"}
    BY <1>1 DEF IInv, Control
  <1>3. /\ file \in Files /\ buf_offset \in Nat /\ given \in Nat /\ file.num \in Nat \ {0}
        /\ cur_image_index \in Nat
        /\ MaxBlock \in Nat \ {0} /\ MP_HEADER_SIZE \in Nat \ {0}
        /\ Bigger(MP_HEADER_SIZE, MaxBlock) \in Nat
        /\ MaxBlock <= Bigger(MP_HEADER_SIZE, MaxBlock)
        /\ MP_HEADER_SIZE <= Bigger(MP_HEADER_SIZE, MaxBlock)
    BY StepFacts, FitFacts, SizeFacts DEF IInv, TypeInv, TypeOK
  <1>4. CASE caller' = "failed" /\ pc' = "return"
    BY <1>1, <1>2, <1>4, SameImages
    DEF Safe, IInv, Control, Position, Piece, Room, Passed, Finalizing, FinalizedWhole
  <1>5. CASE /\ caller' = caller /\ pc' = "payload"
             /\ state = "IMAGE_HEADER" /\ buf_offset >= MP_HEADER_SIZE
             /\ HeaderAt(cur_image_id', cur_image_payload_size')
             /\ buf_offset' = buf_offset - MP_HEADER_SIZE
             /\ is_data_valid' <=> InOtherBank(cur_image_index)
             /\ cur_download_size' = 0
             /\ state' = "IMAGE_PAYLOAD"
    <2> DEFINE k == cur_image_index + 1
    <2>1. /\ given = buf_offset + file.start[k] /\ cur_image_index < file.num
          /\ sub_image_num = file.num /\ sub_headers
      BY <1>2, <1>5 DEF IInv, Position
    <2>2. /\ k \in 1 .. file.num /\ k \in 1 .. file.num + 1 /\ file.start[k] \in Nat
          /\ file.size[k] \in Nat \ {0} /\ cur_image_index \in 0 .. file.num - 1
      BY <1>3, <2>1, StepFacts DEF IInv
    <2>3. BufStart = file.start[k]
      BY <1>3, <2>1, <2>2 DEF BufStart
    <2>4. cur_image_id' = file.id[k] /\ cur_image_payload_size' = file.size[k]
      <3>1. PICK j \in (1 .. file.num) \ file.lacks :
               /\ file.start[j] = BufStart
               /\ cur_image_id' = file.id[j] /\ cur_image_payload_size' = file.size[j]
        BY <1>5, <2>2, <2>3 DEF HeaderAt
      <3>2. j = k
        <4>1. k \in 1 .. file.num /\ file.start[j] = file.start[k] /\ file \in Files
          BY <1>3, <2>2, <2>3, <3>1
        <4> HIDE DEF k
        <4> QED BY <4>1, StartsDiffer
      <3> QED BY <3>1, <3>2
    <2>5. is_data_valid' <=> k \in Other'
      BY <1>1, <1>5, <2>1, <2>2, StepFacts, OtherFacts, SameImages DEF IInv
    <2>6. Position'
      BY <1>1, <1>2, <1>3, <1>5, <2>1, <2>2, <2>4, <2>5 DEF IInv, Position
    <2>7. Room'
      BY <1>1, <1>2, <1>3, <1>5 DEF IInv, Room
    <2>8. Passed'
      BY <1>1, <1>2, <1>5, SamePassed DEF IInv
    <2> QED
      BY <1>1, <1>2, <1>3, <1>5, <2>6, <2>7, <2>8, SameImages
      DEF Safe, IInv, Control, Piece, Finalizing, FinalizedWhole
  <1>6. CASE /\ caller' = caller /\ pc' = "payload"
             /\ state = "IMAGE_HEADER" => buf_offset < MP_HEADER_SIZE
             /\ state' = state /\ buf_offset' = buf_offset
             /\ cur_image_id' = cur_image_id /\ cur_image_payload_size' = cur_image_payload_size
             /\ cur_download_size' = cur_download_size /\ (is_data_valid' <=> is_data_valid)
    <2>1. Position'
      <3>1. Other' = Other
        BY <1>1, SameImages
      <3> QED BY <1>1, <1>2, <1>6, <3>1 DEF IInv, Position
    <2>2. Room'
      BY <1>1, <1>2, <1>3, <1>6, StepFacts, WholePackHeader DEF IInv, Room
    <2>3. Passed'
      <3>1. CASE state = "PACK_HEADER"
        BY <1>6, <3>1 DEF Passed
      <3>2. CASE state # "PACK_HEADER"
        BY <1>1, <1>2, <1>6, <3>2, SamePassed DEF IInv
      <3> QED BY <3>1, <3>2
    <2> QED
      BY <1>1, <1>2, <1>6, <2>1, <2>2, <2>3, SameImages
      DEF Safe, IInv, Control, Piece, Finalizing, FinalizedWhole
  <1> QED
    <2>1. CASE state = "IMAGE_HEADER" /\ buf_offset >= MP_HEADER_SIZE
      BY <1>4, <1>5, <2>1 DEF ProcessMpHeader, Then, BlockFailed
    <2>2. CASE ~(state = "IMAGE_HEADER" /\ buf_offset >= MP_HEADER_SIZE)
      <3>1. state = "IMAGE_HEADER" => buf_offset < MP_HEADER_SIZE
        BY <1>3, <2>2
      <3> QED BY <1>6, <2>2, <3>1 DEF ProcessMpHeader, Then
    <2> QED BY <2>1, <2>2

-----------------------------------------------------------------------------
(* The payload.                                                            *)

\* Where the payload of the current image goes on, and what a write does.
LEMMA PayloadFacts ==
    ASSUME Fitting, IInv, pc = "payload", state = "IMAGE_PAYLOAD",
           NEW k, k = cur_image_index + 1
    PROVE  /\ caller = "download" /\ ~switched
           /\ k \in 1 .. file.num /\ cur_image_id = file.id[k] /\ cur_image_id \in Id
           /\ cur_image_payload_size = file.size[k]
           /\ (is_data_valid <=> k \in Other)
           /\ \A j \in 1 .. file.num : AtPayload(j, cur_download_size) <=> j = k
           /\ file.start[k] + MP_HEADER_SIZE + cur_download_size + buf_offset = given
           /\ cur_download_size \in Nat /\ buf_offset \in Nat
           /\ PayloadLen \in 0 .. buf_offset
           /\ cur_download_size + PayloadLen <= file.size[k]
           /\ (Last <=> cur_download_size + PayloadLen = file.size[k])
           /\ sub_image_num = file.num
  <1>1. caller = "download" /\ ~switched
    BY DEF IInv, Control
  <1>2. /\ given = buf_offset + file.start[k] + MP_HEADER_SIZE + cur_download_size
        /\ cur_image_id = file.id[k] /\ cur_image_payload_size = file.size[k]
        /\ (is_data_valid <=> k \in Other)
        /\ cur_download_size < cur_image_payload_size
        /\ cur_image_index < file.num /\ sub_image_num = file.num
    BY <1>1 DEF IInv, Position
  <1>3. /\ file.num \in Nat /\ file \in Files
        /\ k \in 1 .. file.num /\ cur_download_size \in Nat /\ buf_offset \in Nat
        /\ file.start[k] \in Nat /\ file.size[k] \in Nat /\ cur_image_id \in Id
        /\ MP_HEADER_SIZE \in Nat
    BY <1>2, StepFacts, SizeFacts DEF IInv, TypeInv, TypeOK
  <1>4. BufStart = file.start[k] + MP_HEADER_SIZE + cur_download_size
    BY <1>2, <1>3 DEF BufStart
  <1>5. \A j \in 1 .. file.num : AtPayload(j, cur_download_size) <=> j = k
    <2> SUFFICES ASSUME NEW j \in 1 .. file.num
                 PROVE  AtPayload(j, cur_download_size) <=> j = k
      OBVIOUS
    <2>1. file.start[j] \in Nat
      BY StepFacts DEF IInv
    <2>2. file.start[j] = file.start[k] => j = k
      BY <1>3, StartsDiffer
    <2>3. AtPayload(j, cur_download_size) <=> file.start[j] = file.start[k]
      <3>1. PICK a \in Nat : a = file.start[j]
        BY <2>1
      <3>2. PICK b \in Nat : b = file.start[k]
        BY <1>3
      <3>3. PICK m \in Nat : m = MP_HEADER_SIZE
        BY <1>3
      <3>4. PICK c \in Nat : c = cur_download_size
        BY <1>3
      <3>5. AtPayload(j, cur_download_size) <=> a + m + c = b + m + c
        BY <1>4, <3>1, <3>2, <3>3, <3>4 DEF AtPayload
      <3> QED BY <3>1, <3>2, <3>5
    <2> QED BY <2>2, <2>3
  <1>6. /\ PayloadLen \in 0 .. buf_offset
        /\ cur_download_size + PayloadLen <= file.size[k]
        /\ (Last <=> cur_download_size + PayloadLen = file.size[k])
    <2>1. cur_download_size < file.size[k]
      BY <1>2
    <2>2. Last <=> cur_download_size + buf_offset >= file.size[k]
      BY <1>2 DEF Last
    <2>3. PayloadLen = IF Last THEN file.size[k] - cur_download_size ELSE buf_offset
      BY <1>2 DEF PayloadLen
    <2> QED BY <1>3, <2>1, <2>2, <2>3
  <1> QED BY <1>1, <1>2, <1>3, <1>5, <1>6

\* A piece that is taken keeps the place in the file and room in the buffer.
LEMMA PayloadPlace ==
    ASSUME Fitting, IInv, ProcessPayload, state = "IMAGE_PAYLOAD", PayloadDone
    PROVE  Position' /\ Room'
  <1> DEFINE k == cur_image_index + 1
  <1>0. pc = "payload" /\ pc' = "return" /\ caller' = caller
    BY DEF ProcessPayload, PayloadDone, Then
  <1>1. /\ caller = "download"
        /\ k \in 1 .. file.num /\ cur_image_id = file.id[k]
        /\ cur_image_payload_size = file.size[k]
        /\ (is_data_valid <=> k \in Other)
        /\ file.start[k] + MP_HEADER_SIZE + cur_download_size + buf_offset = given
        /\ cur_download_size \in Nat /\ buf_offset \in Nat
        /\ PayloadLen \in 0 .. buf_offset
        /\ cur_download_size + PayloadLen <= file.size[k]
        /\ (Last <=> cur_download_size + PayloadLen = file.size[k])
        /\ sub_image_num = file.num
    BY <1>0, PayloadFacts
  <1>2. /\ file' = file /\ active' = active /\ given' = given
        /\ sub_image_num' = sub_image_num /\ (sub_headers' <=> sub_headers)
        /\ cur_image_id' = cur_image_id /\ cur_image_payload_size' = cur_image_payload_size
        /\ (is_data_valid' <=> is_data_valid)
        /\ cur_download_size' = cur_download_size + PayloadLen
        /\ buf_offset' = buf_offset - PayloadLen
    BY DEF ProcessPayload, PayloadDone, env
  <1>3. /\ file \in Files /\ file.num \in Nat /\ cur_image_index \in Nat
        /\ file.start[k] \in Nat /\ file.size[k] \in Nat \ {0} /\ given \in Nat
        /\ MP_HEADER_SIZE \in Nat \ {0} /\ MaxBlock \in Nat \ {0}
        /\ Bigger(MP_HEADER_SIZE, MaxBlock) \in Nat
        /\ MaxBlock <= Bigger(MP_HEADER_SIZE, MaxBlock)
        /\ file.start[k + 1] = file.start[k] + MP_HEADER_SIZE + file.size[k]
    <2>1. file \in Files /\ Fits(file) /\ file.num \in Nat
      BY StepFacts DEF IInv
    <2>2. file.start[k] \in Nat /\ file.size[k] \in Nat \ {0}
      BY <1>1, StepFacts DEF IInv
    <2>3. file.start[k + 1] = file.start[k] + MP_HEADER_SIZE + file.size[k]
      BY <1>1, <2>1, FileFacts
    <2>4. /\ Bigger(MP_HEADER_SIZE, MaxBlock) \in Nat
          /\ MaxBlock <= Bigger(MP_HEADER_SIZE, MaxBlock)
      BY <2>1, FitFacts
    <2>5. cur_image_index \in Nat /\ given \in Nat
      BY <2>1, FileFacts DEF IInv, TypeInv, TypeOK
    <2> QED BY <2>1, <2>2, <2>3, <2>4, <2>5, SizeFacts
  <1>4. Other' = Other
    BY <1>2 DEF Other
  <1>5. sub_headers
    BY <1>1 DEF IInv, Position
  <1>6. CASE Last
    <2>1. /\ cur_image_index' = k
          /\ state' = IF k < file.num THEN "IMAGE_HEADER" ELSE "MP_INFO"
          /\ cur_download_size + PayloadLen = file.size[k]
      BY <1>1, <1>6 DEF PayloadDone
    <2>2. given = buf_offset' + file.start[k + 1]
      BY <1>1, <1>2, <1>3, <2>1
    <2>3. Position'
      BY <1>0, <1>1, <1>2, <1>3, <1>5, <2>1, <2>2 DEF Position
    <2>4. buf_offset' < Bigger(MP_HEADER_SIZE, MaxBlock)
      <3>1. cur_download_size < file.size[k]
        BY <1>1 DEF IInv, Position
      <3>2. \/ buf_offset <= MaxBlock
            \/ cur_download_size = 0
               /\ buf_offset + MP_HEADER_SIZE < Bigger(MP_HEADER_SIZE, MaxBlock) + MaxBlock
        BY <1>0, <1>1, <1>3 DEF IInv, Room
      <3>3. MP_HEADER_SIZE + file.size[k] >= MaxBlock
        BY <1>1, StepFacts DEF IInv, Fits
      <3>4. PayloadLen = file.size[k] - cur_download_size
        BY <1>1, <1>3, <2>1
      <3>5. CASE buf_offset <= MaxBlock
        BY <1>1, <1>2, <1>3, <3>1, <3>4, <3>5
      <3>6. CASE /\ cur_download_size = 0
                 /\ buf_offset + MP_HEADER_SIZE < Bigger(MP_HEADER_SIZE, MaxBlock) + MaxBlock
        BY <1>1, <1>2, <1>3, <3>3, <3>4, <3>6
      <3> QED BY <3>2, <3>5, <3>6
    <2>5. Room'
      BY <1>0, <2>1, <2>4, <1>1, <1>2, <1>3 DEF Room
    <2> QED BY <2>3, <2>5
  <1>7. CASE ~Last
    <2>1. /\ cur_image_index' = cur_image_index /\ state' = "IMAGE_PAYLOAD"
          /\ PayloadLen = buf_offset /\ cur_download_size + PayloadLen < file.size[k]
      BY <1>1, <1>3, <1>7 DEF PayloadDone, PayloadLen
    <2>2. Position'
      BY <1>0, <1>1, <1>2, <1>3, <1>4, <1>5, <2>1 DEF Position
    <2>3. Room'
      BY <1>0, <1>1, <1>2, <2>1 DEF Room
    <2> QED BY <2>2, <2>3
  <1> QED BY <1>6, <1>7

\* A step that leaves an image of the other bank what it was, and one after
\* which it is a piece of the update that is not ready.
StillOld(k) == /\ from'[file.id[k]] = from[file.id[k]]
               /\ file.id[k] \in ready' <=> file.id[k] \in ready
Started(k)  == from'[file.id[k]] # 0 /\ file.id[k] \notin ready'

\* A write that stops half way, too, leaves the other images alone, and the
\* current image is not ready after it.
LEMMA SpoiltFlash ==
    ASSUME Fitting, IInv, pc = "payload", state = "IMAGE_PAYLOAD", is_data_valid,
           Spoilt(cur_image_id, cur_download_size), file' = file,
           NEW k, k = cur_image_index + 1
    PROVE  /\ k \in Other /\ Started(k)
           /\ \A j \in Other : j # k => /\ Whole(j)' <=> Whole(j)
                                        /\ StillOld(j)
  <1>1. /\ caller = "download" /\ k \in 1 .. file.num
        /\ cur_image_id = file.id[k] /\ cur_image_id \in Id /\ k \in Other
        /\ cur_download_size \in Nat
    BY PayloadFacts
  <1>2. from \in [Id -> Nat] /\ stored \in [Id -> Nat]
    BY DEF IInv, TypeInv, TypeOK
  <1>3. /\ \A j \in Other : file.id[j] \in Id
        /\ \A j, l \in Other : file.id[j] = file.id[l] => j = l
    BY StepFacts, OtherFacts DEF IInv
  <1>4. cur_download_size > 0 => cur_image_id \notin ready
    BY <1>1 DEF IInv, Piece
  <1>5. Started(k)
    BY <1>1, <1>2, <1>4 DEF Spoilt, Started
  <1>6. ASSUME NEW j \in Other, j # k PROVE (Whole(j)' <=> Whole(j)) /\ StillOld(j)
    <2>1. file.id[j] # cur_image_id /\ file.id[j] \in Id
      BY <1>1, <1>3, <1>6
    <2>2. /\ from'[file.id[j]] = from[file.id[j]] /\ stored'[file.id[j]] = stored[file.id[j]]
          /\ file.id[j] \in ready' <=> file.id[j] \in ready
      BY <1>2, <2>1 DEF Spoilt
    <2> QED BY <2>2 DEF Whole, StillOld
  <1> QED BY <1>1, <1>5, <1>6

\* A power loss keeps the invariant, also in the middle of a write.
LEMMA PowerLossStep == ASSUME Fitting, IInv, PowerLoss PROVE Safe'
  <1>1. CASE UNCHANGED flash
    BY <1>1, EndStep
  <1>2. CASE /\ pc = "payload" /\ state = "IMAGE_PAYLOAD" /\ is_data_valid
             /\ Spoilt(cur_image_id, cur_download_size)
    <2>1. file' = file /\ active' = active /\ caller' = "idle" /\ pc' = "return"
      BY DEF PowerLoss, Reboot, env
    <2>2. PICK k : k = cur_image_index + 1
      OBVIOUS
    <2>3. Started(k) /\ \A j \in Other : j # k => (Whole(j)' <=> Whole(j)) /\ StillOld(j)
      BY <1>2, <2>1, <2>2, SpoiltFlash
    <2>4. Other' = Other
      BY <2>1 DEF Other
    <2>5. ReadyWhole'
      <3> SUFFICES ASSUME NEW j \in Other, file.id[j] \in ready'
                   PROVE  from'[file.id[j]] = 0 \/ Whole(j)'
        BY <2>1, <2>4 DEF ReadyWhole
      <3>1. j # k
        BY <2>3 DEF Started
      <3> QED BY <2>3, <3>1 DEF StillOld, IInv, ReadyWhole
    <2> QED
      BY <2>1, <2>5
      DEF Safe, Control, Position, Piece, Room, Passed, Finalizing, FinalizedWhole
  <1> QED BY <1>1, <1>2 DEF PowerLoss

\* A write of the current image, done or failed, leaves the other images alone,
\* and takes the ready bit of an image before it changes it.
LEMMA PayloadFlash ==
    ASSUME Fitting, IInv, ProcessPayload, state = "IMAGE_PAYLOAD",
           NEW k, k = cur_image_index + 1
    PROVE  /\ \A j \in Other : j # k => /\ Whole(j)' <=> Whole(j)
                                        /\ from'[file.id[j]] = from[file.id[j]]
                                        /\ file.id[j] \in ready' <=> file.id[j] \in ready
           /\ k \in Other => /\ file.id[k] \in ready' => from'[file.id[k]] = 0 \/ Whole(k)'
                             /\ PayloadDone => /\ from'[file.id[k]] = k
                                               /\ stored'[file.id[k]] = cur_download_size'
                                               /\ ~Last => file.id[k] \notin ready'
                             /\ ~checksum_readies => StillOld(k) \/ Started(k)
  <1>0. pc = "payload"
    BY DEF ProcessPayload
  <1>1. /\ caller = "download" /\ k \in 1 .. file.num /\ k \in Nat
        /\ cur_image_id = file.id[k] /\ cur_image_id \in Id
        /\ (is_data_valid <=> k \in Other)
        /\ \A j \in 1 .. file.num : AtPayload(j, cur_download_size) <=> j = k
        /\ cur_download_size \in Nat
        /\ cur_download_size + PayloadLen <= file.size[k]
        /\ (Last <=> cur_download_size + PayloadLen = file.size[k])
    BY <1>0, PayloadFacts
  <1>2. file' = file /\ from \in [Id -> Nat] /\ stored \in [Id -> Nat]
    BY DEF ProcessPayload, env, IInv, TypeInv, TypeOK
  <1>3. /\ Other \subseteq 1 .. file.num
        /\ \A j \in Other : file.id[j] \in Id
        /\ \A j, l \in Other : file.id[j] = file.id[l] => j = l
    BY StepFacts, OtherFacts DEF IInv
  <1>4. CASE ~is_data_valid
    <2>1. from' = from /\ stored' = stored /\ ready' = ready
      BY <1>4 DEF ProcessPayload, flash
    <2> QED BY <1>1, <1>2, <1>4, <2>1 DEF Whole, StillOld
  <1>5. CASE is_data_valid
    <2> DEFINE x == cur_image_id
               kept == ready \ {y \in {x} : cur_download_size = 0}
    <2>1. k \in Other /\ (cur_download_size > 0 =>
                             from[x] = k /\ stored[x] = cur_download_size /\ x \notin ready)
      BY <1>0, <1>1, <1>5 DEF IInv, Piece, ProcessPayload
    <2>2. x \notin kept /\ \A y \in Id : y # x => (y \in kept <=> y \in ready)
      BY <1>1, <2>1
    <2>3. \A j \in Other : j # k => file.id[j] # x
      BY <1>1, <1>3, <2>1
    <2>4. \/ UNCHANGED <<from, stored, ready>> /\ PayloadFailed
          \/ /\ from' = [from EXCEPT ![x] = 1] /\ stored' = [stored EXCEPT ![x] = 0]
             /\ ready' = kept /\ PayloadFailed
          \/ /\ Written(x, cur_download_size, PayloadLen)
             /\ \/ PayloadFailed /\ ready' = kept
                \/ PayloadDone /\ ready' = kept
                \/ PayloadDone /\ ready' = kept \cup {x} /\ Last /\ checksum_readies
      BY <1>5 DEF ProcessPayload, WriteFailed, Spoilt, flash
    <2>5. Written(x, cur_download_size, PayloadLen) =>
             /\ from' = [from EXCEPT ![x] = k]
             /\ stored' = [stored EXCEPT ![x] = cur_download_size + PayloadLen]
      <3> DEFINE next == {j \in 1 .. file.num :
                            /\ AtPayload(j, cur_download_size)
                            /\ cur_download_size + PayloadLen <= file.size[j]
                            /\ \/ cur_download_size = 0
                               \/ from[x] = j /\ stored[x] = cur_download_size}
      <3>1. next = {k}
        <4>1. k \in next
          BY <1>1, <2>1
        <4>2. \A j \in next : j = k
          BY <1>1
        <4> QED BY <4>1, <4>2
      <3> QED BY <3>1 DEF Written
    <2>6. PayloadDone => /\ cur_download_size' = cur_download_size + PayloadLen
                         /\ ~PayloadFailed
      BY <1>1 DEF PayloadDone, PayloadFailed, BlockFailed, Then
    <2> HIDE DEF kept
    <2>7. \A j \in Other : j # k => /\ from'[file.id[j]] = from[file.id[j]]
                                    /\ stored'[file.id[j]] = stored[file.id[j]]
                                    /\ file.id[j] \in ready' <=> file.id[j] \in ready
      BY <1>2, <1>3, <2>2, <2>3, <2>4, <2>5
    <2>8. PayloadDone => /\ from'[x] = k /\ stored'[x] = cur_download_size'
                         /\ ~Last => x \notin ready'
      BY <1>1, <1>2, <2>2, <2>4, <2>5, <2>6
    <2>9. x \in ready' => from'[x] = 0 \/ Whole(k)'
      <3>1. CASE UNCHANGED <<from, stored, ready>>
        BY <1>1, <1>2, <2>1, <3>1 DEF IInv, ReadyWhole, Whole
      <3>2. CASE PayloadDone /\ Last
        <4>1. stored'[x] = file.size[k] /\ from'[x] = k
          BY <1>1, <2>6, <2>8, <3>2
        <4> QED BY <1>1, <1>2, <4>1 DEF Whole
      <3> QED BY <2>2, <2>4, <3>1, <3>2
    <2>10. ~checksum_readies => StillOld(k) \/ Started(k)
      <3>1. UNCHANGED <<from, ready>> => StillOld(k)
        BY DEF StillOld
      <3>4. from' = [from EXCEPT ![x] = 1] /\ ready' = kept => Started(k)
        BY <1>1, <1>2, <2>2 DEF Started
      <3>5. from' = [from EXCEPT ![x] = k] /\ ready' = kept => Started(k)
        BY <1>1, <1>2, <2>2 DEF Started
      <3> QED BY <2>4, <2>5, <3>1, <3>4, <3>5
    <2> QED BY <1>1, <1>2, <2>7, <2>8, <2>9, <2>10 DEF Whole
  <1> QED BY <1>4, <1>5

\* A piece of a payload goes to its place, and a finished image is whole.
LEMMA PayloadStep == ASSUME Fitting, IInv, ProcessPayload PROVE Safe'
  <1>1. /\ file' = file /\ active' = active /\ switched' = switched /\ given' = given
        /\ pc = "payload" /\ sub_image_num' = sub_image_num
        /\ cur_image_id' = cur_image_id /\ cur_image_payload_size' = cur_image_payload_size
        /\ (is_data_valid' <=> is_data_valid) /\ (sub_headers' <=> sub_headers)
    BY DEF ProcessPayload, env
  <1>2. caller = "download" /\ ~switched /\ state \notin {"NULL", "MP_INFO"} /\ Other' = Other
    BY <1>1 DEF IInv, Control, Other
  <1>3. CASE state # "IMAGE_PAYLOAD"
    <2>1. /\ from' = from /\ stored' = stored /\ ready' = ready
          /\ caller' = caller /\ pc' = "return" /\ state' = state /\ buf_offset' = buf_offset
          /\ cur_download_size' = cur_download_size /\ cur_image_index' = cur_image_index
      BY <1>3 DEF ProcessPayload, Then, flash
    <2>2. Position' /\ Room'
      BY <1>1, <1>2, <1>3, <2>1 DEF IInv, Position, Room
    <2>3. Passed'
      <3>1. CASE state = "PACK_HEADER"
        BY <2>1, <3>1 DEF Passed
      <3>2. CASE state # "PACK_HEADER"
        BY <1>1, <1>2, <2>1, <3>2, SamePassed DEF IInv
      <3> QED BY <3>1, <3>2
    <2> QED
      BY <1>1, <1>2, <1>3, <2>1, <2>2, <2>3, SameImages
      DEF Safe, IInv, Control, Piece, Finalizing, FinalizedWhole
  <1>4. CASE state = "IMAGE_PAYLOAD"
    <2>0. PICK k : k = cur_image_index + 1
      OBVIOUS
    <2>1. /\ \A j \in Other : j # k => /\ Whole(j)' <=> Whole(j)
                                       /\ from'[file.id[j]] = from[file.id[j]]
                                       /\ file.id[j] \in ready' <=> file.id[j] \in ready
          /\ k \in Other => /\ file.id[k] \in ready' => from'[file.id[k]] = 0 \/ Whole(k)'
                            /\ PayloadDone => /\ from'[file.id[k]] = k
                                              /\ stored'[file.id[k]] = cur_download_size'
                                              /\ ~Last => file.id[k] \notin ready'
      BY <1>4, <2>0, PayloadFlash
    <2>2. ReadyWhole'
      <3> SUFFICES ASSUME NEW j \in Other, file.id[j] \in ready'
                   PROVE  from'[file.id[j]] = 0 \/ Whole(j)'
        BY <1>1, <1>2 DEF ReadyWhole
      <3>1. CASE j = k
        BY <2>1, <3>1 DEF Whole
      <3>2. CASE j # k
        BY <2>1, <3>2 DEF IInv, ReadyWhole
      <3> QED BY <3>1, <3>2
    <2>3. PayloadDone \/ PayloadFailed
      BY <1>4 DEF ProcessPayload
    <2>4. CASE PayloadFailed
      BY <1>1, <1>2, <2>2, <2>4
      DEF PayloadFailed, BlockFailed, Safe, Control, Position, Piece, Room, Passed, Finalizing,
          FinalizedWhole
    <2>5. CASE PayloadDone
      <3>1. Position' /\ Room'
        BY <1>4, <2>5, PayloadPlace
      <3>2. /\ caller' = "download" /\ pc' = "return" /\ state' # "NULL"
            /\ cur_download_size' = cur_download_size + PayloadLen
            /\ IF Last THEN cur_image_index' = k /\ state' # "IMAGE_PAYLOAD"
               ELSE cur_image_index' = cur_image_index /\ state' = state
        BY <1>2, <1>4, <2>0, <2>5 DEF PayloadDone, Then
      <3>3. /\ k \in 1 .. file.num /\ cur_image_id = file.id[k] /\ (is_data_valid <=> k \in Other)
            /\ (Last <=> cur_download_size + PayloadLen = file.size[k])
        BY <1>1, <1>4, <2>0, PayloadFacts
      <3>4. Piece'
        BY <1>1, <2>0, <2>1, <2>5, <3>2, <3>3 DEF Piece
      <3>5. Passed'
        <4> SUFFICES ASSUME NEW j \in Other, j <= cur_image_index' PROVE Whole(j)'
          BY <1>2 DEF Passed
        <4>1. Other \subseteq 1 .. file.num /\ cur_image_index \in Nat
          BY StepFacts, OtherFacts DEF IInv, TypeInv, TypeOK
        <4>2. CASE j = k
          <5>1. Last
            BY <2>0, <3>2, <4>1, <4>2
          <5> QED BY <1>1, <2>1, <2>5, <3>2, <3>3, <4>2, <5>1 DEF Whole
        <4>3. CASE j # k
          <5>1. j <= cur_image_index
            BY <2>0, <3>2, <4>1, <4>3, StepFacts DEF IInv
          <5> QED BY <1>2, <1>4, <2>1, <4>3, <5>1 DEF IInv, Passed
        <4> QED BY <4>2, <4>3
      <3> QED
        BY <1>1, <1>2, <2>2, <3>1, <3>2, <3>4, <3>5
        DEF Safe, IInv, Control, Position, Finalizing, FinalizedWhole
    <2> QED BY <2>3, <2>4, <2>5
  <1> QED BY <1>3, <1>4

-----------------------------------------------------------------------------
(* The invariant, and what follows from it.                                *)

\* Every step keeps the invariant.
LEMMA InvStep == ASSUME Fitting, IInv, [Next]_vars PROVE IInv'
  <1>1. TypeInv'
    BY TypeStep DEF IInv
  <1>2. Safe'
    <2>1. CASE UNCHANGED vars
      BY <2>1 DEF vars, db, flash, env, Safe, IInv, Control, Position, Piece, Room, Passed,
                  Finalizing, FinalizedWhole, ReadyWhole, Whole, Other
    <2>2. CASE Next
      BY <2>1, <2>2, PrepareStep, FinalizeStep, FinalizeImageStep, EndStep, PowerLossStep, BlockStep,
         PackHeaderStep, MpHeaderStep, PayloadStep
      DEF Next, Step, Over
    <2> QED BY <2>1, <2>2
  <1> QED BY <1>1, <1>2 DEF IInv, Safe

\* It holds before the update.
LEMMA InvInit == Init => IInv
  <1> SUFFICES ASSUME Init PROVE IInv
    OBVIOUS
  <1>1. \A k \in Other : from[file.id[k]] = 0
    <2>1. file \in Files /\ active \in {0, 1} /\ from = [x \in Id |-> 0]
      BY DEF Init
    <2> QED BY <2>1, OtherFacts
  <1>2. ReadyWhole
    BY <1>1 DEF ReadyWhole
  <1> QED
    BY <1>2, TypeInit
    DEF Init, IInv, Control, Position, Piece, Room, Passed, Finalizing, FinalizedWhole

\* For files that fit, the invariant always holds.
THEOREM Invariance == ASSUME Fitting PROVE Spec => []IInv
  <1>1. IInv /\ [Next]_vars => IInv'
    BY InvStep
  <1> QED BY <1>1, InvInit, PTL DEF Spec

\* The parser is in step with the file, however it is cut into blocks
\* (matter_ota.c:152-344).
THEOREM ParserInStep == ASSUME Fitting PROVE Spec => []InStep
  <1>1. IInv => InStep
    <2> SUFFICES ASSUME IInv, caller = "download"
                 PROVE  /\ state = "PACK_HEADER" => BufStart = 0
                        /\ state = "IMAGE_HEADER" => BufStart = file.start[cur_image_index + 1]
                        /\ state = "IMAGE_PAYLOAD" =>
                              LET k == cur_image_index + 1 IN
                              /\ AtPayload(k, cur_download_size)
                              /\ cur_image_id = file.id[k]
                              /\ cur_image_payload_size = file.size[k]
                              /\ is_data_valid <=> k \in Other
                              /\ is_data_valid /\ cur_download_size > 0 =>
                                    from[cur_image_id] = k /\ stored[cur_image_id] = cur_download_size
      BY DEF InStep
    <2>1. /\ file.num \in Nat /\ given \in Nat /\ buf_offset \in Nat /\ cur_image_index \in Nat
          /\ cur_download_size \in Nat /\ MP_HEADER_SIZE \in Nat
          /\ \A k \in 1 .. file.num : file.start[k] \in Nat
      BY StepFacts, SizeFacts DEF IInv, TypeInv, TypeOK
    <2>2. state \in {"IMAGE_HEADER", "IMAGE_PAYLOAD"} => file.start[cur_image_index + 1] \in Nat
      BY <2>1 DEF IInv, Position
    <2>3. state = "PACK_HEADER" => BufStart = 0
      BY <2>1 DEF IInv, Position, BufStart
    <2>4. state = "IMAGE_HEADER" => BufStart = file.start[cur_image_index + 1]
      BY <2>1, <2>2 DEF IInv, Position, BufStart
    <2>5. state = "IMAGE_PAYLOAD" => AtPayload(cur_image_index + 1, cur_download_size)
      BY <2>1, <2>2 DEF IInv, Position, BufStart, AtPayload
    <2> QED BY <2>3, <2>4, <2>5 DEF IInv, Position, Piece
  <1> QED BY <1>1, Invariance, PTL

\* No block of a file that fits is refused for want of room (matter_ota.c:115).
THEOREM BlocksFit == ASSUME Fitting PROVE Spec => []RoomForBlock
  <1>1. IInv => RoomForBlock
    <2> SUFFICES ASSUME IInv, caller = "download", pc = "return", state # "MP_INFO"
                 PROVE  buf_offset + MaxBlock <= BUF_SIZE
      BY DEF RoomForBlock
    <2>1. /\ buf_offset \in Nat /\ BUF_SIZE \in Nat /\ MaxBlock \in Nat
          /\ state \in {"PACK_HEADER", "IMAGE_HEADER", "IMAGE_PAYLOAD"}
      BY SizeFacts, StepFacts DEF IInv, TypeInv, TypeOK, Control
    <2>2. /\ Bigger(MP_HEADER_SIZE, MaxBlock) \in Nat /\ file.start[1] \in Nat \ {0}
          /\ file.start[1] - 1 + MaxBlock <= BUF_SIZE
          /\ Bigger(MP_HEADER_SIZE, MaxBlock) - 1 + MaxBlock <= BUF_SIZE
          /\ MaxBlock <= Bigger(MP_HEADER_SIZE, MaxBlock) /\ MaxBlock # 0
      BY StepFacts, FitFacts, WholePackHeader, SizeFacts DEF IInv
    <2> QED BY <2>1, <2>2 DEF IInv, Room
  <1> QED BY <1>1, Invariance, PTL

\* Finalize says success only of an update that is whole and ready
\* (matter_ota.h:43).
THEOREM FinalizeHonest == ASSUME Fitting PROVE Spec => []FinalizedWhole
  <1>1. IInv => FinalizedWhole
    BY DEF IInv
  <1> QED BY <1>1, Invariance, PTL

\* Only whole images are ready for the bootloader.
THEOREM ReadyOnlyWhole == ASSUME Fitting PROVE Spec => []ReadyWhole
  <1>1. IInv => ReadyWhole
    BY DEF IInv
  <1> QED BY <1>1, Invariance, PTL

-----------------------------------------------------------------------------
(* The refinement of OtaUpdate.                                            *)

\* The images that the device holds.
Held == {k \in Other : Whole(k) /\ file.id[k] \in ready}

\* When an image of the update is ready, no old one is left in the other bank.
Unmixed ==
    ~checksum_readies =>
       \A j, k \in Other : (file.id[j] \in ready /\ from[file.id[j]] # 0) => from[file.id[k]] # 0

\* No step mixes old and new: only finalize sets images ready, when all are
\* whole, and a write takes the ready bit of an image before it changes it.
LEMMA UnmixedStep == ASSUME Fitting, IInv, Unmixed, [Next]_vars PROVE Unmixed'
  <1> SUFFICES ASSUME ~checksum_readies, checksum_readies' = checksum_readies,
                      file' = file, Other' = Other,
                      NEW j \in Other, NEW l \in Other,
                      file.id[j] \in ready', from'[file.id[j]] # 0
               PROVE  from'[file.id[l]] # 0
    <2>1. checksum_readies' = checksum_readies /\ file' = file /\ active' = active
      BY DEF Next, Step, Over, Prepare, Finalize, FinalizeImage, FinalizeEnd, Apply,
             ProcessBlock, ProcessPackHeader, ProcessMpHeader, ProcessPayload, Abort, PowerLoss,
             Reboot, vars, env
    <2>2. Other' = Other
      BY <2>1 DEF Other
    <2> QED BY <2>1, <2>2 DEF Unmixed
  <1>1. CASE from' = from /\ ready' = ready
    BY <1>1 DEF Unmixed
  <1>2. CASE FinalizeImage
    <2>1. from' = from /\ caller = "finalize"
      BY <1>2 DEF FinalizeImage
    <2>2. Whole(l) /\ l # 0
      BY <2>1, StepFacts, OtherFacts DEF IInv, Finalizing
    <2> QED BY <2>1, <2>2 DEF Whole
  <1>3. ASSUME NEW k, \A m \in Other : m # k => StillOld(m),
               k \in Other => StillOld(k) \/ Started(k)
        PROVE  from'[file.id[l]] # 0
    <2>1. StillOld(j)
      BY <1>3 DEF Started
    <2>2. from[file.id[l]] # 0
      BY <2>1 DEF StillOld, Unmixed
    <2> QED BY <1>3, <2>2 DEF StillOld, Started
  <1>4. CASE ProcessPayload
    <2>1. CASE state # "IMAGE_PAYLOAD"
      BY <1>1, <1>4, <2>1 DEF ProcessPayload, flash
    <2>2. CASE state = "IMAGE_PAYLOAD"
      <3>1. PICK k : k = cur_image_index + 1
        OBVIOUS
      <3> QED BY <1>3, <1>4, <2>2, <3>1, PayloadFlash DEF StillOld
    <2> QED BY <2>1, <2>2
  <1>5. CASE PowerLoss
    <2>1. CASE UNCHANGED flash
      BY <1>1, <2>1 DEF flash
    <2>2. CASE /\ pc = "payload" /\ state = "IMAGE_PAYLOAD" /\ is_data_valid
               /\ Spoilt(cur_image_id, cur_download_size)
      <3>1. PICK k : k = cur_image_index + 1
        OBVIOUS
      <3> QED BY <1>3, <2>2, <3>1, SpoiltFlash
    <2> QED BY <1>5, <2>1, <2>2 DEF PowerLoss
  <1>6. CASE ~(FinalizeImage \/ ProcessPayload \/ PowerLoss)
    <2>1. from' = from /\ ready' = ready
      BY <1>6
      DEF Next, Step, Over, Prepare, Finalize, FinalizeEnd, Apply, ProcessBlock,
          ProcessPackHeader, ProcessMpHeader, Abort, vars, flash
    <2> QED BY <1>1, <2>1
  <1> QED BY <1>2, <1>4, <1>5, <1>6

\* When the boot loader takes the other bank, the whole update is there.
LEMMA BootsWhole ==
    ASSUME Fitting, IInv, Unmixed, ~checksum_readies, BootsOther
    PROVE  Held = Other
  <1>1. PICK j \in Other : from[file.id[j]] # 0
    BY DEF BootsOther
  <1>2. \A k \in Other : file.id[k] \in ready /\ from[file.id[k]] # 0
    BY <1>1 DEF BootsOther, Unmixed
  <1> QED BY <1>2 DEF IInv, ReadyWhole, Held

\* The switch is a Boolean.
LEMMA SwitchedType == IInv /\ ~switched => switched = FALSE
  BY Zenon DEF IInv, TypeInv, TypeOK

\* A reboot switches when the boot loader takes the other bank.
LEMMA Switches ==
    ASSUME Reboot
    PROVE  (BootsOther' => switched' = TRUE) /\ (~BootsOther' => switched' = FALSE)
  <1>1. switched' = BootsOther'
    BY DEF Reboot
  <1>2. (BootsOther' = TRUE) \/ (BootsOther' = FALSE)
    BY DEF BootsOther
  <1> QED BY <1>1, <1>2

\* A reboot over an unchanged flash switches to the whole update, or not at all.
LEMMA RebootStep ==
    ASSUME Fitting, IInv, Unmixed, ~checksum_readies, ~switched, Reboot, UNCHANGED flash
    PROVE  [Update!UpdateNext]_<<Other, Held, switched>>
  <1>1. /\ from' = from /\ stored' = stored /\ ready' = ready /\ file' = file
        /\ active' = active
    BY DEF Reboot, flash, env
  <1>2. Other' = Other /\ Held' = Held /\ (BootsOther' <=> BootsOther)
    BY <1>1 DEF Held, Other, Whole, BootsOther
  <1>4. CASE BootsOther
    <2>1. Held = Other
      BY <1>4, BootsWhole
    <2>2. switched' = TRUE
      BY <1>2, <1>4, Switches
    <2>3. Held' = Held /\ Other' = Other
      BY <1>2
    <2> QED BY <2>1, <2>2, <2>3 DEF Update!UpdateNext, Update!Switch, Held
  <1>5. CASE ~BootsOther
    <2>1. switched' = switched
      <3>1. switched' = FALSE
        BY <1>2, <1>5, Switches
      <3> QED BY <3>1, SwitchedType, Zenon
    <2> QED BY <1>2, <2>1, Zenon
  <1> QED BY <1>4, <1>5

\* So does one in the middle of a write: the image that was being written is
\* not ready, and keeps the boot loader where it is.
LEMMA TornReboot ==
    ASSUME Fitting, IInv, ~switched, Reboot,
           pc = "payload", state = "IMAGE_PAYLOAD", is_data_valid,
           Spoilt(cur_image_id, cur_download_size)
    PROVE  [Update!UpdateNext]_<<Other, Held, switched>>
  <1>1. file' = file /\ active' = active
    BY DEF Reboot, env
  <1>2. Other' = Other
    BY <1>1 DEF Other
  <1>3. PICK k : k = cur_image_index + 1
    OBVIOUS
  <1>4. /\ k \in Other /\ Started(k)
        /\ \A j \in Other : j # k => (Whole(j)' <=> Whole(j)) /\ StillOld(j)
    BY <1>1, <1>3, SpoiltFlash
  <1>5. ~BootsOther'
    BY <1>1, <1>2, <1>4 DEF BootsOther, Started
  <1>6. switched' = switched
    <2>1. switched' = FALSE
      BY <1>5, Switches
    <2> QED BY <2>1, SwitchedType, Zenon
  <1>7. Held' = Held \ {k}
    BY <1>1, <1>2, <1>4 DEF Held, Started, StillOld
  <1> QED BY <1>2, <1>4, <1>6, <1>7 DEF Update!UpdateNext, Update!Discard, Held

\* Every step is a step of OtaUpdate, or leaves what it holds alone.
LEMMA UpdateStep ==
    ASSUME Fitting, IInv, Unmixed, ~checksum_readies, [Next]_vars
    PROVE  [Update!UpdateNext]_<<Other, Held, switched>>
  <1>1. CASE /\ from' = from /\ stored' = stored /\ ready' = ready /\ file' = file
             /\ active' = active /\ switched' = switched
    <2>1. Other' = Other /\ Held' = Held
      BY <1>1 DEF Held, Other, Whole
    <2> QED BY <1>1, <2>1
  <1>2. CASE Prepare \/ Finalize \/ FinalizeEnd \/ ProcessPackHeader \/ ProcessMpHeader
             \/ Abort \/ UNCHANGED vars
    BY <1>1, <1>2
    DEF Prepare, Finalize, FinalizeEnd, ProcessPackHeader, ProcessMpHeader, Abort,
        vars, flash, env
  <1>3. ASSUME NEW len \in 1 .. MaxBlock, ProcessBlock(len)
        PROVE  [Update!UpdateNext]_<<Other, Held, switched>>
    BY <1>1, <1>3 DEF ProcessBlock, flash, env
  <1>4. CASE FinalizeImage
    <2>1. /\ from' = from /\ stored' = stored /\ file' = file /\ active' = active
          /\ switched' = switched /\ i < sub_image_num /\ caller = "finalize"
      BY <1>4 DEF FinalizeImage, env
    <2>2. sub_image_num = file.num /\ sub_headers /\ i \in 0 .. file.num - 1
      BY <2>1, StepFacts DEF IInv, Finalizing, TypeInv, TypeOK
    <2>3. /\ InOtherBank(i) <=> i + 1 \in Other
          /\ \A j, k \in Other : file.id[j] = file.id[k] => j = k
      BY <2>2, StepFacts, OtherFacts DEF IInv
    <2>4. /\ InOtherBank(i) => ready' = ready \cup {file.id[i + 1]}
          /\ ~InOtherBank(i) => ready' = ready
      BY <1>4, <2>2 DEF FinalizeImage, Fitting, CanFail
    <2>5. CASE ~InOtherBank(i)
      BY <1>1, <2>1, <2>4, <2>5
    <2>6. CASE InOtherBank(i)
      <3>1. PICK k : k = i + 1
        OBVIOUS
      <3>2. k \in Other /\ Whole(k) /\ Other' = Other /\ ~switched
        BY <2>1, <2>3, <2>6, <3>1 DEF IInv, Finalizing, Control, Other
      <3>3. Held' = Held \cup {k}
        BY <2>1, <2>3, <2>4, <2>6, <3>1, <3>2 DEF Held, Whole
      <3> QED BY <2>1, <3>2, <3>3 DEF Update!UpdateNext, Update!Validate, Held
    <2> QED BY <2>5, <2>6
  <1>5. CASE Apply
    <2>1. ~switched /\ Reboot /\ UNCHANGED flash
      BY <1>5 DEF Apply, flash, IInv, Control
    <2> QED BY <2>1, RebootStep
  <1>7. CASE PowerLoss
    BY <1>7, RebootStep, TornReboot DEF PowerLoss
  <1>6. CASE ProcessPayload
    <2>1. file' = file /\ active' = active /\ switched' = switched /\ pc = "payload"
      BY <1>6 DEF ProcessPayload, env
    <2>2. ~switched /\ Other' = Other
      BY <2>1 DEF IInv, Control, Other
    <2>3. CASE state # "IMAGE_PAYLOAD"
      BY <1>1, <1>6, <2>1, <2>3 DEF ProcessPayload, flash
    <2>4. CASE state = "IMAGE_PAYLOAD"
      <3>1. PICK k : k = cur_image_index + 1
        OBVIOUS
      <3>2. \A j \in Other : j # k => (j \in Held' <=> j \in Held)
        BY <1>6, <2>1, <2>2, <2>4, <3>1, PayloadFlash DEF Held
      <3>3. Held \subseteq Other /\ Held' \subseteq Other
        BY <2>2 DEF Held
      <3>4. \/ Held' = Held
            \/ k \in Other /\ Held' = Held \cup {k}
            \/ k \in Other /\ k \in Held /\ Held' = Held \ {k}
        BY <3>2, <3>3
      <3> QED
        BY <2>1, <2>2, <3>4
        DEF Update!UpdateNext, Update!Validate, Update!Discard, Held
    <2> QED BY <2>3, <2>4
  <1> QED BY <1>2, <1>3, <1>4, <1>5, <1>6, <1>7 DEF Next, Step, Over

\* For files that fit the processor implements OtaUpdate, when dfu_checksum leaves
\* the ready bit alone: whatever the flash holds at a reboot, the boot loader finds
\* the new images all or nothing.
THEOREM Refinement == ASSUME Fitting PROVE Spec => UpdateRefinement
  <1>1. Init => Update!UpdateInit
    <2> SUFFICES ASSUME Init PROVE Held = {} /\ switched = FALSE
      BY DEF Update!UpdateInit, Held
    <2>1. /\ file \in Files /\ active \in {0, 1} /\ from = [x \in Id |-> 0]
          /\ file.num \in Nat \ {0}
      BY FileFacts DEF Init
    <2>2. \A k \in Other : k # 0 /\ file.id[k] \in Id
      BY <2>1, OtherFacts
    <2>3. \A k \in Other : ~Whole(k)
      BY <2>1, <2>2 DEF Whole
    <2> QED BY <2>3 DEF Held, Init
  <1>2. Init => Unmixed
    <2> SUFFICES ASSUME Init PROVE \A j \in Other : from[file.id[j]] = 0
      BY DEF Unmixed
    <2>1. file \in Files /\ active \in {0, 1} /\ from = [x \in Id |-> 0]
      BY DEF Init
    <2> QED BY <2>1, OtherFacts
  <1>3. IInv /\ Unmixed /\ [Next]_vars => Unmixed'
    BY UnmixedStep
  <1>4. IInv /\ Unmixed /\ [Next]_vars =>
           [checksum_readies \/ Update!UpdateNext]_(Update!updateVars)
    BY UpdateStep DEF Update!updateVars, Held
  <1> QED BY <1>1, <1>2, <1>3, <1>4, Invariance, PTL DEF Spec, UpdateRefinement
=============================================================================
