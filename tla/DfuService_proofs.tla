------------------------- MODULE DfuService_proofs -------------------------
(***************************************************************************)
(* What the operators of NorFlash and DfuFlash keep, for every flash and   *)
(* every layout: the shape of the flash, when it is protected, and which   *)
(* cells an operation can change.  Then what the commands of the service   *)
(* do to the flash and to the resend point, whoever sends them: the facts  *)
(* that the proofs about AnyClient and about SilentOta share.              *)
(***************************************************************************)
EXTENDS DfuService, FiniteSetTheorems, TLAPS

-----------------------------------------------------------------------------
(* Multiples and remainders.                                               *)

\* A number is its quotient times the divisor, and the remainder.
LEMMA Division ==
    ASSUME NEW a \in Nat, NEW n \in Nat \ {0}
    PROVE  /\ a \div n \in Nat
           /\ a = n * (a \div n) + (a % n)
           /\ a % n \in 0 .. n - 1
BY Z3

\* A product leaves no remainder.
LEMMA Multiple ==
    ASSUME NEW k \in Nat, NEW n \in Nat \ {0}
    PROVE  (n * k) % n = 0
BY Z3

\* Nor do the sum and the difference of two multiples.
LEMMA SumOfMultiples ==
    ASSUME NEW a \in Nat, NEW b \in Nat, NEW n \in Nat \ {0}, a % n = 0, b % n = 0
    PROVE  /\ (a + b) % n = 0
           /\ b <= a => (a - b) % n = 0
<1> DEFINE k == a \div n
           l == b \div n
<1>1. k \in Nat /\ a = n * k /\ l \in Nat /\ b = n * l
      BY Division
<1> HIDE DEF k, l
<1>2. a + b = n * (k + l) /\ k + l \in Nat
      BY <1>1, Z3
<1>3. ASSUME b <= a
      PROVE  a - b = n * (k - l) /\ k - l \in Nat
  <2>1. l <= k
        BY <1>1, <1>3, Z3
  <2>2. QED
        BY <1>1, <2>1, Z3
<1>4. QED
      BY <1>2, <1>3, Multiple

-----------------------------------------------------------------------------
(* The shape of the flash, and its protection.                             *)

\* The memory with one sector set to a content is a memory.
LEMMA SectorMem ==
    ASSUME NEW mem \in [Addr -> Content], NEW a, NEW c \in Content
    PROVE  WithSector(mem, a, c) \in [Addr -> Content]
BY DEF WithSector

\* Programming yields a content.
LEMMA ProgrammedType ==
    ASSUME NEW old \in Content, NEW new \in Content
    PROVE  Programmed(old, new) \in Content
BY DEF Programmed, Content

\* The memory with the first cells of the data programmed is a memory.
LEMMA DataMem ==
    ASSUME NEW mem \in [Addr -> Content], NEW start \in Nat,
           NEW data \in Seq(Content), NEW k \in 0 .. Len(data)
    PROVE  WithData(mem, start, data, k) \in [Addr -> Content]
<1>1. SUFFICES ASSUME NEW x \in Addr, x \in start .. start + k - 1
               PROVE  Programmed(mem[x], data[x - start + 1]) \in Content
      BY DEF WithData
<1>2. x - start + 1 \in 1 .. Len(data)
      BY <1>1, SMT DEF Addr
<1>3. data[x - start + 1] \in Content
      BY <1>2
<1>4. QED
      BY <1>3, ProgrammedType

\* A flash with its protection set either way is a flash.
LEMMA BpType ==
    ASSUME NEW n \in Flash
    PROVE  /\ lock_flash_bp(n) \in Flash /\ lock_flash_bp(n).bp = TRUE
           /\ unlock_flash_bp_all(n) \in Flash /\ unlock_flash_bp_all(n).bp = FALSE
           /\ lock_flash_bp(n).ready = n.ready
           /\ unlock_flash_bp_all(n).ready = n.ready
BY DEF Flash, lock_flash_bp, unlock_flash_bp_all

\* One more fault fits as long as CanFail holds, and changes nothing else.
LEMMA FaultyType ==
    ASSUME NEW n \in Flash, NEW kind, CanFail(n, kind), NEW m \in Flash, m.faults = n.faults
    PROVE  /\ Faulty(m) \in Flash
           /\ Faulty(m).mem = m.mem /\ Faulty(m).ready = m.ready /\ Faulty(m).bp = m.bp
<1>1. m.faults + 1 \in 0 .. MaxFaults
      BY FlashAssumption, SMT DEF Flash, CanFail
<1>2. QED
      BY <1>1 DEF Flash, Faulty

\* The outcomes of an operation that may leave the flash open and makes no header
\* ready but some of hs, of one that makes none ready, and of one that also protects
\* the flash.
OutcomeWith(n, hs) == {o \in [nor : Flash, ok : BOOLEAN] : o.nor.ready \subseteq n.ready \cup hs}
Outcome(n)         == {o \in [nor : Flash, ok : BOOLEAN] : o.nor.ready \subseteq n.ready}
LockedFrom(n)      == {o \in Outcome(n) : o.nor.bp = TRUE}

\* Where no header may become ready none does.
LEMMA OutcomeNone ==
    ASSUME NEW n, NEW o \in OutcomeWith(n, {})
    PROVE  o \in Outcome(n)
BY DEF OutcomeWith, Outcome

\* Failing or succeeding with a flash that has no more headers ready is an
\* outcome.
LEMMA ResultType ==
    ASSUME NEW n, NEW m \in Flash, m.ready \subseteq n.ready
    PROVE  /\ Failed(m) \in Outcome(n) /\ Failed(m).nor = m /\ Failed(m).ok = FALSE
           /\ Done(m) \in Outcome(n) /\ Done(m).nor = m /\ Done(m).ok = TRUE
BY DEF Failed, Done, Outcome

\* The flash with one sector set to a content.
LEMMA SectorSetType ==
    ASSUME NEW n \in Flash, NEW a, NEW c \in Content
    PROVE  /\ SectorSet(n, a, c) \in Flash
           /\ SectorSet(n, a, c).mem = WithSector(n.mem, a, c)
           /\ SectorSet(n, a, c).ready = n.ready \ SectorOf(a)
           /\ SectorSet(n, a, c).bp = n.bp /\ SectorSet(n, a, c).faults = n.faults
<1>1. n.mem \in [Addr -> Content] /\ n.ready \ SectorOf(a) \in SUBSET Addr
      BY DEF Flash
<1>2. WithSector(n.mem, a, c) \in [Addr -> Content]
      BY <1>1, SectorMem
<1>3. QED
      BY <1>1, <1>2 DEF Flash, SectorSet

\* A half erased flash is one, with the protection and the faults of before.
LEMMA HalfErasedType ==
    ASSUME NEW n \in Flash, NEW a, NEW h \in HalfErased(n, a)
    PROVE  /\ h \in Flash /\ h.bp = n.bp /\ h.faults = n.faults
           /\ h.ready \subseteq n.ready
<1>1. Torn \in Content
      BY DEF Content
<1>2. QED
      BY <1>1, SectorSetType DEF HalfErased

\* What dfu_flash_erase_sector may do: refuse, erase, or stop half way.
LEMMA EraseCases ==
    ASSUME NEW n \in Flash, NEW a, NEW o \in dfu_flash_erase_sector(n, a)
    PROVE  \/ o = Failed(n)
           \/ a % SECTOR = 0 /\ o = Done(SectorSet(n, a, Erased))
           \/ /\ a % SECTOR = 0 /\ CanFail(n, "erase")
              /\ \E h \in HalfErased(n, a) : o = Failed(Faulty(h))
BY DEF dfu_flash_erase_sector

\* The outcomes of erasing a sector: the protection stays, and no header gets
\* ready.
LEMMA EraseType ==
    ASSUME NEW n \in Flash, NEW a, NEW o \in dfu_flash_erase_sector(n, a)
    PROVE  /\ o \in Outcome(n)
           /\ o.nor.bp = n.bp
<1>1. CASE o = Failed(n)
      BY <1>1, ResultType
<1>2. CASE o = Done(SectorSet(n, a, Erased))
  <2>1. Erased \in Content
        BY DEF Content
  <2>2. PICK m : m = SectorSet(n, a, Erased)
        OBVIOUS
  <2>3. m \in Flash /\ m.ready \subseteq n.ready /\ m.bp = n.bp
        BY <2>1, <2>2, SectorSetType
  <2>4. QED
        BY <1>2, <2>2, <2>3, ResultType
<1>3. ASSUME CanFail(n, "erase"), NEW h \in HalfErased(n, a), o = Failed(Faulty(h))
      PROVE  o \in Outcome(n) /\ o.nor.bp = n.bp
  <2>1. h \in Flash /\ h.bp = n.bp /\ h.faults = n.faults /\ h.ready \subseteq n.ready
        BY HalfErasedType
  <2>2. Faulty(h) \in Flash /\ Faulty(h).ready = h.ready /\ Faulty(h).bp = h.bp
        BY <1>3, <2>1, FaultyType
  <2>3. QED
        BY <1>3, <2>1, <2>2, ResultType
<1>4. QED
      BY <1>1, <1>2, <1>3, EraseCases

\* The headers that the data itself sets ready, at the indices clear.
HeadersAt(start, clear) == {start + j - 1 : j \in clear}

\* From n to h some of the data got into the flash: some cells are programmed, the
\* next one may be spoilt, and at most the headers in the data are ready.
Written(h, n, start, data, clear) ==
    /\ h \in Flash /\ h.bp = n.bp
    /\ n.ready \subseteq h.ready /\ h.ready \subseteq n.ready \cup HeadersAt(start, clear)
    /\ \E k \in 0 .. Len(data) :
          \/ h.mem = WithData(n.mem, start, data, k)
          \/ /\ k < Len(data)
             /\ h.mem = [WithData(n.mem, start, data, k) EXCEPT ![start + k] = Torn]

\* The flash after the first cells of the data.
LEMMA ProgrammedUpToType ==
    ASSUME NEW n \in Flash, NEW start \in Nat, NEW data \in Seq(Content),
           NEW clear, NEW k \in 0 .. Len(data), NEW h, h = ProgrammedUpTo(n, start, data, clear, k)
    PROVE  /\ h \in Flash /\ h.bp = n.bp /\ h.faults = n.faults
           /\ h.mem = WithData(n.mem, start, data, k)
           /\ h.ready = Readied(n.ready, start, clear, k)
           /\ n.ready \subseteq h.ready /\ h.ready \subseteq n.ready \cup HeadersAt(start, clear)
<1>1. n.mem \in [Addr -> Content] /\ n.ready \in SUBSET Addr
      BY DEF Flash
<1>2. WithData(n.mem, start, data, k) \in [Addr -> Content]
      BY <1>1, DataMem
<1>3. /\ Readied(n.ready, start, clear, k) \in SUBSET Addr
      /\ n.ready \subseteq Readied(n.ready, start, clear, k)
      /\ Readied(n.ready, start, clear, k) \subseteq n.ready \cup HeadersAt(start, clear)
      BY <1>1 DEF Readied, HeadersAt
<1>4. /\ h \in Flash /\ h.bp = n.bp /\ h.faults = n.faults
      /\ h.mem = WithData(n.mem, start, data, k)
      /\ h.ready = Readied(n.ready, start, clear, k)
      BY <1>2, <1>3 DEF Flash, ProgrammedUpTo
<1>5. QED
      BY <1>3, <1>4

\* A write that stops half way left some of the data.
LEMMA HalfWrittenType ==
    ASSUME NEW n \in Flash, NEW start \in Nat, NEW data \in Seq(Content),
           NEW clear, NEW h \in HalfWritten(n, start, data, clear)
    PROVE  Written(h, n, start, data, clear) /\ h.faults = n.faults
<1>1. Len(data) \in Nat
      OBVIOUS
<1>2. PICK k \in 1 .. Len(data) :
           /\ start + k - 1 \in Addr
           /\ \/ h = ProgrammedUpTo(n, start, data, clear, k - 1)
              \/ h \in SpoiltAt(ProgrammedUpTo(n, start, data, clear, k - 1), start + k - 1,
                                IF k \in clear THEN {start + k - 1} ELSE {})
      BY Zenon DEF HalfWritten
<1>3. /\ k - 1 \in 0 .. Len(data) /\ k - 1 < Len(data) /\ start + (k - 1) = start + k - 1
      BY <1>1
<1>4. PICK upTo : upTo = ProgrammedUpTo(n, start, data, clear, k - 1)
      OBVIOUS
<1>5. /\ upTo \in Flash /\ upTo.bp = n.bp /\ upTo.faults = n.faults
      /\ upTo.mem = WithData(n.mem, start, data, k - 1)
      /\ n.ready \subseteq upTo.ready /\ upTo.ready \subseteq n.ready \cup HeadersAt(start, clear)
      BY <1>3, <1>4, ProgrammedUpToType
<1>6. CASE h = upTo
      BY <1>3, <1>5, <1>6 DEF Written
<1>7. CASE h \in SpoiltAt(upTo, start + k - 1, IF k \in clear THEN {start + k - 1} ELSE {})
  <2>1. PICK b \in SUBSET (IF k \in clear THEN {start + k - 1} ELSE {}) :
             h = [upTo EXCEPT !.mem[start + k - 1] = Torn, !.ready = @ \cup b]
        BY <1>7, Zenon DEF SpoiltAt
  <2>2. b \subseteq Addr /\ b \subseteq HeadersAt(start, clear)
        BY <1>2 DEF HeadersAt
  <2>3. [upTo.mem EXCEPT ![start + k - 1] = Torn] \in [Addr -> Content]
        BY <1>5 DEF Flash, Content
  <2>4. upTo.ready \cup b \in SUBSET Addr
        BY <1>5, <2>2 DEF Flash
  <2>5. /\ h \in Flash /\ h.bp = n.bp /\ h.faults = n.faults
        /\ h.mem = [upTo.mem EXCEPT ![start + k - 1] = Torn]
        /\ h.ready = upTo.ready \cup b
        BY <1>5, <2>1, <2>3, <2>4 DEF Flash
  <2>6. n.ready \subseteq h.ready /\ h.ready \subseteq n.ready \cup HeadersAt(start, clear)
        BY <1>5, <2>2, <2>5
  <2>7. h.mem = [WithData(n.mem, start, data, k - 1) EXCEPT ![start + (k - 1)] = Torn]
        BY <1>3, <1>5, <2>5
  <2>8. QED
        BY <1>3, <2>5, <2>6, <2>7 DEF Written
<1>8. QED
      BY <1>2, <1>4, <1>6, <1>7

\* Every outcome of a write left some of the data, and one that succeeds left
\* it all, read back.
LEMMA WriteLeft ==
    ASSUME NEW n \in Flash, NEW start \in Nat, NEW data \in Seq(Content),
           NEW clear, NEW o \in dfu_write(n, start, data, clear)
    PROVE  /\ Written(o.nor, n, start, data, clear)
           /\ o = [nor |-> o.nor, ok |-> o.ok] /\ o.ok \in BOOLEAN
           /\ o.ok => /\ o.nor = ProgrammedUpTo(n, start, data, clear, Len(data))
                      /\ Verified(n, start, data, clear, Len(data))
<1>1. Len(data) \in Nat /\ 0 \in 0 .. Len(data)
      OBVIOUS
<1>2. ASSUME NEW k \in 0 .. Len(data)
      PROVE  Written(ProgrammedUpTo(n, start, data, clear, k), n, start, data, clear)
  <2>1. PICK h : h = ProgrammedUpTo(n, start, data, clear, k)
        OBVIOUS
  <2>2. QED
        BY <2>1, ProgrammedUpToType DEF Written
<1>3. CASE o = Failed(n)
  <2>1. n.mem = WithData(n.mem, start, data, 0)
    <3>1. \A x \in Addr : x \notin start .. start + 0 - 1
          BY DEF Addr
    <3>2. QED
          BY <3>1 DEF WithData, Flash
  <2>2. QED
        BY <1>1, <1>3, <2>1 DEF Written, Failed
<1>4. ASSUME NEW k \in 1 .. Len(data), o = Failed(ProgrammedUpTo(n, start, data, clear, k))
      PROVE  Written(o.nor, n, start, data, clear)
  <2>1. k \in 0 .. Len(data)
        BY <1>1
  <2>2. QED
        BY <1>2, <1>4, <2>1 DEF Failed
<1>5. CASE /\ Verified(n, start, data, clear, Len(data))
           /\ o = Done(ProgrammedUpTo(n, start, data, clear, Len(data)))
  <2>1. Len(data) \in 0 .. Len(data)
        BY <1>1
  <2>2. QED
        BY <1>2, <1>5, <2>1 DEF Done
<1>6. ASSUME CanFail(n, "program"), NEW h \in HalfWritten(n, start, data, clear),
             o = Failed(Faulty(h))
      PROVE  Written(o.nor, n, start, data, clear)
  <2>1. Written(h, n, start, data, clear) /\ h.faults = n.faults
        BY HalfWrittenType
  <2>2. h \in Flash
        BY <2>1 DEF Written
  <2>3. /\ Faulty(h) \in Flash
        /\ Faulty(h).mem = h.mem /\ Faulty(h).ready = h.ready /\ Faulty(h).bp = h.bp
        BY <1>6, <2>1, <2>2, FaultyType
  <2>4. o.nor = Faulty(h)
        BY <1>6 DEF Failed
  <2>5. QED
        BY <2>1, <2>3, <2>4 DEF Written
<1>7. \/ o = Failed(n)
      \/ \E k \in 1 .. Len(data) : o = Failed(ProgrammedUpTo(n, start, data, clear, k))
      \/ /\ Verified(n, start, data, clear, Len(data))
         /\ o = Done(ProgrammedUpTo(n, start, data, clear, Len(data)))
      \/ /\ CanFail(n, "program")
         /\ \E h \in HalfWritten(n, start, data, clear) : o = Failed(Faulty(h))
  <2>1. CASE o \in CleanWrite(n, start, data, clear)
        BY <2>1 DEF CleanWrite
  <2>2. CASE o \in FaultyWrite(n, start, data, clear)
        BY <2>2 DEF FaultyWrite
  <2>3. QED
        BY <2>1, <2>2 DEF dfu_write
<1>8. ASSUME NEW w, o = Failed(w)
      PROVE  o = [nor |-> o.nor, ok |-> o.ok] /\ o.ok = FALSE
      BY <1>8 DEF Failed
<1>9. QED
  <2>1. CASE o = Failed(n)
        BY <1>3, <1>8, <2>1
  <2>2. CASE \E k \in 1 .. Len(data) : o = Failed(ProgrammedUpTo(n, start, data, clear, k))
        BY <1>4, <1>8, <2>2
  <2>3. CASE /\ Verified(n, start, data, clear, Len(data))
             /\ o = Done(ProgrammedUpTo(n, start, data, clear, Len(data)))
        BY <1>5, <2>3 DEF Done
  <2>4. CASE /\ CanFail(n, "program")
             /\ \E h \in HalfWritten(n, start, data, clear) : o = Failed(Faulty(h))
        BY <1>6, <1>8, <2>4
  <2>5. QED
        BY <1>7, <2>1, <2>2, <2>3, <2>4

\* Writing keeps the protection as it is, and sets no header ready but those in
\* the data.
LEMMA WriteType ==
    ASSUME NEW n \in Flash, NEW start \in Nat, NEW data \in Seq(Content),
           NEW clear, NEW o \in dfu_write(n, start, data, clear)
    PROVE  /\ o \in OutcomeWith(n, HeadersAt(start, clear))
           /\ o.nor.bp = n.bp
BY WriteLeft DEF Written, OutcomeWith

\* Erasing ahead of a write sets no header ready.
LEMMA AheadType ==
    ASSUME NEW n \in Flash, NEW start, NEW length, NEW e \in EraseAhead(n, start, length)
    PROVE  e \in Outcome(n)
<1>1. unlock_flash_bp_all(n) \in Flash /\ unlock_flash_bp_all(n).ready = n.ready
      BY BpType
<1>2. CASE e = Done(unlock_flash_bp_all(n))
      BY <1>1, <1>2, ResultType
<1>3. CASE \E a : e \in dfu_flash_erase_sector(unlock_flash_bp_all(n), a)
      BY <1>1, <1>3, EraseType DEF Outcome
<1>4. QED
      BY <1>2, <1>3 DEF EraseAhead

\* The data may pass the check of its length.
Fitting(id, offset, data) == \E fits \in check_dfu_update_image_length(id, offset, data) : fits

\* An update that passed it ends with a failed erase, or with an outcome of the
\* write, after which it protects the flash.
UpdateEnds(o, n, start, data, clear) ==
    \/ o \in EraseAhead(n, start, Len(data)) /\ ~o.ok
    \/ \E e \in EraseAhead(n, start, Len(data)) :
         e.ok /\ \E w \in dfu_write(e.nor, start, data, clear) : o = [w EXCEPT !.nor = lock_flash_bp(@)]

\* How an update can end: refused, or so.
LEMMA UpdateCases ==
    ASSUME NEW n, NEW id, NEW offset, NEW total_offset, NEW data,
           NEW o \in dfu_update(n, id, offset, total_offset, data),
           NEW start, start = StartAddr(id, offset, total_offset)
    PROVE  \/ o = Failed(n)
           \/ /\ TempBase[id] # 0 /\ Fitting(id, offset, data)
              /\ UpdateEnds(o, n, start, data, SentReady(offset, data))
<1> DEFINE ends == {e \in EraseAhead(n, start, Len(data)) : ~e.ok}
                   \cup {[w EXCEPT !.nor = lock_flash_bp(@)] :
                           w \in UNION {dfu_write(e.nor, start, data, SentReady(offset, data)) :
                                          e \in {x \in EraseAhead(n, start, Len(data)) : x.ok}}}
           checks == check_dfu_update_image_length(id, offset, data)
<1>1. o = Failed(n) \/ (TempBase[id] # 0 /\ \E fits \in checks : fits /\ o \in ends)
  <2>1. \/ o = Failed(n)
        \/ TempBase[id] # 0 /\ o \in UNION {IF fits THEN ends ELSE {Failed(n)} : fits \in checks}
        BY DEF dfu_update, Refused
  <2> HIDE DEF ends, checks
  <2>2. QED
        BY <2>1
<1>2. o \in ends => UpdateEnds(o, n, start, data, SentReady(offset, data))
      BY DEF UpdateEnds
<1> HIDE DEF ends
<1>3. QED
      BY <1>1, <1>2 DEF checks, Fitting

\* An update of an image id without a bank does nothing.
LEMMA UpdateNoBank ==
    ASSUME NEW n, NEW id, NEW offset, NEW total_offset, NEW data,
           NEW o \in dfu_update(n, id, offset, total_offset, data),
           TempBase[id] = 0
    PROVE  o.nor = n
<1>1. o = Failed(n)
      BY DEF dfu_update, Refused
<1>2. QED
      BY <1>1 DEF Failed

\* The headers that an update may set ready by the data it writes.
HeadersSent(id, offset, total_offset, data) ==
    HeadersAt(StartAddr(id, offset, total_offset), SentReady(offset, data))

\* A number cut to the width of an address is an address.
LEMMA WrapType ==
    ASSUME NEW a \in Nat
    PROVE  a % Wrap \in Nat
<1>1. Wrap \in Nat \ {0}
      BY ImageAssumption, FlashAssumption
<1>2. QED
      BY <1>1, Z3

\* A sum of offsets is an offset.
LEMMA StartType ==
    ASSUME NEW id \in ImageId, NEW offset \in Nat, NEW total_offset \in Nat
    PROVE  StartAddr(id, offset, total_offset) \in Nat
<1>1. PICK a \in Nat : a = TempBase[id] + offset + total_offset
      BY ImageAssumption
<1>2. a % Wrap \in Nat
      BY WrapType
<1>3. QED
      BY <1>1, <1>2 DEF StartAddr

\* An update that succeeds has protected the flash again; one that fails may
\* have left it open.
LEMMA UpdateType ==
    ASSUME NEW n \in Flash, NEW id \in ImageId, NEW offset \in Nat, NEW total_offset \in Nat,
           NEW data \in Seq(Content), NEW o \in dfu_update(n, id, offset, total_offset, data)
    PROVE  /\ o \in OutcomeWith(n, HeadersSent(id, offset, total_offset, data))
           /\ o.ok => o.nor.bp = TRUE
<1>1. PICK start \in Nat : start = StartAddr(id, offset, total_offset)
      BY StartType
<1>2. PICK clear : clear = SentReady(offset, data)
      OBVIOUS
<1>3. ASSUME o = Failed(n)
      PROVE  o \in OutcomeWith(n, HeadersAt(start, clear))
      BY <1>3 DEF Failed, OutcomeWith
<1>4. ASSUME o \in EraseAhead(n, start, Len(data))
      PROVE  o \in OutcomeWith(n, HeadersAt(start, clear))
      BY <1>4, AheadType DEF Outcome, OutcomeWith
<1>5. ASSUME NEW e \in EraseAhead(n, start, Len(data)),
             NEW w \in dfu_write(e.nor, start, data, clear), o = [w EXCEPT !.nor = lock_flash_bp(@)]
      PROVE  o \in OutcomeWith(n, HeadersAt(start, clear)) /\ o.nor.bp = TRUE
  <2>1. e.nor \in Flash /\ e.nor.ready \subseteq n.ready
        BY AheadType DEF Outcome
  <2>2. w \in OutcomeWith(e.nor, HeadersAt(start, clear))
        BY <2>1, WriteType
  <2>3. /\ lock_flash_bp(w.nor) \in Flash /\ lock_flash_bp(w.nor).bp = TRUE
        /\ lock_flash_bp(w.nor).ready = w.nor.ready
        BY <2>2, BpType DEF OutcomeWith
  <2>4. o = [nor |-> lock_flash_bp(w.nor), ok |-> w.ok]
        BY <1>5, <2>2 DEF OutcomeWith
  <2>5. QED
        BY <2>1, <2>2, <2>3, <2>4 DEF OutcomeWith
<1>6. o = Failed(n) \/ UpdateEnds(o, n, start, data, clear)
      BY <1>1, <1>2, UpdateCases
<1>7. QED
  <2>1. o = Failed(n) => ~o.ok
        BY DEF Failed
  <2>2. o \in OutcomeWith(n, HeadersAt(start, clear)) /\ (o.ok => o.nor.bp = TRUE)
        BY <1>2, <1>3, <1>4, <1>5, <1>6, <2>1 DEF UpdateEnds
  <2>3. QED
        BY <1>1, <1>2, <2>2 DEF HeadersSent

\* What data without such headers cannot do.
LEMMA NoneSent ==
    ASSUME Released = {}, NEW id, NEW offset, NEW total_offset, NEW data
    PROVE  SentReady(offset, data) = {} /\ HeadersSent(id, offset, total_offset, data) = {}
BY DEF SentReady, HeadersSent, HeadersAt

\* How the power can go in an update: in the erase, or in the write behind it.
LEMMA CutCases ==
    ASSUME NEW n, NEW id, NEW offset, NEW total_offset, NEW data,
           NEW u \in UpdateCut(n, id, offset, total_offset, data),
           NEW start, start = StartAddr(id, offset, total_offset)
    PROVE  /\ ~Refused(id, data) /\ Fitting(id, offset, data)
           /\ \/ \E a \in SectorToErase(start, Len(data)) : u \in HalfErased(unlock_flash_bp_all(n), a)
              \/ \E e \in EraseAhead(n, start, Len(data)) :
                   e.ok /\ u \in HalfWritten(e.nor, start, data, SentReady(offset, data))
<1> DEFINE checks == check_dfu_update_image_length(id, offset, data)
           halves == UNION {HalfErased(unlock_flash_bp_all(n), a) :
                              a \in SectorToErase(StartAddr(id, offset, total_offset), Len(data))}
           writes == UNION {HalfWritten(e.nor, StartAddr(id, offset, total_offset), data,
                                        SentReady(offset, data)) :
                              e \in {x \in EraseAhead(n, StartAddr(id, offset, total_offset), Len(data)) : x.ok}}
<1>1. UpdateCut(n, id, offset, total_offset, data) =
         IF Refused(id, data) \/ TRUE \notin checks THEN {} ELSE halves \cup writes
      BY Zenon DEF UpdateCut
<1> HIDE DEF checks, halves, writes
<1>2. ~Refused(id, data) /\ TRUE \in checks /\ (u \in halves \/ u \in writes)
      BY <1>1
<1>3. QED
      BY <1>2, Zenon DEF checks, halves, writes, Fitting

\* A flash whose update was cut is a flash.
LEMMA CutType ==
    ASSUME NEW n \in Flash, NEW id \in ImageId, NEW offset \in Nat, NEW total_offset \in Nat,
           NEW data \in Seq(Content), NEW u \in UpdateCut(n, id, offset, total_offset, data)
    PROVE  u \in Flash /\ u.ready \subseteq n.ready \cup HeadersSent(id, offset, total_offset, data)
<1>1. PICK start \in Nat : start = StartAddr(id, offset, total_offset)
      BY StartType
<1>2. CASE \E a : u \in HalfErased(unlock_flash_bp_all(n), a)
      BY <1>2, BpType, HalfErasedType
<1>3. ASSUME NEW e \in EraseAhead(n, start, Len(data)),
             u \in HalfWritten(e.nor, start, data, SentReady(offset, data))
      PROVE  u \in Flash /\ u.ready \subseteq n.ready \cup HeadersAt(start, SentReady(offset, data))
  <2>1. e.nor \in Flash /\ e.nor.ready \subseteq n.ready
        BY AheadType DEF Outcome
  <2>2. PICK clear : clear = SentReady(offset, data)
        OBVIOUS
  <2>3. Written(u, e.nor, start, data, clear)
        BY <1>3, <2>1, <2>2, HalfWrittenType
  <2>4. QED
        BY <2>1, <2>2, <2>3 DEF Written
<1>4. QED
      BY <1>1, <1>2, <1>3, CutCases DEF HeadersSent

\* Each round of the retry loop protects the flash.
LEMMA RoundType ==
    ASSUME NEW n \in Flash, NEW a
    PROVE  EraseRound(n, a) \subseteq LockedFrom(n)
<1> SUFFICES ASSUME NEW o \in EraseRound(n, a)
             PROVE  o \in LockedFrom(n)
    OBVIOUS
<1>1. unlock_flash_bp_all(n) \in Flash /\ unlock_flash_bp_all(n).ready = n.ready
      BY BpType
<1>2. PICK e \in dfu_flash_erase_sector(unlock_flash_bp_all(n), a) :
             o = [nor |-> lock_flash_bp(e.nor), ok |-> dfu_flash_check_blank(e.nor, a)]
      BY DEF EraseRound
<1>3. e.nor \in Flash /\ e.nor.ready \subseteq n.ready
      BY <1>1, <1>2, EraseType DEF Outcome
<1>4. /\ lock_flash_bp(e.nor) \in Flash /\ lock_flash_bp(e.nor).bp = TRUE
      /\ lock_flash_bp(e.nor).ready \subseteq n.ready
      BY <1>3, BpType
<1>5. dfu_flash_check_blank(e.nor, a) \in BOOLEAN
      BY DEF dfu_flash_check_blank
<1>6. QED
      BY <1>2, <1>4, <1>5 DEF Outcome, LockedFrom

\* So does repeating it for the rounds that failed.
LEMMA AgainType ==
    ASSUME NEW n \in Flash, NEW a, NEW outcomes \in SUBSET LockedFrom(n)
    PROVE  EraseAgain(outcomes, a) \subseteq LockedFrom(n)
<1> SUFFICES ASSUME NEW o \in EraseAgain(outcomes, a)
             PROVE  o \in LockedFrom(n)
    OBVIOUS
<1>1. CASE o \in outcomes
      BY <1>1
<1>2. CASE \E p \in outcomes : o \in EraseRound(p.nor, a)
  <2>1. PICK p \in outcomes : o \in EraseRound(p.nor, a)
        BY <1>2
  <2>2. p.nor \in Flash /\ p.nor.ready \subseteq n.ready
        BY DEF LockedFrom, Outcome
  <2>3. o \in LockedFrom(p.nor)
        BY <2>1, <2>2, RoundType
  <2>4. QED
        BY <2>2, <2>3 DEF LockedFrom, Outcome
<1>3. QED
      BY <1>1, <1>2 DEF EraseAgain

\* However the retries end, the flash is protected behind them; for an image
\* id without a bank nothing happens.
LEMMA RetryType ==
    ASSUME NEW n \in Flash, NEW id, NEW offset,
           NEW o \in dfu_flash_erase_sector_with_retry(n, id, offset)
    PROVE  /\ o \in Outcome(n)
           /\ TempBase[id] # 0 => o.nor.bp = TRUE
           /\ TempBase[id] = 0 => o.nor = n
<1> DEFINE a == (TempBase[id] + offset) % Wrap
<1>1. CASE TempBase[id] = 0
  <2>1. o = Failed(n)
        BY <1>1 DEF dfu_flash_erase_sector_with_retry
  <2>2. QED
        BY <1>1, <2>1, ResultType
<1>2. CASE TempBase[id] # 0
  <2>1. EraseAgain(EraseAgain(EraseRound(n, a), a), a) \subseteq LockedFrom(n)
        BY RoundType, AgainType
  <2>2. o \in LockedFrom(n)
        BY <1>2, <2>1 DEF dfu_flash_erase_sector_with_retry
  <2>3. QED
        BY <1>2, <2>2 DEF LockedFrom
<1>3. QED
      BY <1>1, <1>2

\* Clearing not_ready of some headers sets at most these ready.
LEMMA ClearType ==
    ASSUME NEW n \in Flash, NEW hs \in SUBSET Addr, NEW w \in ClearNotReady(n, hs)
    PROVE  /\ w \in Flash
           /\ w.bp = n.bp
           /\ w.ready \subseteq n.ready \cup hs
<1>1. CASE w = n
      BY <1>1
<1>2. ASSUME NEW bad \in SUBSET hs,
             bad # {} => n.faults + Cardinality(bad) <= MaxFaults,
             w = [n EXCEPT !.mem    = [x \in Addr |-> IF x \in hs \ bad THEN
                                          (IF @[x] = Erased THEN Torn ELSE @[x]) ELSE @[x]],
                           !.ready  = @ \cup (hs \ bad),
                           !.faults = @ + Cardinality(bad)]
      PROVE  w \in Flash /\ w.bp = n.bp /\ w.ready \subseteq n.ready \cup hs
  <2>1. IsFiniteSet(bad)
    <3>1. IsFiniteSet(Addr)
          BY FS_Interval, FlashAssumption DEF Addr
    <3>2. QED
          BY <3>1, FS_Subset
  <2>2. /\ Cardinality(bad) \in Nat
        /\ bad = {} => Cardinality(bad) = 0
        BY <2>1, FS_CardinalityType, FS_EmptySet
  <2>3. n.faults \in 0 .. MaxFaults /\ n.mem \in [Addr -> Content] /\ n.ready \in SUBSET Addr
        BY DEF Flash
  <2>4. n.faults + Cardinality(bad) \in 0 .. MaxFaults
        BY <1>2, <2>2, <2>3, FlashAssumption
  <2>5. [x \in Addr |-> IF x \in hs \ bad THEN (IF n.mem[x] = Erased THEN Torn ELSE n.mem[x])
                        ELSE n.mem[x]] \in [Addr -> Content]
        BY <2>3 DEF Content
  <2>6. PICK m \in [Addr -> Content] :
             m = [x \in Addr |-> IF x \in hs \ bad THEN (IF n.mem[x] = Erased THEN Torn ELSE n.mem[x])
                                 ELSE n.mem[x]]
        BY <2>5
  <2>7. PICK f \in 0 .. MaxFaults : f = n.faults + Cardinality(bad)
        BY <2>4
  <2>8. w = [n EXCEPT !.mem = m, !.ready = @ \cup (hs \ bad), !.faults = f]
        BY <1>2, <2>6, <2>7
  <2>9. QED
        BY <2>3, <2>8 DEF Flash
<1>3. QED
  <2> DEFINE Clears(bad) ==
          /\ bad # {} => n.faults + Cardinality(bad) <= MaxFaults
          /\ w = [n EXCEPT !.mem    = [x \in Addr |-> IF x \in hs \ bad THEN
                                          (IF @[x] = Erased THEN Torn ELSE @[x]) ELSE @[x]],
                           !.ready  = @ \cup (hs \ bad),
                           !.faults = @ + Cardinality(bad)]
  <2>1. w = n \/ \E bad \in SUBSET hs : Clears(bad)
        BY Zenon DEF ClearNotReady
  <2>2. ASSUME NEW bad \in SUBSET hs, Clears(bad)
        PROVE  w \in Flash /\ w.bp = n.bp /\ w.ready \subseteq n.ready \cup hs
        BY <1>2, <2>2, Zenon
  <2> HIDE DEF Clears
  <2>3. QED
        BY <1>1, <2>1, <2>2

\* Setting headers ready sets at most these ready, and the flash is protected
\* when it was.
LEMMA ReadyType ==
    ASSUME NEW n \in Flash, NEW hs \in SUBSET Addr, NEW w \in dfu_set_image_ready(n, hs)
    PROVE  /\ w \in Flash
           /\ n.bp = TRUE => w.bp = TRUE
           /\ w.ready \subseteq n.ready \cup hs
<1>1. CASE hs = {}
      BY <1>1 DEF dfu_set_image_ready
<1>2. CASE hs # {}
  <2>1. PICK v \in ClearNotReady(unlock_flash_bp_all(n), hs) : w = lock_flash_bp(v)
        BY <1>2 DEF dfu_set_image_ready
  <2>2. /\ unlock_flash_bp_all(n) \in Flash
        /\ unlock_flash_bp_all(n).ready = n.ready
        BY BpType
  <2>3. v \in Flash /\ v.ready \subseteq n.ready \cup hs
        BY <2>1, <2>2, ClearType
  <2>4. QED
        BY <2>1, <2>3, BpType
<1>3. QED
      BY <1>1, <1>2

-----------------------------------------------------------------------------
(* Which cells an operation changes.                                       *)

\* The sector of an address that starts one.
LEMMA SectorRange ==
    ASSUME NEW a \in Nat, a % SECTOR = 0, NEW x \in SectorOf(a)
    PROVE  x \in a .. a + SECTOR - 1
<1>1. SECTOR \in Nat \ {0} /\ x \in Nat /\ x \div SECTOR = a \div SECTOR
      BY FlashAssumption DEF SectorOf, Addr
<1>2. /\ a = SECTOR * (a \div SECTOR) + (a % SECTOR)
      /\ x = SECTOR * (x \div SECTOR) + (x % SECTOR)
      /\ x % SECTOR \in 0 .. SECTOR - 1
      BY <1>1, Division
<1>3. PICK p : p = SECTOR * (a \div SECTOR)
      OBVIOUS
<1>4. a = p + (a % SECTOR) /\ x = p + (x % SECTOR)
      BY <1>1, <1>2, <1>3
<1>5. PICK r : r = x % SECTOR
      OBVIOUS
<1>6. a = p + 0 /\ x = p + r /\ r \in 0 .. SECTOR - 1
      BY <1>2, <1>4, <1>5
<1>7. p = a
      BY <1>2, <1>3, <1>6, Z3
<1>8. QED
      BY <1>1, <1>6, <1>7

\* Two flashes are alike at an address: the content is the same, and a header
\* there is ready in both or in none.
Alike(w, n, x) == w.mem[x] = n.mem[x] /\ (x \in w.ready <=> x \in n.ready)

\* Setting a sector changes nothing outside it.
LEMMA SectorSetCells ==
    ASSUME NEW n \in Flash, NEW a \in Nat, a % SECTOR = 0, NEW c \in Content,
           NEW x \in Addr, x \notin a .. a + SECTOR - 1
    PROVE  Alike(SectorSet(n, a, c), n, x)
<1>1. x \notin SectorOf(a)
      BY SectorRange
<1>2. /\ SectorSet(n, a, c).mem = WithSector(n.mem, a, c)
      /\ SectorSet(n, a, c).ready = n.ready \ SectorOf(a)
      BY SectorSetType
<1>3. QED
      BY <1>1, <1>2 DEF WithSector, Alike

\* Nor does half erasing it.
LEMMA HalfErasedCells ==
    ASSUME NEW n \in Flash, NEW a \in Nat, a % SECTOR = 0, NEW h \in HalfErased(n, a),
           NEW x \in Addr, x \notin a .. a + SECTOR - 1
    PROVE  Alike(h, n, x)
<1>1. Torn \in Content
      BY DEF Content
<1>2. QED
      BY <1>1, SectorSetCells DEF HalfErased, Alike

\* Erasing changes nothing outside the sector.
LEMMA EraseCells ==
    ASSUME NEW n \in Flash, NEW a \in Nat, NEW o \in dfu_flash_erase_sector(n, a),
           NEW x \in Addr, x \notin a .. a + SECTOR - 1
    PROVE  Alike(o.nor, n, x)
<1>1. CASE o = Failed(n)
      BY <1>1 DEF Failed, Alike
<1>2. CASE a % SECTOR = 0 /\ o = Done(SectorSet(n, a, Erased))
  <2>1. Erased \in Content
        BY DEF Content
  <2>2. o.nor = SectorSet(n, a, Erased)
        BY <1>2 DEF Done
  <2>3. QED
        BY <1>2, <2>1, <2>2, SectorSetCells
<1>3. ASSUME a % SECTOR = 0, CanFail(n, "erase"), NEW h \in HalfErased(n, a), o = Failed(Faulty(h))
      PROVE  Alike(o.nor, n, x)
  <2>1. h \in Flash /\ h.faults = n.faults
        BY HalfErasedType
  <2>2. Faulty(h).mem = h.mem /\ Faulty(h).ready = h.ready
        BY <1>3, <2>1, FaultyType
  <2>3. o.nor = Faulty(h)
        BY <1>3 DEF Failed
  <2>4. Alike(h, n, x)
        BY <1>3, HalfErasedCells
  <2>5. QED
        BY <2>2, <2>3, <2>4 DEF Alike
<1>4. QED
      BY <1>1, <1>2, <1>3, EraseCases

\* What got into the flash of the data changes nothing outside the data.
LEMMA WrittenCells ==
    ASSUME NEW n \in Flash, NEW start \in Nat, NEW data \in Seq(Content),
           NEW clear \in SUBSET (1 .. Len(data)), NEW h, Written(h, n, start, data, clear),
           NEW x \in Addr, x \notin start .. start + Len(data) - 1
    PROVE  Alike(h, n, x)
<1>1. Len(data) \in Nat /\ x \in Nat
      BY DEF Addr
<1>2. ASSUME NEW k \in 0 .. Len(data)
      PROVE  WithData(n.mem, start, data, k)[x] = n.mem[x]
  <2>1. x \notin start .. start + k - 1
        BY <1>1, <1>2
  <2>2. QED
        BY <2>1 DEF WithData
<1>3. ASSUME NEW k \in 0 .. Len(data), k < Len(data)
      PROVE  [WithData(n.mem, start, data, k) EXCEPT ![start + k] = Torn][x] = n.mem[x]
  <2>1. x # start + k
        BY <1>1, <1>3
  <2>2. x \in DOMAIN WithData(n.mem, start, data, k)
        BY DEF WithData
  <2>3. QED
        BY <1>2, <2>1, <2>2
<1>4. h.mem[x] = n.mem[x]
      BY <1>2, <1>3 DEF Written
<1>5. x \notin HeadersAt(start, clear)
      BY <1>1 DEF HeadersAt
<1>6. QED
      BY <1>4, <1>5 DEF Written, Alike

\* A write that succeeds leaves the data there.
LEMMA WriteCells ==
    ASSUME NEW n \in Flash, NEW start \in Nat, NEW data \in Seq(Content),
           NEW clear, NEW o \in dfu_write(n, start, data, clear), o.ok,
           NEW k \in 1 .. Len(data)
    PROVE  start + k - 1 \in Addr /\ o.nor.mem[start + k - 1] = data[k]
<1>1. Len(data) \in Nat /\ Len(data) \in 0 .. Len(data)
      OBVIOUS
<1>2. /\ o.nor = ProgrammedUpTo(n, start, data, clear, Len(data))
      /\ Verified(n, start, data, clear, Len(data))
      BY WriteLeft
<1>3. o.nor.mem = WithData(n.mem, start, data, Len(data))
      BY <1>1, <1>2, ProgrammedUpToType
<1>4. ReadsBack(n, start, data, clear, k)
      BY <1>2 DEF Verified
<1>5. /\ start + k - 1 \in Addr
      /\ Programmed(n.mem[start + k - 1], data[k]) = data[k]
      BY <1>4 DEF ReadsBack
<1>6. /\ start + k - 1 \in start .. start + Len(data) - 1
      /\ (start + k - 1) - start + 1 = k
      BY <1>1
<1>7. WithData(n.mem, start, data, Len(data))[start + k - 1] = Programmed(n.mem[start + k - 1], data[k])
      BY <1>5, <1>6 DEF WithData
<1>8. QED
      BY <1>3, <1>5, <1>7

\* Different multiples are at least the divisor apart.
LEMMA MultiplesApart ==
    ASSUME NEW a \in Nat, NEW b \in Nat, NEW n \in Nat \ {0}, a % n = 0, b % n = 0, a < b
    PROVE  a + n <= b
<1> DEFINE k == a \div n
           l == b \div n
<1>1. k \in Nat /\ a = n * k /\ l \in Nat /\ b = n * l
      BY Division
<1> HIDE DEF k, l
<1>2. k + 1 <= l
      BY <1>1, Z3
<1>3. QED
      BY <1>1, <1>2, Z3

\* A number below the width of an address is not cut.
LEMMA NoWrap ==
    ASSUME NEW a \in Nat, a < Wrap
    PROVE  a % Wrap = a
<1>1. Wrap \in Nat
      BY ImageAssumption
<1>2. QED
      BY <1>1, Z3

\* Addresses of sectors to erase are numbers.
LEMMA SectorToEraseType ==
    ASSUME NEW start \in Nat, NEW length \in Nat, NEW e \in SectorToErase(start, length)
    PROVE  e \in Nat
<1>1. SECTOR \in Nat \ {0}
      BY FlashAssumption
<1>2. PICK end \in Nat : end = (start + length) % Wrap
  <2>1. start + length \in Nat
        OBVIOUS
  <2>2. QED
        BY <2>1, WrapType
<1>3. PICK q \in Nat : q = end \div SECTOR
      BY <1>1, Division
<1>4. e = start \/ e = q * SECTOR
      BY <1>2, <1>3 DEF SectorToErase
<1>5. q * SECTOR \in Nat
      BY <1>1
<1>6. QED
      BY <1>4, <1>5

\* They start a sector.
LEMMA SectorToEraseStart ==
    ASSUME NEW start \in Nat, NEW length \in Nat, NEW e \in SectorToErase(start, length)
    PROVE  e % SECTOR = 0
<1>1. SECTOR \in Nat \ {0}
      BY FlashAssumption
<1>2. PICK end \in Nat : end = (start + length) % Wrap
  <2>1. start + length \in Nat
        OBVIOUS
  <2>2. QED
        BY <2>1, WrapType
<1>3. PICK q \in Nat : q = end \div SECTOR
      BY <1>1, Division
<1>4. CASE start % SECTOR = 0
      BY <1>4 DEF SectorToErase
<1>5. CASE start % SECTOR # 0
  <2>1. e = q * SECTOR
        BY <1>2, <1>3, <1>5 DEF SectorToErase
  <2>2. e = SECTOR * q
        BY <1>1, <2>1
  <2>3. QED
        BY <1>1, <2>2, Multiple
<1>6. QED
      BY <1>4, <1>5

\* The sector that an update erases lies behind the start of the data, and
\* within the bank that the data lies in.
LEMMA SectorToEraseRange ==
    ASSUME NEW start \in Nat, NEW length \in Nat, start + length < Wrap,
           NEW e \in SectorToErase(start, length)
    PROVE  /\ e \in Nat /\ start <= e
           /\ \A hi \in Nat : hi % SECTOR = 0 /\ start + length <= hi /\ start < hi =>
                                 e + SECTOR <= hi
<1>1. SECTOR \in Nat \ {0}
      BY FlashAssumption
<1>2. CASE start % SECTOR = 0
  <2>1. e = start
        BY <1>2 DEF SectorToErase
  <2>2. ASSUME NEW hi \in Nat, hi % SECTOR = 0, start < hi
        PROVE  start + SECTOR <= hi
        BY <1>1, <1>2, <2>2, MultiplesApart
  <2>3. QED
        BY <2>1, <2>2
<1>3. CASE start % SECTOR # 0
  <2> DEFINE end == start + length
             p == start \div SECTOR
             q == end \div SECTOR
  <2>1. e = q * SECTOR /\ p # q /\ end % SECTOR # 0
    <3>1. (start + length) % Wrap = start + length
          BY NoWrap
    <3>2. QED
          BY <1>3, <3>1 DEF SectorToErase
  <2>2. end \in Nat /\ start <= end
        OBVIOUS
  <2>3. /\ p \in Nat /\ start = SECTOR * p + (start % SECTOR) /\ start % SECTOR \in 0 .. SECTOR - 1
        BY <1>1, Division
  <2>4. /\ q \in Nat /\ end = SECTOR * q + (end % SECTOR) /\ end % SECTOR \in 0 .. SECTOR - 1
    <3> HIDE DEF end
    <3>1. QED
          BY <1>1, <2>2, Division
  <2>5. PICK r : r = start % SECTOR
        OBVIOUS
  <2>6. PICK s : s = end % SECTOR
        OBVIOUS
  <2> HIDE DEF end, p, q
  <2>7. /\ start = SECTOR * p + r /\ r \in 0 .. SECTOR - 1
        /\ end = SECTOR * q + s /\ s \in 0 .. SECTOR - 1 /\ s # 0
        BY <2>1, <2>3, <2>4, <2>5, <2>6
  <2>8. p + 1 <= q
        BY <1>1, <2>1, <2>2, <2>3, <2>4, <2>7, Z3
  <2>9. e = SECTOR * q /\ e \in Nat /\ start <= e /\ e < end
        BY <1>1, <2>1, <2>3, <2>4, <2>7, <2>8, Z3
  <2>10. e % SECTOR = 0
        BY <1>1, <2>4, <2>9, Multiple
  <2>11. ASSUME NEW hi \in Nat, hi % SECTOR = 0, end <= hi
         PROVE  e + SECTOR <= hi
    <3>1. e < hi
          BY <2>2, <2>9, <2>11
    <3>2. QED
          BY <1>1, <2>9, <2>10, <2>11, <3>1, MultiplesApart
  <2>12. QED
        BY <2>9, <2>11 DEF end
<1>4. QED
      BY <1>2, <1>3

\* The addresses that an update of length cells at start leaves alone.
Spared(start, length) ==
    {x \in Addr : /\ x \notin start .. start + length - 1
                  /\ \A e \in SectorToErase(start, length) : x \notin e .. e + SECTOR - 1}

\* Unlocking changes neither content nor headers.
LEMMA OpenAlike ==
    ASSUME NEW n \in Flash, NEW x
    PROVE  /\ unlock_flash_bp_all(n) \in Flash
           /\ unlock_flash_bp_all(n).mem = n.mem /\ unlock_flash_bp_all(n).ready = n.ready
           /\ Alike(unlock_flash_bp_all(n), n, x)
BY BpType DEF unlock_flash_bp_all, Flash, Alike

\* Erasing ahead changes nothing but the sector.
LEMMA AheadCells ==
    ASSUME NEW n \in Flash, NEW start \in Nat, NEW length \in Nat,
           NEW e \in EraseAhead(n, start, length), NEW x \in Spared(start, length)
    PROVE  Alike(e.nor, n, x)
<1>1. x \in Addr
      BY DEF Spared
<1>2. PICK open : open = unlock_flash_bp_all(n)
      OBVIOUS
<1>3. open \in Flash /\ Alike(open, n, x)
      BY <1>2, OpenAlike
<1>4. CASE e = Done(open)
      BY <1>3, <1>4 DEF Done
<1>5. ASSUME NEW a \in SectorToErase(start, length), e \in dfu_flash_erase_sector(open, a)
      PROVE  Alike(e.nor, n, x)
  <2>1. a \in Nat /\ x \notin a .. a + SECTOR - 1
        BY SectorToEraseType DEF Spared
  <2>2. Alike(e.nor, open, x)
        BY <1>1, <1>3, <1>5, <2>1, EraseCells
  <2>3. QED
        BY <1>3, <2>2 DEF Alike
<1>6. e = Done(open) \/ \E a \in SectorToErase(start, length) : e \in dfu_flash_erase_sector(open, a)
      BY <1>2 DEF EraseAhead
<1>7. QED
      BY <1>4, <1>5, <1>6

\* The headers in the data lie in the data.
LEMMA SentType ==
    ASSUME NEW offset, NEW data
    PROVE  SentReady(offset, data) \in SUBSET (1 .. Len(data))
BY DEF SentReady

\* An update changes nothing but its data and the sector it erases, and one that
\* succeeds leaves the data there.
LEMMA UpdateCells ==
    ASSUME NEW n \in Flash, NEW id \in ImageId, NEW offset \in Nat, NEW total_offset \in Nat,
           NEW data \in Seq(Content), NEW o \in dfu_update(n, id, offset, total_offset, data),
           NEW start, start = StartAddr(id, offset, total_offset)
    PROVE  /\ \A x \in Spared(start, Len(data)) : Alike(o.nor, n, x)
           /\ o.ok => \A k \in 1 .. Len(data) : /\ start + k - 1 \in Addr
                                                /\ o.nor.mem[start + k - 1] = data[k]
<1>1. start \in Nat /\ Len(data) \in Nat
      BY StartType
<1>2. PICK clear : clear = SentReady(offset, data)
      OBVIOUS
<1>3. clear \in SUBSET (1 .. Len(data))
      BY <1>2, SentType
<1>4. CASE o = Failed(n)
      BY <1>4 DEF Failed, Alike
<1>5. CASE o \in EraseAhead(n, start, Len(data)) /\ ~o.ok
      BY <1>1, <1>5, AheadCells
<1>6. ASSUME NEW e \in EraseAhead(n, start, Len(data)), NEW w \in dfu_write(e.nor, start, data, clear),
             o = [w EXCEPT !.nor = lock_flash_bp(@)]
      PROVE  /\ \A x \in Spared(start, Len(data)) : Alike(o.nor, n, x)
             /\ o.ok => \A k \in 1 .. Len(data) : /\ start + k - 1 \in Addr
                                                  /\ o.nor.mem[start + k - 1] = data[k]
  <2>1. e.nor \in Flash
        BY <1>1, AheadType DEF Outcome
  <2>2. /\ Written(w.nor, e.nor, start, data, clear)
        /\ w = [nor |-> w.nor, ok |-> w.ok]
        BY <1>1, <2>1, WriteLeft
  <2>3. w.nor \in Flash
        BY <2>2 DEF Written
  <2>4. o.nor.mem = w.nor.mem /\ o.nor.ready = w.nor.ready /\ o.ok = w.ok
        BY <1>6, <2>2, <2>3 DEF lock_flash_bp, Flash
  <2>5. ASSUME NEW x \in Spared(start, Len(data))
        PROVE  Alike(o.nor, n, x)
    <3>1. Alike(e.nor, n, x)
          BY <1>1, AheadCells
    <3>2. x \in Addr /\ x \notin start .. start + Len(data) - 1
          BY DEF Spared
    <3>3. Alike(w.nor, e.nor, x)
          BY <1>1, <1>3, <2>1, <2>2, <3>2, WrittenCells
    <3>4. QED
          BY <2>4, <3>1, <3>3 DEF Alike
  <2>6. ASSUME o.ok, NEW k \in 1 .. Len(data)
        PROVE  start + k - 1 \in Addr /\ o.nor.mem[start + k - 1] = data[k]
    <3>1. w.ok
          BY <2>4, <2>6
    <3>2. QED
          BY <1>1, <2>1, <2>4, <3>1, WriteCells
  <2>7. QED
        BY <2>5, <2>6
<1>7. o = Failed(n) \/ UpdateEnds(o, n, start, data, clear)
      BY <1>2, UpdateCases
<1>8. QED
      BY <1>4, <1>5, <1>6, <1>7 DEF UpdateEnds

\* One that is cut changes no more.
LEMMA CutCells ==
    ASSUME NEW n \in Flash, NEW id \in ImageId, NEW offset \in Nat, NEW total_offset \in Nat,
           NEW data \in Seq(Content), NEW u \in UpdateCut(n, id, offset, total_offset, data),
           NEW start, start = StartAddr(id, offset, total_offset),
           NEW x \in Spared(start, Len(data))
    PROVE  Alike(u, n, x)
<1>1. start \in Nat /\ Len(data) \in Nat /\ x \in Addr /\ x \notin start .. start + Len(data) - 1
      BY StartType DEF Spared
<1>2. PICK open : open = unlock_flash_bp_all(n)
      OBVIOUS
<1>3. open \in Flash /\ Alike(open, n, x)
      BY <1>2, OpenAlike
<1>4. ASSUME NEW a \in SectorToErase(start, Len(data)), u \in HalfErased(open, a)
      PROVE  Alike(u, n, x)
  <2>1. a \in Nat /\ x \notin a .. a + SECTOR - 1
        BY <1>1, SectorToEraseType DEF Spared
  <2>2. CASE u = open
        BY <1>3, <2>2
  <2>3. CASE a % SECTOR = 0
    <3>1. Alike(u, open, x)
          BY <1>1, <1>3, <1>4, <2>1, <2>3, HalfErasedCells
    <3>2. QED
          BY <1>3, <3>1 DEF Alike
  <2>4. a % SECTOR = 0
        BY <1>1, SectorToEraseStart
  <2>5. QED
        BY <2>3, <2>4
<1>5. ASSUME NEW e \in EraseAhead(n, start, Len(data)),
             u \in HalfWritten(e.nor, start, data, SentReady(offset, data))
      PROVE  Alike(u, n, x)
  <2>1. e.nor \in Flash /\ Alike(e.nor, n, x)
        BY <1>1, AheadType, AheadCells DEF Outcome
  <2>2. PICK clear : clear = SentReady(offset, data)
        OBVIOUS
  <2>3. clear \in SUBSET (1 .. Len(data))
        BY <2>2, SentType
  <2>4. Written(u, e.nor, start, data, clear)
        BY <1>1, <1>5, <2>1, <2>2, HalfWrittenType
  <2>5. Alike(u, e.nor, x)
        BY <1>1, <2>1, <2>3, <2>4, WrittenCells
  <2>6. QED
        BY <2>1, <2>5 DEF Alike
<1>6. QED
      BY <1>2, <1>4, <1>5, CutCases

\* The retries change nothing outside the sector they erase.
LEMMA RetryCells ==
    ASSUME NEW n \in Flash, NEW id \in ImageId, NEW offset \in Nat,
           NEW o \in dfu_flash_erase_sector_with_retry(n, id, offset),
           NEW a, a = (TempBase[id] + offset) % Wrap, NEW x \in Addr, x \notin a .. a + SECTOR - 1
    PROVE  Alike(o.nor, n, x)
<1> DEFINE Good == {p \in LockedFrom(n) : Alike(p.nor, n, x)}
<1>1. a \in Nat
  <2>1. TempBase[id] + offset \in Nat
        BY ImageAssumption
  <2>2. QED
        BY <2>1, WrapType
<1>2. ASSUME NEW m \in Flash, m.ready \subseteq n.ready, Alike(m, n, x)
      PROVE  EraseRound(m, a) \subseteq Good
  <2> SUFFICES ASSUME NEW p \in EraseRound(m, a)
               PROVE  p \in Good
      OBVIOUS
  <2>1. p \in LockedFrom(m)
        BY <1>2, RoundType
  <2>2. /\ unlock_flash_bp_all(m) \in Flash
        /\ unlock_flash_bp_all(m).mem = m.mem /\ unlock_flash_bp_all(m).ready = m.ready
        BY <1>2, BpType DEF unlock_flash_bp_all, Flash
  <2>3. PICK e \in dfu_flash_erase_sector(unlock_flash_bp_all(m), a) :
               p = [nor |-> lock_flash_bp(e.nor), ok |-> dfu_flash_check_blank(e.nor, a)]
        BY DEF EraseRound
  <2>4. e.nor \in Flash /\ Alike(e.nor, m, x)
    <3>1. e.nor \in Flash
          BY <2>2, <2>3, EraseType DEF Outcome
    <3>2. Alike(e.nor, unlock_flash_bp_all(m), x)
          BY <1>1, <2>2, <2>3, EraseCells
    <3>3. QED
          BY <2>2, <3>1, <3>2 DEF Alike
  <2>5. Alike(p.nor, n, x)
        BY <1>2, <2>3, <2>4 DEF lock_flash_bp, Flash, Alike
  <2>6. QED
        BY <1>2, <2>1, <2>5 DEF LockedFrom, Outcome
<1>3. ASSUME NEW outcomes \in SUBSET Good
      PROVE  EraseAgain(outcomes, a) \subseteq Good
  <2> SUFFICES ASSUME NEW p \in EraseAgain(outcomes, a)
               PROVE  p \in Good
      OBVIOUS
  <2>1. CASE p \in outcomes
        BY <1>3, <2>1
  <2>2. CASE \E v \in outcomes : p \in EraseRound(v.nor, a)
    <3>1. PICK v \in outcomes : p \in EraseRound(v.nor, a)
          BY <2>2
    <3>2. v.nor \in Flash /\ v.nor.ready \subseteq n.ready /\ Alike(v.nor, n, x)
          BY <1>3 DEF LockedFrom, Outcome
    <3>3. QED
          BY <1>2, <3>1, <3>2
  <2>3. QED
        BY <2>1, <2>2 DEF EraseAgain
<1>4. CASE TempBase[id] = 0
      BY <1>4 DEF dfu_flash_erase_sector_with_retry, Failed, Alike
<1>5. CASE TempBase[id] # 0
  <2>1. o \in EraseAgain(EraseAgain(EraseRound(n, a), a), a)
        BY <1>5 DEF dfu_flash_erase_sector_with_retry
  <2> HIDE DEF Good
  <2>2. EraseRound(n, a) \subseteq Good
        BY <1>2 DEF Alike
  <2>3. EraseAgain(EraseRound(n, a), a) \subseteq Good
        BY <1>3, <2>2
  <2>4. EraseAgain(EraseAgain(EraseRound(n, a), a), a) \subseteq Good
        BY <1>3, <2>3
  <2>5. QED
        BY <2>1, <2>4 DEF Good
<1>6. QED
      BY <1>4, <1>5

\* Clearing not_ready changes no cell but a blank one where a header should be.
LEMMA ClearCells ==
    ASSUME NEW n \in Flash, NEW hs \in SUBSET Addr, NEW w \in ClearNotReady(n, hs),
           NEW x \in Addr, n.mem[x] # Erased \/ x \notin hs
    PROVE  w.mem[x] = n.mem[x]
<1>1. CASE w = n
      BY <1>1
<1>2. ASSUME NEW bad \in SUBSET hs,
             w = [n EXCEPT !.mem    = [y \in Addr |-> IF y \in hs \ bad THEN
                                          (IF @[y] = Erased THEN Torn ELSE @[y]) ELSE @[y]],
                           !.ready  = @ \cup (hs \ bad),
                           !.faults = @ + Cardinality(bad)]
      PROVE  w.mem[x] = n.mem[x]
  <2>1. w.mem = [y \in Addr |-> IF y \in hs \ bad THEN
                                   (IF n.mem[y] = Erased THEN Torn ELSE n.mem[y]) ELSE n.mem[y]]
        BY <1>2 DEF Flash
  <2>2. QED
        BY <2>1
<1>3. QED
  <2> DEFINE Clears(bad) ==
          w = [n EXCEPT !.mem    = [y \in Addr |-> IF y \in hs \ bad THEN
                                      (IF @[y] = Erased THEN Torn ELSE @[y]) ELSE @[y]],
                        !.ready  = @ \cup (hs \ bad),
                        !.faults = @ + Cardinality(bad)]
  <2>1. w = n \/ \E bad \in SUBSET hs : Clears(bad)
        BY Zenon DEF ClearNotReady
  <2>2. ASSUME NEW bad \in SUBSET hs, Clears(bad)
        PROVE  w.mem[x] = n.mem[x]
        BY <1>2, <2>2, Zenon
  <2> HIDE DEF Clears
  <2>3. QED
        BY <1>1, <2>1, <2>2

-----------------------------------------------------------------------------
(* What stays in the temporary bank of an image.                           *)

Bank(id) == TempBase[id] .. TempBase[id] + TempSize[id] - 1

\* Banks start and end at sectors, as those of the flash layout do.
SectorBanks == \A id \in ImageId : TempBase[id] % SECTOR = 0 /\ TempSize[id] % SECTOR = 0

\* The sector at a multiple inside the bank lies in the bank.
LEMMA BankSector ==
    ASSUME SectorBanks, NEW id \in ImageId, NEW k \in Nat, k % SECTOR = 0, k < TempSize[id],
           NEW x \in TempBase[id] + k .. TempBase[id] + k + SECTOR - 1
    PROVE  x \in Bank(id)
<1>1. SECTOR \in Nat \ {0} /\ TempBase[id] \in Nat /\ TempSize[id] \in Nat
      BY FlashAssumption, ImageAssumption
<1>2. k + SECTOR <= TempSize[id]
      BY <1>1, MultiplesApart DEF SectorBanks
<1>3. QED
      BY <1>1, <1>2 DEF Bank

\* Offsets inside a bank are not cut to the width of an address.
LEMMA InBank ==
    ASSUME NEW id \in ImageId, TempBase[id] # 0, NEW k \in Nat, k <= TempSize[id]
    PROVE  /\ StartAddr(id, k, 0) = TempBase[id] + k
           /\ (TempBase[id] + k) % Wrap = TempBase[id] + k
           /\ TempBase[id] + TempSize[id] < Wrap
<1>1. /\ TempBase[id] \in Nat /\ TempSize[id] \in Nat /\ Wrap \in Nat /\ FlashSize \in Nat
      /\ TempBase[id] + TempSize[id] <= FlashSize /\ FlashSize < Wrap
      BY ImageAssumption, FlashAssumption
<1>2. PICK a \in Nat : a = TempBase[id] + k
      BY <1>1
<1>3. a < Wrap /\ TempBase[id] + k + 0 = a
      BY <1>1, <1>2
<1>4. a % Wrap = a
      BY <1>3, NoWrap
<1>5. QED
      BY <1>1, <1>2, <1>3, <1>4 DEF StartAddr

\* Nor is the address of a bank.
LEMMA BankAddr ==
    ASSUME NEW id \in ImageId
    PROVE  StartAddr(id, 0, 0) = TempBase[id]
<1>1. PICK base \in Nat : base = TempBase[id]
      BY ImageAssumption
<1>2. base < Wrap
      BY <1>1, ImageAssumption, FlashAssumption
<1>3. StartAddr(id, 0, 0) = base % Wrap
      BY <1>1 DEF StartAddr
<1>4. QED
      BY <1>1, <1>2, <1>3, NoWrap

\* Data that passes the check of the length lies in the bank, unless the sum of
\* offset and length wraps.
LEMMA FitsBank ==
    ASSUME NEW id \in ImageId, NEW k \in Nat, NEW data \in Seq(Content), k + Len(data) < Wrap,
           Fitting(id, k, data)
    PROVE  k + Len(data) <= TempSize[id]
<1>1. k + Len(data) \in Nat
      OBVIOUS
<1>2. (k + Len(data)) % Wrap = k + Len(data)
      BY <1>1, NoWrap
<1>3. (k + Len(data)) % Wrap <= TempSize[id]
      BY DEF check_dfu_update_image_length, Fitting
<1>4. QED
      BY <1>2, <1>3

\* What lies outside the bank is spared by data that lies in it.
LEMMA BankSpared ==
    ASSUME SectorBanks, NEW id \in ImageId, TempBase[id] # 0, NEW k \in Nat,
           NEW length \in Nat \ {0}, k + length <= TempSize[id],
           NEW x \in Addr, x \notin Bank(id)
    PROVE  x \in Spared(TempBase[id] + k, length)
<1>1. /\ SECTOR \in Nat \ {0} /\ TempBase[id] \in Nat /\ TempSize[id] \in Nat
      /\ x \in Nat /\ k <= TempSize[id]
      BY FlashAssumption, ImageAssumption DEF Addr
<1>2. PICK start \in Nat : start = TempBase[id] + k
      BY <1>1
<1>3. PICK hi \in Nat : hi = TempBase[id] + TempSize[id]
      BY <1>1
<1>4. /\ start + length <= hi /\ start < hi /\ start + length < Wrap
      /\ x \notin TempBase[id] .. hi - 1 /\ TempBase[id] <= start
  <2>1. hi < Wrap
        BY <1>1, <1>3, InBank
  <2>2. Wrap \in Nat
        BY ImageAssumption
  <2>3. x \notin TempBase[id] .. hi - 1
    <3>1. hi - 1 = TempBase[id] + TempSize[id] - 1
          BY <1>1, <1>3
    <3>2. QED
          BY <3>1, Zenon DEF Bank
  <2>4. QED
        BY <1>1, <1>2, <1>3, <2>1, <2>2, <2>3
<1>5. hi % SECTOR = 0
      BY <1>1, <1>3, SumOfMultiples DEF SectorBanks
<1>6. x \notin start .. start + length - 1
      BY <1>1, <1>2, <1>4
<1>7. ASSUME NEW e \in SectorToErase(start, length)
      PROVE  x \notin e .. e + SECTOR - 1
  <2>1. e \in Nat /\ start <= e
        BY <1>4, SectorToEraseRange
  <2>2. e + SECTOR <= hi
        BY <1>4, <1>5, SectorToEraseRange
  <2>3. QED
        BY <1>1, <1>4, <2>1, <2>2
<1>8. QED
      BY <1>2, <1>6, <1>7 DEF Spared

\* An update stays in the bank of its image: one that does not fit is refused,
\* and one that does erases no sector behind the bank.
LEMMA UpdateInside ==
    ASSUME SectorBanks, NEW n \in Flash, NEW id \in ImageId, NEW k \in Nat,
           NEW data \in Seq(Content), data # << >>, k + Len(data) < Wrap,
           NEW o \in dfu_update(n, id, k, 0, data),
           NEW x \in Addr, x \notin Bank(id)
    PROVE  Alike(o.nor, n, x)
<1>1. Len(data) \in Nat \ {0} /\ 0 \in Nat
      OBVIOUS
<1>2. CASE o = Failed(n)
      BY <1>2 DEF Failed, Alike
<1>3. CASE TempBase[id] # 0 /\ Fitting(id, k, data)
  <2>1. k + Len(data) <= TempSize[id]
        BY <1>3, FitsBank
  <2>2. k <= TempSize[id]
        BY <1>1, <2>1, ImageAssumption
  <2>3. PICK start : start = StartAddr(id, k, 0)
        OBVIOUS
  <2>4. start = TempBase[id] + k
        BY <1>3, <2>2, <2>3, InBank
  <2>5. x \in Spared(start, Len(data))
        BY <1>1, <1>3, <2>1, <2>4, BankSpared
  <2>6. QED
        BY <1>1, <2>3, <2>5, UpdateCells
<1>4. QED
      BY <1>2, <1>3, UpdateCases

\* So does one that is cut.
LEMMA CutInside ==
    ASSUME SectorBanks, NEW n \in Flash, NEW id \in ImageId, NEW k \in Nat,
           NEW data \in Seq(Content), data # << >>, k + Len(data) < Wrap,
           NEW u \in UpdateCut(n, id, k, 0, data),
           NEW x \in Addr, x \notin Bank(id)
    PROVE  Alike(u, n, x)
<1>1. Len(data) \in Nat \ {0} /\ 0 \in Nat
      OBVIOUS
<1>2. TempBase[id] # 0 /\ Fitting(id, k, data)
      BY CutCases DEF Refused
<1>3. k + Len(data) <= TempSize[id]
      BY <1>2, FitsBank
<1>4. k <= TempSize[id]
      BY <1>1, <1>3, ImageAssumption
<1>5. PICK start : start = StartAddr(id, k, 0)
      OBVIOUS
<1>6. start = TempBase[id] + k
      BY <1>2, <1>4, <1>5, InBank
<1>7. x \in Spared(start, Len(data))
      BY <1>1, <1>2, <1>3, <1>6, BankSpared
<1>8. QED
      BY <1>1, <1>5, <1>7, CutCells

\* The retries at a sector of the bank stay in the bank.
LEMMA RetryInside ==
    ASSUME SectorBanks, NEW n \in Flash, NEW id \in ImageId, NEW k \in Nat,
           k % SECTOR = 0, k < TempSize[id],
           NEW o \in dfu_flash_erase_sector_with_retry(n, id, k),
           NEW x \in Addr, x \notin Bank(id)
    PROVE  Alike(o.nor, n, x)
<1>1. CASE TempBase[id] = 0
  <2>1. o.nor = n
        BY <1>1, RetryType
  <2>2. QED
        BY <2>1 DEF Alike
<1>2. CASE TempBase[id] # 0
  <2>1. k <= TempSize[id]
        BY ImageAssumption
  <2>2. PICK a : a = (TempBase[id] + k) % Wrap
        OBVIOUS
  <2>3. a = TempBase[id] + k
        BY <1>2, <2>1, <2>2, InBank
  <2>4. x \notin a .. a + SECTOR - 1
        BY <2>3, BankSector
  <2>5. QED
        BY <2>2, <2>4, RetryCells
<1>3. QED
      BY <1>1, <1>2

-----------------------------------------------------------------------------
(* What an operation makes of the image that stood in its bank.            *)

\* The first cell that is written takes the data, or is spoilt.
LEMMA WriteFirst ==
    ASSUME NEW n \in Flash, NEW start \in Addr, NEW data \in Seq(Content), data # << >>,
           NEW clear, NEW h, Written(h, n, start, data, clear)
    PROVE  h.mem[start] \in {n.mem[start], data[1], Torn}
<1> DEFINE upTo(k) == WithData(n.mem, start, data, k)
           First == {n.mem[start], data[1], Torn}
<1>1. start \in Nat /\ Len(data) \in Nat /\ start - start + 1 = 1
      BY DEF Addr
<1>2. ASSUME NEW k \in 0 .. Len(data)
      PROVE  upTo(k)[start] \in First
      BY <1>1 DEF WithData, Programmed
<1>3. ASSUME NEW k \in 0 .. Len(data), h.mem = [upTo(k) EXCEPT ![start + k] = Torn]
      PROVE  h.mem[start] \in First
  <2>1. start \in DOMAIN upTo(k)
        BY DEF WithData
  <2> HIDE DEF upTo
  <2>2. QED
        BY <1>2, <1>3, <2>1
<1>4. QED
      BY <1>2, <1>3 DEF Written

\* From n to w the sector of a header was worked on: with its content the header
\* loses its ready bit, and no other header comes of an erase.
Cleared(w, n, a) == /\ w.ready \subseteq n.ready
                    /\ w.mem = n.mem \/ a \notin w.ready
                    /\ w.mem[a] \in {n.mem[a], Erased, Torn}

\* Setting a sector to blank or spoilt clears the header it starts with.
LEMMA SectorSetClears ==
    ASSUME NEW n \in Flash, NEW a \in Addr, NEW c \in {Erased, Torn}
    PROVE  /\ Cleared(SectorSet(n, a, c), n, a)
           /\ SectorSet(n, a, c).mem[a] = c /\ a \notin SectorSet(n, a, c).ready
<1>1. a \in SectorOf(a) /\ c \in Content
      BY DEF SectorOf, Content
<1>2. /\ SectorSet(n, a, c).mem = WithSector(n.mem, a, c)
      /\ SectorSet(n, a, c).ready = n.ready \ SectorOf(a)
      BY <1>1, SectorSetType
<1>3. WithSector(n.mem, a, c)[a] = c
      BY <1>1 DEF WithSector
<1>4. QED
      BY <1>1, <1>2, <1>3 DEF Cleared

\* Half erasing it clears it, or leaves it.
LEMMA HalfErasedClears ==
    ASSUME NEW n \in Flash, NEW a \in Addr, NEW h \in HalfErased(n, a)
    PROVE  Cleared(h, n, a)
<1>1. CASE h = n
      BY <1>1 DEF Cleared
<1>2. CASE h = SectorSet(n, a, Torn)
      BY <1>2, SectorSetClears
<1>3. QED
      BY <1>1, <1>2 DEF HalfErased

\* Erasing clears the header the sector starts with.
LEMMA EraseClears ==
    ASSUME NEW n \in Flash, NEW a \in Addr, NEW o \in dfu_flash_erase_sector(n, a)
    PROVE  Cleared(o.nor, n, a) /\ (o.ok => a \notin o.nor.ready /\ o.nor.mem[a] = Erased)
<1>1. CASE o = Failed(n)
      BY <1>1 DEF Failed, Cleared
<1>2. CASE o = Done(SectorSet(n, a, Erased))
  <2>1. o.nor = SectorSet(n, a, Erased)
        BY <1>2 DEF Done
  <2>2. QED
        BY <2>1, SectorSetClears
<1>3. ASSUME CanFail(n, "erase"), NEW h \in HalfErased(n, a), o = Failed(Faulty(h))
      PROVE  Cleared(o.nor, n, a) /\ o.ok = FALSE
  <2>1. h \in Flash /\ h.faults = n.faults
        BY HalfErasedType
  <2>2. Faulty(h).mem = h.mem /\ Faulty(h).ready = h.ready
        BY <1>3, <2>1, FaultyType
  <2>3. o.nor = Faulty(h) /\ o.ok = FALSE
        BY <1>3 DEF Failed
  <2>4. QED
        BY <2>2, <2>3, HalfErasedClears DEF Cleared
<1>4. QED
      BY <1>1, <1>2, <1>3, EraseCases

\* What is cleared twice is cleared.
LEMMA ClearedTwice ==
    ASSUME NEW v, NEW w, NEW n, NEW a, Cleared(w, n, a), Cleared(v, w, a)
    PROVE  Cleared(v, n, a)
BY DEF Cleared

\* The retries clear the header at the start of their sector as well.
LEMMA RetryClears ==
    ASSUME NEW n \in Flash, NEW id \in ImageId, NEW a, a = TempBase[id], a \in Addr,
           NEW o \in dfu_flash_erase_sector_with_retry(n, id, 0)
    PROVE  Cleared(o.nor, n, a)
<1> DEFINE Good == {p \in LockedFrom(n) : Cleared(p.nor, n, a)}
<1>1. ASSUME NEW m \in Flash, m.ready \subseteq n.ready, Cleared(m, n, a)
      PROVE  EraseRound(m, a) \subseteq Good
  <2> SUFFICES ASSUME NEW p \in EraseRound(m, a)
               PROVE  p \in Good
      OBVIOUS
  <2>1. p \in LockedFrom(m)
        BY <1>1, RoundType
  <2>2. PICK open : open = unlock_flash_bp_all(m)
        OBVIOUS
  <2>3. open \in Flash /\ open.mem = m.mem /\ open.ready = m.ready
        BY <1>1, <2>2, BpType DEF unlock_flash_bp_all, Flash
  <2>4. PICK e \in dfu_flash_erase_sector(open, a) :
               p = [nor |-> lock_flash_bp(e.nor), ok |-> dfu_flash_check_blank(e.nor, a)]
        BY <2>2 DEF EraseRound
  <2>5. e.nor \in Flash /\ Cleared(e.nor, open, a)
        BY <2>3, <2>4, EraseClears, EraseType DEF Outcome
  <2>6. p.nor.mem = e.nor.mem /\ p.nor.ready = e.nor.ready
        BY <2>4, <2>5 DEF lock_flash_bp, Flash
  <2>7. Cleared(p.nor, m, a)
        BY <2>3, <2>5, <2>6 DEF Cleared
  <2>8. Cleared(p.nor, n, a)
        BY <1>1, <2>7, ClearedTwice
  <2>9. QED
        BY <1>1, <2>1, <2>8 DEF LockedFrom, Outcome
<1>2. ASSUME NEW outcomes \in SUBSET Good
      PROVE  EraseAgain(outcomes, a) \subseteq Good
  <2> SUFFICES ASSUME NEW p \in EraseAgain(outcomes, a)
               PROVE  p \in Good
      OBVIOUS
  <2>1. CASE p \in outcomes
        BY <1>2, <2>1
  <2>2. CASE \E v \in outcomes : p \in EraseRound(v.nor, a)
    <3>1. PICK v \in outcomes : p \in EraseRound(v.nor, a)
          BY <2>2
    <3>2. v.nor \in Flash /\ v.nor.ready \subseteq n.ready /\ Cleared(v.nor, n, a)
          BY <1>2 DEF LockedFrom, Outcome
    <3>3. QED
          BY <1>1, <3>1, <3>2
  <2>3. QED
        BY <2>1, <2>2 DEF EraseAgain
<1>3. CASE TempBase[id] = 0
      BY <1>3 DEF dfu_flash_erase_sector_with_retry, Failed, Cleared
<1>4. CASE TempBase[id] # 0
  <2>1. (TempBase[id] + 0) % Wrap = a
    <3>1. a \in Nat /\ TempBase[id] + 0 = a /\ a < Wrap
          BY FlashAssumption, ImageAssumption DEF Addr
    <3>2. QED
          BY <3>1, NoWrap
  <2>2. o \in EraseAgain(EraseAgain(EraseRound(n, a), a), a)
        BY <1>4, <2>1 DEF dfu_flash_erase_sector_with_retry
  <2> HIDE DEF Good
  <2>3. EraseRound(n, a) \subseteq Good
        BY <1>1 DEF Cleared
  <2>4. EraseAgain(EraseRound(n, a), a) \subseteq Good
        BY <1>2, <2>3
  <2>5. EraseAgain(EraseAgain(EraseRound(n, a), a), a) \subseteq Good
        BY <1>2, <2>4
  <2>6. QED
        BY <2>2, <2>5 DEF Good
<1>5. QED
      BY <1>3, <1>4

\* From n to w an operation at offset k worked on the bank of id.  An image that
\* stood there is not ready any more once its content changes, when k is the
\* start of the bank or the header was cleared before; and a header that comes
\* there announces an image that fits.
Work(w, n, id, k) ==
    /\ w.ready \subseteq n.ready
    /\ \A x \in Addr : x \notin Bank(id) => Alike(w, n, x)
    /\ k = 0 \/ TempBase[id] \notin n.ready => w.mem = n.mem \/ TempBase[id] \notin w.ready
    /\ \A m \in Image : w.mem[TempBase[id]] = <<m, 0>> =>
           n.mem[TempBase[id]] = <<m, 0>> \/ Total[m] <= TempSize[id]

\* Changing the protection only is no work.
LEMMA NoWork ==
    ASSUME NEW w, NEW n, NEW id, NEW k, w.mem = n.mem, w.ready = n.ready
    PROVE  Work(w, n, id, k)
BY DEF Work, Alike

\* Blank and spoilt cells are no headers.
LEMMA NoHeader ==
    ASSUME NEW m \in Image
    PROVE  <<m, 0>> # Erased /\ <<m, 0>> # Torn
<1>1. 0 \in 0 .. Total[m] - 1
      BY ImageAssumption
<1>2. <<m, 0>> \in Data
      BY <1>1, DataAssumption
<1>3. QED
      BY <1>2, DataAssumption

\* A bank starts inside the flash.
LEMMA BankStart ==
    ASSUME NEW id \in ImageId, TempBase[id] # 0
    PROVE  TempBase[id] \in Addr /\ TempBase[id] \in Bank(id)
BY ImageAssumption, FlashAssumption DEF Addr, Bank

\* Clearing a header at the start of the bank is work on the bank.
LEMMA ClearedWork ==
    ASSUME NEW n, NEW w, NEW id \in ImageId, Cleared(w, n, TempBase[id]),
           \A x \in Addr : x \notin Bank(id) => Alike(w, n, x), NEW k
    PROVE  Work(w, n, id, k)
<1>1. ASSUME NEW m \in Image, w.mem[TempBase[id]] = <<m, 0>>
      PROVE  n.mem[TempBase[id]] = <<m, 0>>
      BY <1>1, NoHeader DEF Cleared
<1>2. QED
      BY <1>1 DEF Work, Cleared
\* The retries at a sector of the bank are work on the bank.
LEMMA RetryWork ==
    ASSUME SectorBanks, NEW n \in Flash, NEW id \in ImageId, NEW k \in Nat,
           k % SECTOR = 0, k < TempSize[id],
           NEW o \in dfu_flash_erase_sector_with_retry(n, id, k)
    PROVE  Work(o.nor, n, id, k) /\ (k # 0 => Alike(o.nor, n, TempBase[id]))
<1>1. \A x \in Addr : x \notin Bank(id) => Alike(o.nor, n, x)
      BY RetryInside
<1>2. CASE TempBase[id] = 0
  <2>1. o.nor = n
        BY <1>2, RetryType
  <2>2. QED
        BY <2>1, NoWork DEF Alike
<1>3. CASE TempBase[id] # 0 /\ k = 0
  <2>1. Cleared(o.nor, n, TempBase[id])
        BY <1>3, BankStart, RetryClears
  <2>2. QED
        BY <1>1, <1>3, <2>1, ClearedWork
<1>4. CASE TempBase[id] # 0 /\ k # 0
  <2>1. o.nor.ready \subseteq n.ready
        BY RetryType DEF Outcome
  <2>2. TempBase[id] \in Addr /\ TempBase[id] \in Nat /\ SECTOR \in Nat
        BY <1>4, BankStart, ImageAssumption, FlashAssumption
  <2>3. PICK a : a = (TempBase[id] + k) % Wrap
        OBVIOUS
  <2>4. a = TempBase[id] + k
    <3>1. k <= TempSize[id]
          BY ImageAssumption
    <3>2. QED
          BY <1>4, <2>3, <3>1, InBank
  <2>5. TempBase[id] \notin a .. a + SECTOR - 1
        BY <1>4, <2>2, <2>4
  <2>6. Alike(o.nor, n, TempBase[id])
        BY <2>2, <2>3, <2>5, RetryCells
  <2>7. QED
        BY <1>1, <1>4, <2>1, <2>6 DEF Work, Alike
<1>5. QED
      BY <1>2, <1>3, <1>4

\* Erasing the first sector of the bank is work on the bank.
LEMMA EraseWork ==
    ASSUME SectorBanks, NEW n \in Flash, NEW id \in ImageId,
           TempBase[id] \in Addr, 0 < TempSize[id],
           NEW o \in dfu_flash_erase_sector(n, TempBase[id]), NEW k
    PROVE  Work(o.nor, n, id, k)
<1>1. TempBase[id] \in Addr /\ TempBase[id] \in Nat /\ TempSize[id] \in Nat \ {0}
      BY ImageAssumption
<1>2. Cleared(o.nor, n, TempBase[id])
      BY <1>1, EraseClears
<1>3. ASSUME NEW x \in Addr, x \notin Bank(id)
      PROVE  Alike(o.nor, n, x)
  <2>1. /\ SECTOR \in Nat \ {0} /\ 0 \in Nat /\ 0 % SECTOR = 0 /\ 0 < TempSize[id]
        /\ TempBase[id] + 0 = TempBase[id]
        BY <1>1, FlashAssumption
  <2>2. x \notin TempBase[id] .. TempBase[id] + SECTOR - 1
        BY <1>3, <2>1, BankSector
  <2>3. QED
        BY <1>1, <2>2, EraseCells
<1>4. QED
      BY <1>2, <1>3, ClearedWork

\* What the data at the start of the bank leaves there in a blank sector: no ready
\* header, and one that announces an image that fits.
LEMMA FirstWork ==
    ASSUME NEW id \in ImageId, TempBase[id] \in Addr, NEW f \in Flash,
           f.mem[TempBase[id]] = Erased, TempBase[id] \notin f.ready,
           NEW data \in Seq(Content), data # << >>,
           Fitting(id, 0, data),
           NEW h, Written(h, f, TempBase[id], data, {})
    PROVE  /\ h.ready \subseteq f.ready /\ TempBase[id] \notin h.ready
           /\ h.mem[TempBase[id]] \in {Erased, data[1], Torn}
           /\ \A m \in Image : h.mem[TempBase[id]] = <<m, 0>> => Total[m] <= TempSize[id]
<1>1. HeadersAt(TempBase[id], {}) = {}
      BY DEF HeadersAt
<1>2. h.ready \subseteq f.ready
      BY <1>1 DEF Written
<1>3. h.mem[TempBase[id]] \in {Erased, data[1], Torn}
      BY WriteFirst
<1>4. ASSUME NEW m \in Image, h.mem[TempBase[id]] = <<m, 0>>
      PROVE  Total[m] <= TempSize[id]
  <2>1. data[1] = <<m, 0>>
        BY <1>3, <1>4, NoHeader
  <2>2. data[1] \in Image \X {0} /\ data[1][1] = m
        BY <2>1
  <2>3. HeaderFits(data, TempSize[id]) = {Total[m] <= TempSize[id]}
        BY <2>2 DEF HeaderFits
  <2>4. QED
        BY <2>3 DEF check_dfu_update_image_length, Fitting
<1>5. QED
      BY <1>2, <1>3, <1>4

\* Data behind the start of the bank spares it.
LEMMA BaseSpared ==
    ASSUME NEW id \in ImageId, TempBase[id] # 0, NEW k \in Nat \ {0},
           NEW length \in Nat \ {0}, k + length <= TempSize[id]
    PROVE  TempBase[id] \in Spared(TempBase[id] + k, length)
<1>1. /\ TempBase[id] \in Nat /\ TempBase[id] \in Addr /\ TempSize[id] \in Nat
      /\ SECTOR \in Nat /\ Wrap \in Nat /\ k <= TempSize[id]
      BY BankStart, ImageAssumption, FlashAssumption
<1>2. PICK start \in Nat : start = TempBase[id] + k
      BY <1>1
<1>3. start + length < Wrap
      BY <1>1, <1>2, InBank
<1>4. ASSUME NEW e \in SectorToErase(start, length)
      PROVE  TempBase[id] \notin e .. e + SECTOR - 1
  <2>1. e \in Nat /\ start <= e
        BY <1>3, SectorToEraseRange
  <2>2. QED
        BY <1>1, <1>2, <2>1
<1>5. TempBase[id] \notin start .. start + length - 1
      BY <1>1, <1>2
<1>6. QED
      BY <1>1, <1>2, <1>4, <1>5 DEF Spared

\* The sector that data at the start of the bank erases is the first one.
LEMMA FirstSector ==
    ASSUME SectorBanks, NEW n \in Flash, NEW id \in ImageId, TempBase[id] # 0, NEW length
    PROVE  /\ StartAddr(id, 0, 0) = TempBase[id]
           /\ SectorToErase(TempBase[id], length) = {TempBase[id]}
           /\ EraseAhead(n, TempBase[id], length) =
                 dfu_flash_erase_sector(unlock_flash_bp_all(n), TempBase[id])
<1>1. TempBase[id] \in Nat /\ TempBase[id] % SECTOR = 0 /\ 0 <= TempSize[id]
      BY ImageAssumption DEF SectorBanks
<1>2. SectorToErase(TempBase[id], length) = {TempBase[id]}
      BY <1>1 DEF SectorToErase
<1>3. StartAddr(id, 0, 0) = TempBase[id]
      BY <1>1, InBank
<1>4. QED
      BY <1>2, <1>3 DEF EraseAhead

\* An update is work on the bank, one that succeeds leaves no image ready that
\* stood there, and the header there is from the data at offset 0 and stays as it
\* is at any other.  The data must not hold a header with not_ready = 0 that is
\* let through.
LEMMA UpdateWork ==
    ASSUME SectorBanks, NEW n \in Flash, NEW id \in ImageId, NEW k \in Nat,
           NEW data \in Seq(Content), data # << >>, k + Len(data) < Wrap,
           SentReady(k, data) = {}, NEW o \in dfu_update(n, id, k, 0, data)
    PROVE  /\ Work(o.nor, n, id, k)
           /\ o.ok /\ (k = 0 \/ TempBase[id] \notin n.ready) => TempBase[id] \notin o.nor.ready
           /\ k # 0 => Alike(o.nor, n, TempBase[id])
           /\ o.ok /\ k = 0 => o.nor.mem[TempBase[id]] \in {Erased, data[1], Torn}
<1> DEFINE base == TempBase[id]
           fit  == Fitting(id, k, data)
<1>1. \A x \in Addr : x \notin Bank(id) => Alike(o.nor, n, x)
      BY UpdateInside
<1>2. o.nor.ready \subseteq n.ready /\ Len(data) \in Nat \ {0} /\ 0 \in Nat
  <2>1. HeadersSent(id, k, 0, data) = {}
        BY DEF HeadersSent, HeadersAt
  <2>2. 0 \in Nat
        OBVIOUS
  <2>3. o \in OutcomeWith(n, {})
        BY <2>1, <2>2, UpdateType
  <2>4. QED
        BY <2>3 DEF OutcomeWith
<1>3. CASE o = Failed(n)
  <2>1. o.nor = n /\ o.ok = FALSE
        BY <1>3 DEF Failed
  <2>2. QED
        BY <2>1, NoWork DEF Alike
<1>4. CASE base # 0 /\ fit /\ k # 0
  <2>1. k + Len(data) <= TempSize[id]
        BY <1>4, FitsBank
  <2>2. k <= TempSize[id] /\ base \in Addr
        BY <1>2, <1>4, <2>1, ImageAssumption, BankStart
  <2>3. PICK start : start = StartAddr(id, k, 0)
        OBVIOUS
  <2>4. start = base + k
        BY <1>4, <2>2, <2>3, InBank
  <2>5. base \in Spared(start, Len(data))
        BY <1>2, <1>4, <2>1, <2>4, BaseSpared
  <2>6. Alike(o.nor, n, base)
        BY <1>2, <2>3, <2>5, UpdateCells
  <2>7. QED
        BY <1>1, <1>2, <1>4, <2>6 DEF Work, Alike
<1>5. CASE base # 0 /\ fit /\ k = 0
  <2>1. base \in Addr
        BY <1>5, BankStart
  <2>2. PICK open : open = unlock_flash_bp_all(n)
        OBVIOUS
  <2>3. open \in Flash /\ open.mem = n.mem /\ open.ready = n.ready
        BY <2>2, OpenAlike
  <2>4. PICK erased : erased = dfu_flash_erase_sector(open, base)
        OBVIOUS
  <2>5. \/ o = Failed(n)
        \/ o \in erased /\ ~o.ok
        \/ \E e \in erased : e.ok /\ \E w \in dfu_write(e.nor, base, data, {}) :
              o = [w EXCEPT !.nor = lock_flash_bp(@)]
    <3>1. StartAddr(id, k, 0) = base /\ EraseAhead(n, base, Len(data)) = erased
          BY <1>5, <2>2, <2>4, FirstSector
    <3>2. o = Failed(n) \/ UpdateEnds(o, n, base, data, {})
          BY <3>1, UpdateCases
    <3>3. QED
          BY <3>1, <3>2 DEF UpdateEnds
  <2>6. CASE o \in erased /\ ~o.ok
    <3>1. Cleared(o.nor, open, base)
          BY <2>1, <2>3, <2>4, <2>6, EraseClears
    <3>2. Cleared(o.nor, n, base)
          BY <2>3, <3>1 DEF Cleared
    <3>3. QED
          BY <1>1, <1>5, <2>6, <3>2, ClearedWork
  <2>7. ASSUME NEW e \in erased, e.ok, NEW w \in dfu_write(e.nor, base, data, {}),
               o = [w EXCEPT !.nor = lock_flash_bp(@)]
        PROVE  /\ base \notin o.nor.ready
               /\ o.nor.mem[base] \in {Erased, data[1], Torn}
               /\ \A m \in Image : o.nor.mem[base] = <<m, 0>> => Total[m] <= TempSize[id]
    <3>1. e.nor \in Flash /\ base \notin e.nor.ready /\ e.nor.mem[base] = Erased
          BY <2>1, <2>3, <2>4, <2>7, EraseClears, EraseType DEF Outcome
    <3>2. Written(w.nor, e.nor, base, data, {}) /\ w = [nor |-> w.nor, ok |-> w.ok]
      <4>1. base \in Nat
            BY ImageAssumption
      <4>2. QED
            BY <3>1, <4>1, WriteLeft
    <3>3. /\ base \notin w.nor.ready
          /\ w.nor.mem[base] \in {Erased, data[1], Torn}
          /\ \A m \in Image : w.nor.mem[base] = <<m, 0>> => Total[m] <= TempSize[id]
      <4>1. Fitting(id, 0, data)
            BY <1>5
      <4>2. PICK f \in Flash : f = e.nor
            BY <3>1
      <4>3. QED
            BY <2>1, <3>1, <3>2, <4>1, <4>2, FirstWork
    <3>4. w.nor \in Flash
          BY <3>2 DEF Written
    <3>5. o.nor.mem = w.nor.mem /\ o.nor.ready = w.nor.ready
          BY <2>7, <3>2, <3>4 DEF lock_flash_bp, Flash
    <3>6. QED
          BY <3>3, <3>5
  <2>8. CASE \E e \in erased : e.ok /\ \E w \in dfu_write(e.nor, base, data, {}) :
                o = [w EXCEPT !.nor = lock_flash_bp(@)]
    <3>1. /\ base \notin o.nor.ready
          /\ o.nor.mem[base] \in {Erased, data[1], Torn}
          /\ \A m \in Image : o.nor.mem[base] = <<m, 0>> => Total[m] <= TempSize[id]
          BY <2>7, <2>8
    <3>2. QED
          BY <1>1, <1>2, <1>5, <3>1 DEF Work
  <2>9. QED
        BY <1>3, <2>5, <2>6, <2>8
<1>6. QED
      BY <1>3, <1>4, <1>5, UpdateCases

\* So is an update that is cut.
LEMMA CutWork ==
    ASSUME SectorBanks, NEW n \in Flash, NEW id \in ImageId, NEW k \in Nat,
           NEW data \in Seq(Content), data # << >>, k + Len(data) < Wrap,
           SentReady(k, data) = {}, NEW u \in UpdateCut(n, id, k, 0, data)
    PROVE  Work(u, n, id, k)
<1> DEFINE base == TempBase[id]
<1>1. \A x \in Addr : x \notin Bank(id) => Alike(u, n, x)
      BY CutInside
<1>2. u.ready \subseteq n.ready /\ Len(data) \in Nat \ {0} /\ 0 \in Nat
  <2>1. HeadersSent(id, k, 0, data) = {}
        BY DEF HeadersSent, HeadersAt
  <2>2. 0 \in Nat /\ Len(data) \in Nat \ {0}
        OBVIOUS
  <2>3. u.ready \subseteq n.ready \cup HeadersSent(id, k, 0, data)
        BY <2>2, CutType, Zenon
  <2>4. QED
        BY <2>1, <2>2, <2>3
<1>3. base # 0 /\ Fitting(id, k, data)
      BY CutCases DEF Refused
<1>4. base \in Addr /\ base \in Nat
      BY <1>3, BankStart, ImageAssumption
<1>5. CASE k # 0
  <2>1. k + Len(data) <= TempSize[id]
        BY <1>3, FitsBank
  <2>2. k <= TempSize[id]
        BY <1>2, <2>1, ImageAssumption
  <2>3. PICK start : start = StartAddr(id, k, 0)
        OBVIOUS
  <2>4. start = base + k
        BY <1>3, <2>2, <2>3, InBank
  <2>5. base \in Spared(start, Len(data))
        BY <1>2, <1>3, <1>5, <2>1, <2>4, BaseSpared
  <2>6. Alike(u, n, base)
        BY <1>2, <2>3, <2>5, CutCells
  <2>7. QED
        BY <1>1, <1>2, <1>5, <2>6 DEF Work, Alike
<1>6. CASE k = 0
  <2>1. PICK open : open = unlock_flash_bp_all(n)
        OBVIOUS
  <2>2. open \in Flash /\ open.mem = n.mem /\ open.ready = n.ready
        BY <2>1, OpenAlike
  <2>3. \/ u \in HalfErased(open, base)
        \/ \E e \in dfu_flash_erase_sector(open, base) :
              e.ok /\ u \in HalfWritten(e.nor, base, data, {})
    <3>1. /\ StartAddr(id, k, 0) = base /\ SectorToErase(base, Len(data)) = {base}
          /\ EraseAhead(n, base, Len(data)) = dfu_flash_erase_sector(open, base)
          BY <1>3, <1>6, <2>1, FirstSector
    <3>2. \/ \E a \in SectorToErase(base, Len(data)) : u \in HalfErased(unlock_flash_bp_all(n), a)
          \/ \E e \in EraseAhead(n, base, Len(data)) :
               e.ok /\ u \in HalfWritten(e.nor, base, data, SentReady(k, data))
          BY <3>1, CutCases
    <3>3. QED
          BY <2>1, <3>1, <3>2
  <2>4. CASE u \in HalfErased(open, base)
    <3>1. Cleared(u, open, base)
          BY <1>4, <2>2, <2>4, HalfErasedClears
    <3>2. Cleared(u, n, base)
          BY <2>2, <3>1 DEF Cleared
    <3>3. QED
          BY <1>1, <3>2, ClearedWork
  <2>5. ASSUME NEW e \in dfu_flash_erase_sector(open, base), e.ok,
               u \in HalfWritten(e.nor, base, data, {})
        PROVE  Work(u, n, id, k)
    <3>1. e.nor \in Flash /\ base \notin e.nor.ready /\ e.nor.mem[base] = Erased
          BY <1>4, <2>2, <2>5, EraseClears, EraseType DEF Outcome
    <3>2. Written(u, e.nor, base, data, {})
          BY <1>4, <2>5, <3>1, HalfWrittenType
    <3>3. /\ base \notin u.ready
          /\ \A m \in Image : u.mem[base] = <<m, 0>> => Total[m] <= TempSize[id]
      <4>1. Fitting(id, 0, data)
            BY <1>3, <1>6
      <4>2. PICK f \in Flash : f = e.nor
            BY <3>1
      <4>3. QED
            BY <1>4, <3>1, <3>2, <4>1, <4>2, FirstWork
    <3>4. QED
          BY <1>1, <1>2, <1>6, <3>3 DEF Work
  <2>6. QED
        BY <2>3, <2>4, <2>5
<1>7. QED
      BY <1>5, <1>6

-----------------------------------------------------------------------------
(* The buffer and the resend point.                                        *)

\* A multiple of s goes to one when s is added with the wrap of a width that
\* is a multiple of s too.
LEMMA WrappedStep ==
    ASSUME NEW r \in Nat, NEW s \in Nat \ {0}, NEW w \in Nat \ {0},
           r < w, r % s = 0, w % s = 0
    PROVE  /\ (r + s) % w \in 0 .. w - 1
           /\ ((r + s) % w) % s = 0
<1>1. (r + s) % s = 0
  <2>1. s % s = 0
        BY Z3
  <2>2. QED
        BY <2>1, SumOfMultiples
<1>2. s <= w
      BY Z3
<1>3. CASE r + s < w
  <2>1. (r + s) % w = r + s
        BY <1>3, Z3
  <2>2. QED
        BY <1>1, <1>3, <2>1, Z3
<1>4. CASE ~(r + s < w)
  <2>1. (r + s) % w = r + s - w
        BY <1>2, <1>4, Z3
  <2> DEFINE a == r + s
  <2>2. a \in Nat /\ w <= a /\ a % s = 0
        BY <1>1, <1>4, Z3
  <2> HIDE DEF a
  <2>3. (a - w) % s = 0
        BY <2>2, SumOfMultiples
  <2>4. r + s - w \in 0 .. w - 1
        BY <1>2, <1>4, Z3
  <2>5. QED
        BY <2>1, <2>3, <2>4 DEF a
<1>5. QED
      BY <1>3, <1>4

\* Without buffer check the buffer takes at most what it takes with it.
LEMMA PlainMaxType == PlainMax \in 0 .. BUF
<1>1. BUF \in Nat /\ PlainPacket \in Nat \ {0}
      BY ServiceAssumption
<1>2. BUF % PlainPacket \in 0 .. BUF
      BY <1>1, Z3
<1>3. QED
      BY <1>1, <1>2 DEF PlainMax

\* The resend point stays the start of a sector when it moves.
LEMMA NextResendType ==
    ASSUME dfu_resend_offset \in 0 .. Wrap - 1, NEW cur \in Nat
    PROVE  /\ NextResend(cur) \in 0 .. Wrap - 1
           /\ dfu_resend_offset % SECTOR = 0 => NextResend(cur) % SECTOR = 0
<1>1. /\ SECTOR \in Nat \ {0} /\ Wrap \in Nat \ {0} /\ Wrap % SECTOR = 0
      /\ dfu_resend_offset \in Nat /\ dfu_resend_offset < Wrap
      BY FlashAssumption, ImageAssumption
<1>2. (dfu_resend_offset + SECTOR) % Wrap \in 0 .. Wrap - 1
      BY <1>1, Z3
<1>3. ASSUME dfu_resend_offset % SECTOR = 0
      PROVE  ((dfu_resend_offset + SECTOR) % Wrap) % SECTOR = 0
      BY <1>1, <1>3, WrappedStep
<1>4. QED
      BY <1>1, <1>2, <1>3 DEF NextResend

-----------------------------------------------------------------------------
(* What a step does to the flash.                                          *)

\* What the service writes, where, and to which flash.  No image is counted in
\* the combined bank: that needs the application task and no bank switching.
WriterOK ==
    /\ nor \in Flash
    /\ ota_temp_buffer \in Seq(Content)
    /\ cur_offset \in Nat
    /\ image_id \in ImageId
    /\ temp_image_num = 0
    /\ temp_image_info \in [0 .. MaxTemp - 1 ->
                              [image_id : ImageId, image_size : Nat, image_offset : Nat]]

\* The banks that ACTIVE_IMAGE_RESET may set ready.
UserBanks == {TempBase[u] : u \in UserLoop}

\* The retries leave the flash protected when it was, also for an image id
\* without a bank.
LEMMA ResendEraseType ==
    ASSUME NEW n \in Flash, NEW o \in ResendErase(n)
    PROVE  /\ o \in Outcome(n)
           /\ TempBase[image_id] # 0 => o.nor.bp = TRUE
           /\ TempBase[image_id] = 0 => o.nor = n
<1> DEFINE retry(m, offset) == dfu_flash_erase_sector_with_retry(m, image_id, offset)
<1>1. CASE o \in retry(n, dfu_resend_offset)
      BY <1>1, RetryType
<1>2. CASE \E p \in retry(n, dfu_resend_offset) : o \in retry(p.nor, dfu_resend_offset + SECTOR)
  <2>1. PICK p \in retry(n, dfu_resend_offset) : o \in retry(p.nor, dfu_resend_offset + SECTOR)
        BY <1>2
  <2>2. p \in Outcome(n) /\ (TempBase[image_id] = 0 => p.nor = n)
        BY RetryType
  <2>3. p.nor \in Flash /\ p.nor.ready \subseteq n.ready
        BY <2>2 DEF Outcome
  <2>4. /\ o \in Outcome(p.nor)
        /\ TempBase[image_id] # 0 => o.nor.bp = TRUE
        /\ TempBase[image_id] = 0 => o.nor = p.nor
        BY <2>1, <2>3, RetryType
  <2>5. QED
        BY <2>2, <2>3, <2>4 DEF Outcome
<1>3. QED
      BY <1>1, <1>2 DEF ResendErase

\* What every step does to the flash: it stays one, only user data becomes ready
\* and headers of hs, and with bank switching a device that keeps running stays
\* protected.
FlashKeptBut(hs) ==
    /\ nor' \in Flash
    /\ nor'.ready \subseteq nor.ready \cup UserBanks \cup hs
    /\ (BankSwitch /\ power' = "on" /\ (power = "on" => nor.bp)) => nor'.bp
FlashKept == FlashKeptBut({})

\* The headers in data that a packet or a buffer sets ready.
HeadersFlushed(data) == HeadersSent(image_id, cur_offset, EntryOffset, data)

\* What dfu_update does to the flash when a packet or a buffer goes there.
LEMMA UpdateStep ==
    ASSUME WriterOK, NEW data \in Seq(Content),
           NEW o \in dfu_update(nor, image_id, cur_offset, EntryOffset, data)
    PROVE  /\ o \in OutcomeWith(nor, HeadersFlushed(data))
           /\ o.ok => o.nor.bp = TRUE
           /\ TempBase[image_id] = 0 => o.nor = nor
<1>1. EntryOffset \in Nat
      BY ServiceAssumption DEF WriterOK, EntryOffset
<1>2. nor \in Flash /\ image_id \in ImageId /\ cur_offset \in Nat
      BY DEF WriterOK
<1>3. o \in OutcomeWith(nor, HeadersFlushed(data)) /\ (o.ok => o.nor.bp = TRUE)
      BY <1>1, <1>2, UpdateType, Zenon DEF HeadersFlushed
<1>4. QED
      BY <1>3, UpdateNoBank

\* Without headers that are sent ready none is set ready by data.
LEMMA NoneFlushed ==
    ASSUME Released = {}, NEW data
    PROVE  HeadersFlushed(data) = {}
BY NoneSent, Zenon DEF HeadersFlushed

\* A command that leaves the flash alone.
LEMMA FlashUntouched ==
    ASSUME WriterOK, UNCHANGED nor, power' = "on" => power = "on"
    PROVE  \A hs : FlashKeptBut(hs)
BY DEF FlashKeptBut, WriterOK

\* A packet: one that is flushed leaves the flash open only when the device resets.
LEMMA FlashPacket ==
    ASSUME WriterOK, NEW data \in Seq(Content), PacketReq(data)
    PROVE  FlashKeptBut(HeadersFlushed(ota_temp_buffer \o data))
<1>1. ota_temp_buffer \o data \in Seq(Content)
      BY DEF WriterOK
<1>2. CASE PacketIgnored \/ PacketBuffered(data)
      BY <1>2, FlashUntouched DEF PacketIgnored, PacketBuffered, dfuVars, Running
<1>3. CASE PacketPlain(data)
  <2>1. CASE UNCHANGED nor
        BY <1>3, <2>1, FlashUntouched DEF PacketPlain, Running
  <2>2. CASE \E o \in dfu_update(nor, image_id, cur_offset, EntryOffset, ota_temp_buffer \o data) :
               /\ nor' = o.nor
               /\ o.ok \/ power' = "fail"
    <3>1. PICK o \in dfu_update(nor, image_id, cur_offset, EntryOffset, ota_temp_buffer \o data) :
               /\ nor' = o.nor
               /\ o.ok \/ power' = "fail"
          BY <2>2
    <3>2. /\ o.nor \in Flash
          /\ o.nor.ready \subseteq nor.ready \cup HeadersFlushed(ota_temp_buffer \o data)
          /\ o.ok => o.nor.bp = TRUE
          BY <1>1, UpdateStep DEF OutcomeWith
    <3>3. QED
          BY <3>1, <3>2 DEF FlashKeptBut
  <2>3. QED
        BY <1>3, <2>1, <2>2 DEF PacketPlain, dfu_fw_reboot
<1>4. QED
      BY <1>2, <1>3 DEF PacketReq

\* A buffer report: the retries protect what a failed update left open.
LEMMA FlashReport ==
    ASSUME WriterOK, NEW size, NEW ok, ReportBufferCrc(size, ok)
    PROVE  FlashKeptBut(HeadersFlushed(ota_temp_buffer))
<1>1. power = "on" /\ power' = "on"
      BY DEF ReportBufferCrc, Running
<1>2. CASE UNCHANGED nor
      BY <1>1, <1>2, FlashUntouched
<1>3. CASE \E o \in dfu_update(nor, image_id, cur_offset, EntryOffset, ota_temp_buffer) :
             BufferWritten(o) \/ BufferLost(o)
  <2>1. PICK o \in dfu_update(nor, image_id, cur_offset, EntryOffset, ota_temp_buffer) :
             BufferWritten(o) \/ BufferLost(o)
        BY <1>3
  <2>2. /\ o.nor \in Flash
        /\ o.nor.ready \subseteq nor.ready \cup HeadersFlushed(ota_temp_buffer)
        /\ o.ok => o.nor.bp = TRUE
        /\ TempBase[image_id] = 0 => o.nor = nor
        BY UpdateStep DEF OutcomeWith, WriterOK
  <2>3. CASE BufferWritten(o)
        BY <2>2, <2>3 DEF BufferWritten, FlashKeptBut
  <2>4. CASE BufferLost(o)
    <3>1. PICK e \in ResendErase(o.nor) : nor' = e.nor
          BY <2>4 DEF BufferLost
    <3>2. /\ e.nor \in Flash /\ e.nor.ready \subseteq o.nor.ready
          /\ TempBase[image_id] # 0 => e.nor.bp = TRUE
          /\ TempBase[image_id] = 0 => e.nor = o.nor
          BY <2>2, ResendEraseType DEF Outcome
    <3>3. QED
          BY <1>1, <2>2, <3>1, <3>2 DEF FlashKeptBut
  <2>5. QED
        BY <2>1, <2>3, <2>4
<1>4. QED
      BY <1>2, <1>3 DEF ReportBufferCrc

\* With no entry in the combined bank ACTIVE_IMAGE_RESET is about user data.
LEMMA ActivationHeaders ==
    ASSUME WriterOK
    PROVE  EntryHeaders = {} /\ UserHeaders \subseteq Addr /\ UserHeaders \subseteq UserBanks
<1>1. EntryHeaders = {}
  <2>1. 0 .. temp_image_num - 1 = {}
        BY DEF WriterOK
  <2>2. QED
        BY <2>1 DEF EntryHeaders
<1>2. UserHeaders \subseteq Addr /\ UserHeaders \subseteq UserBanks
  <2>1. ASSUME NEW u \in UserLoop, TempBase[u] # 0
        PROVE  TempBase[u] \in Addr
    <3>1. /\ TempBase[u] \in Nat /\ TempSize[u] \in Nat \ {0} /\ FlashSize \in Nat
          /\ TempBase[u] + TempSize[u] <= FlashSize
          BY <2>1, ImageAssumption, ServiceAssumption, FlashAssumption
    <3>2. QED
          BY <3>1 DEF Addr
  <2>2. QED
        BY <2>1 DEF UserHeaders, UserBanks
<1>3. QED
      BY <1>1, <1>2

\* ACTIVE_IMAGE_RESET: with no entry in the combined bank only user data is set
\* ready.
LEMMA FlashActivate ==
    ASSUME WriterOK, ActiveImageReset
    PROVE  \A new : FlashKeptBut(new)
<1> DEFINE hs == EntryHeaders \cup UserHeaders
<1>1. power = "on" /\ power' = "on"
      BY DEF ActiveImageReset, Running
<1>2. EntryHeaders = {}
      BY ActivationHeaders
<1>3. UserHeaders \subseteq Addr /\ UserHeaders \subseteq UserBanks
      BY ActivationHeaders
<1>4. hs \in SUBSET Addr /\ hs \subseteq UserBanks
      BY <1>2, <1>3
<1>5. PICK w \in dfu_set_image_ready(nor, hs) :
             nor' = IF BankSwitch THEN w ELSE unlock_flash_bp_all(w)
      BY DEF ActiveImageReset, dfu_service_handle_active_image
<1>6. /\ w \in Flash
      /\ nor.bp = TRUE => w.bp = TRUE
      /\ w.ready \subseteq nor.ready \cup hs
      BY <1>4, <1>5, ReadyType DEF WriterOK
<1>7. nor.bp \in BOOLEAN
      BY DEF WriterOK, Flash
<1>8. unlock_flash_bp_all(w) \in Flash /\ unlock_flash_bp_all(w).ready = w.ready
      BY <1>6, BpType
<1>9. QED
      BY <1>1, <1>4, <1>5, <1>6, <1>7, <1>8 DEF FlashKeptBut

\* SYSTEM_RESET erases at most, and resets the device.
LEMMA FlashReset ==
    ASSUME WriterOK, SystemReset
    PROVE  \A hs : FlashKeptBut(hs)
<1>1. power' # "on"
      BY DEF SystemReset, dfu_fw_reboot
<1>2. CASE UNCHANGED nor
      BY <1>1, <1>2, FlashUntouched
<1>3. CASE \E e \in dfu_flash_erase_sector(nor, TempBase[image_id]) : nor' = e.nor
  <2>1. nor' \in Flash /\ nor'.ready \subseteq nor.ready
        BY <1>3, EraseType DEF Outcome, WriterOK
  <2>2. QED
        BY <1>1, <2>1 DEF FlashKeptBut
<1>4. QED
      BY <1>2, <1>3 DEF SystemReset
=============================================================================
