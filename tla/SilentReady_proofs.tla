------------------------- MODULE SilentReady_proofs -------------------------
(***************************************************************************)
(* Which images a silent update with bank switching makes ready: whole     *)
(* ones only, and never the one that is being sent.                        *)
(***************************************************************************)
EXTENDS SilentOta_proofs

\* No client starts over after a lost connection: each has the device reset.
Patient == \A c \in Clients : ~c.restart

-----------------------------------------------------------------------------
(* One thing at a time: a client that goes on step by step has at most one *)
(* answer coming, and the task has nothing to do but what it waits for.    *)

\* A client that waits for no answer has none coming, one that does has at most
\* that one, and the task works between VALID_FW and its answer only.
InTurn == /\ notif = << >> \/ \E n : notif = <<n>> /\ n.op = client /\ client \in Answers
          /\ client # "VALID_FW" \/ notif # << >> => validQueue = 0 /\ task = "wait"
          /\ validQueue = 0 \/ (validQueue = 1 /\ task = "wait")

\* A client that gives up waits for nothing but the reset.
GivenUp == {"lost", "reset"}

TurnsOK == Running /\ client \notin GivenUp => InTurn

\* A queue of one answer.
LEMMA OneAnswer ==
    ASSUME NEW n
    PROVE  Append(<< >>, n) = <<n>> /\ Head(<<n>>) = n /\ Tail(<<n>>) = << >> /\ <<n>> # << >>
OBVIOUS

\* A command of the client that is answered.
LEMMA TurnAsked ==
    ASSUME Running, TurnsOK, client \notin GivenUp, client \notin Answers,
           NEW op \in Answers \ {"VALID_FW"}, NEW res, NEW off, Notify(op, res, off), client' = op,
           UNCHANGED <<validQueue, task>>
    PROVE  TurnsOK'
<1>1. InTurn /\ notif = << >>
      BY DEF TurnsOK, InTurn
<1>2. PICK n : n = [op |-> op, res |-> res, off |-> off]
      OBVIOUS
<1>3. notif' = <<n>> /\ n.op = client' /\ client' \in Answers
      BY <1>1, <1>2, OneAnswer DEF Notify
<1>4. client # "VALID_FW" /\ client' # "VALID_FW"
      BY DEF Answers
<1>5. validQueue = 0 /\ task = "wait"
      BY <1>1, <1>4 DEF InTurn
<1>6. InTurn'
      BY <1>3, <1>5 DEF InTurn
<1>7. QED
      BY <1>6 DEF TurnsOK

\* A step of the client that no answer follows.
LEMMA TurnSilent ==
    ASSUME Running, TurnsOK, client \notin GivenUp, client \notin Answers,
           client' \notin Answers, UNCHANGED <<notif, validQueue, task>>
    PROVE  TurnsOK'
<1>1. InTurn /\ notif = << >> /\ client # "VALID_FW" /\ client' # "VALID_FW"
      BY DEF TurnsOK, InTurn, Answers
<1>2. InTurn'
      BY <1>1 DEF InTurn
<1>3. QED
      BY <1>2 DEF TurnsOK

\* The steps of the client.
LEMMA TurnClient ==
    ASSUME SessionInv, TurnsOK, Patient, ClientStep
    PROVE  TurnsOK'
<1>1. current.by \in Clients
      BY DEF SessionInv, Shape
<1>2. CASE Connect
      BY <1>2, TurnSilent DEF Connect, GivenUp, Answers, dfuVars, ramVars, sessionVars, taskVars
<1>3. CASE Reconnect
  <2>1. client' = "reset"
        BY <1>1, <1>3 DEF Reconnect, Patient
  <2>2. QED
        BY <2>1 DEF TurnsOK, GivenUp
<1>4. CASE Enable
  <2>1. Running /\ client = "enable" /\ UNCHANGED <<validQueue, task>>
        BY <1>4 DEF Enable, At, Quiet, taskVars
  <2>2. CASE UNCHANGED dfuVars /\ client' = "info"
        BY <2>1, <2>2, TurnSilent DEF GivenUp, Answers, dfuVars, ramVars, sessionVars
  <2>3. CASE BufferCheckEn /\ client' = "BUFFER_CHECK_EN"
        BY <2>1, <2>3, TurnAsked DEF GivenUp, Answers, BufferCheckEn
  <2>4. QED
        BY <1>4, <2>2, <2>3 DEF Enable, GoTo
<1>5. CASE Info
  <2>1. /\ Running /\ client = "info" /\ UNCHANGED <<validQueue, task>>
        /\ client' = "REPORT_TARGET_INFO" /\ Notify("REPORT_TARGET_INFO", "SUCCESS", 0)
        BY <1>5 DEF Info, At, Quiet, taskVars, GoTo, ReportTargetInfo
  <2>2. QED
        BY <2>1, TurnAsked DEF GivenUp, Answers
<1>6. CASE Start
  <2>1. /\ Running /\ client = "start" /\ UNCHANGED <<validQueue, task>>
        /\ client' = "START_DFU" /\ \E res : Notify("START_DFU", res, 0)
        BY <1>6 DEF Start, At, Quiet, taskVars, GoTo, StartDfu
  <2>2. QED
        BY <2>1, TurnAsked DEF GivenUp, Answers
<1>7. CASE Offset
      BY <1>7, TurnSilent DEF Offset, At, Quiet, taskVars, ReceiveFwImageInfo, GivenUp, Answers
<1>8. CASE SendPacket \/ SendRest
  <2>1. Running /\ client = "send" /\ UNCHANGED <<validQueue, task, client>>
        BY <1>8 DEF SendPacket, SendRest, At, Quiet, taskVars
  <2>2. UNCHANGED notif
    <3>1. UNCHANGED dfuVars \/ \E data : PacketReq(data)
          BY <1>8 DEF SendPacket, SendRest, Packet
    <3>2. ASSUME NEW data, PacketReq(data)
          PROVE  UNCHANGED notif
          BY <3>2 DEF PacketReq, PacketIgnored, PacketBuffered, PacketPlain, dfuVars, ramVars,
             sessionVars
    <3>3. QED
          BY <3>1, <3>2 DEF dfuVars, ramVars
  <2>3. QED
        BY <2>1, <2>2, TurnSilent DEF GivenUp, Answers
<1>9. CASE SendBufferCrc
  <2>1. /\ Running /\ client = "send" /\ UNCHANGED <<validQueue, task>>
        /\ client' = "REPORT_BUFFER_CRC"
        BY <1>9 DEF SendBufferCrc, At, Quiet, taskVars, GoTo
  <2>2. \E res, off : Notify("REPORT_BUFFER_CRC", res, off)
        BY <1>9 DEF SendBufferCrc, ReportBufferCrc, BufferWritten, BufferLost
  <2>3. QED
        BY <2>1, <2>2, TurnAsked DEF GivenUp, Answers
<1>10. CASE SendValidFw
  <2>1. /\ Running /\ client = "send" /\ client' = "VALID_FW" /\ notif' = notif /\ task' = task
        /\ validQueue' \in {validQueue, validQueue + 1}
        BY <1>10 DEF SendValidFw, At, GoTo, ValidFw
  <2>2. InTurn
        BY <2>1 DEF TurnsOK, GivenUp
  <2>3. notif = << >> /\ validQueue = 0 /\ task = "wait"
        BY <2>1, <2>2 DEF InTurn, Answers
  <2>4. InTurn'
        BY <2>1, <2>3 DEF InTurn
  <2>5. QED
        BY <2>4 DEF TurnsOK
<1>11. CASE SendActiveImageReset
      BY <1>11, TurnSilent
      DEF SendActiveImageReset, At, ActiveImageReset, ramVars, taskVars, GivenUp, Answers
<1>12. CASE SendSystemReset
      BY <1>12 DEF SendSystemReset, SystemReset, dfu_fw_reboot, TurnsOK, Running
<1>13. CASE Receive
  <2>1. /\ Running /\ notif # << >> /\ notif' = Tail(notif) /\ UNCHANGED <<validQueue, task>>
        /\ Head(notif).op # client => client' = client
        /\ client' \in {client, "info", "start", "offset", "send", "reset", "activate"}
               \/ Head(notif).op \notin Answers
        /\ Head(notif).op = client /\ client \in Answers => client' \notin Answers
        BY <1>13 DEF Receive, taskVars, Answers, clientVars
  <2>2. Head(notif).op \in Answers
    <3>1. notif \in Seq(Notification)
          BY DEF SessionInv, Shape
    <3>2. Head(notif) \in Notification
          BY <2>1, <3>1
    <3>3. QED
          BY <3>2 DEF Notification
  <2>3. CASE client \in GivenUp
    <3>1. client' = client
          BY <2>1, <2>2, <2>3 DEF GivenUp, Answers
    <3>2. QED
          BY <2>3, <3>1 DEF TurnsOK
  <2>4. CASE client \notin GivenUp
    <3>1. InTurn
          BY <2>1, <2>4 DEF TurnsOK
    <3>2. PICK n : notif = <<n>> /\ n.op = client /\ client \in Answers
          BY <2>1, <3>1 DEF InTurn
    <3>3. validQueue = 0 /\ task = "wait"
          BY <2>1, <3>1 DEF InTurn
    <3>4. notif' = << >> /\ client' \notin Answers
          BY <2>1, <3>2, OneAnswer
    <3>5. InTurn'
          BY <2>1, <3>3, <3>4 DEF InTurn
    <3>6. QED
          BY <3>5 DEF TurnsOK
  <2>5. QED
        BY <2>3, <2>4
<1>14. QED
      BY <1>2, <1>3, <1>4, <1>5, <1>6, <1>7, <1>8, <1>9, <1>10, <1>11, <1>12, <1>13 DEF ClientStep
\* The steps of the task.
LEMMA TurnTask ==
    ASSUME SessionInv, TurnsOK, TaskStep
    PROVE  TurnsOK'
<1>1. Running /\ UNCHANGED <<power, client>>
      BY DEF TaskStep, TaskCheck, TaskUnlock, TaskSetReady, TaskLock, TaskReport, TaskOnly,
         clientVars
<1>2. CASE client \in GivenUp
      BY <1>1, <1>2 DEF TurnsOK
<1>3. CASE client \notin GivenUp
  <2>1. InTurn
        BY <1>1, <1>3 DEF TurnsOK
  <2>2. CASE TaskCheck
    <3>1. /\ validQueue > 0 /\ task = "wait" /\ validQueue' = validQueue - 1 /\ notif' = notif
          /\ task' \in {"unlock", "report"}
          BY <2>2 DEF TaskCheck
    <3>2. client = "VALID_FW" /\ notif = << >> /\ validQueue = 1
          BY <2>1, <3>1 DEF InTurn
    <3>3. InTurn'
          BY <1>1, <3>1, <3>2 DEF InTurn
    <3>4. QED
          BY <3>3 DEF TurnsOK
  <2>3. CASE TaskUnlock \/ TaskSetReady \/ TaskLock
    <3>1. task # "wait" /\ task' # "wait" /\ UNCHANGED <<validQueue, notif>>
          BY <2>3 DEF TaskUnlock, TaskSetReady, TaskLock
    <3>2. client = "VALID_FW" /\ notif = << >> /\ validQueue = 0
          BY <2>1, <3>1 DEF InTurn
    <3>3. InTurn'
          BY <1>1, <3>1, <3>2 DEF InTurn
    <3>4. QED
          BY <3>3 DEF TurnsOK
  <2>4. CASE TaskReport
    <3>1. /\ task # "wait" /\ task' = "wait" /\ UNCHANGED validQueue
          /\ notif' = notif \/ \E res : Notify("VALID_FW", res, 0)
          BY <2>4 DEF TaskReport
    <3>2. client = "VALID_FW" /\ notif = << >> /\ validQueue = 0
          BY <2>1, <3>1 DEF InTurn
    <3>3. notif' = << >> \/ \E n : notif' = <<n>> /\ n.op = "VALID_FW"
      <4>1. ASSUME NEW res, Notify("VALID_FW", res, 0)
            PROVE  \E n : notif' = <<n>> /\ n.op = "VALID_FW"
        <5>1. PICK n : n = [op |-> "VALID_FW", res |-> res, off |-> 0]
              OBVIOUS
        <5>2. notif' = <<n>> /\ n.op = "VALID_FW"
              BY <3>2, <4>1, <5>1, OneAnswer DEF Notify
        <5>3. QED
              BY <5>2
      <4>2. QED
            BY <3>1, <3>2, <4>1
    <3>4. InTurn'
          BY <1>1, <3>1, <3>2, <3>3 DEF InTurn, Answers
    <3>5. QED
          BY <3>4 DEF TurnsOK
  <2>5. QED
        BY <2>2, <2>3, <2>4 DEF TaskStep
<1>4. QED
      BY <1>2, <1>3

\* The rest: the connection, resets and power.
LEMMA TurnRest ==
    ASSUME TurnsOK, DisconnectAll \/ LinkLoss \/ Boot \/ PowerLoss \/ PowerLossInUpdate
                    \/ PowerLossInActivation \/ Over \/ UNCHANGED vars
    PROVE  TurnsOK'
<1>1. CASE DisconnectAll \/ PowerLoss \/ PowerLossInUpdate \/ PowerLossInActivation
      BY <1>1 DEF DisconnectAll, Disconnected, dfu_fw_reboot, PowerLoss, PowerLossInUpdate,
         PowerLossInActivation, TurnsOK, Running
<1>2. CASE LinkLoss
  <2>1. /\ Running /\ notif' = << >> /\ UNCHANGED <<validQueue, task>>
        /\ client' = "lost" \/ (client' = client /\ client \in {"off", "done", "declined"})
        BY <1>2 DEF LinkLoss, Disconnected, Lost, taskVars
  <2>2. CASE client' = "lost"
        BY <2>2 DEF TurnsOK, GivenUp
  <2>3. CASE client' = client /\ client \in {"off", "done", "declined"}
    <3>1. InTurn
          BY <2>1, <2>3 DEF TurnsOK, GivenUp
    <3>2. validQueue = 0 /\ task = "wait"
          BY <2>3, <3>1 DEF InTurn
    <3>3. InTurn'
          BY <2>1, <2>3, <3>2 DEF InTurn
    <3>4. QED
          BY <3>3 DEF TurnsOK
  <2>4. QED
        BY <2>1, <2>2, <2>3
<1>3. CASE Boot
  <2>1. notif' = << >> /\ validQueue' = 0 /\ task' = "wait"
        BY <1>3 DEF Boot, RamReset, TaskReset
  <2>2. InTurn'
        BY <2>1 DEF InTurn
  <2>3. QED
        BY <2>2 DEF TurnsOK
<1>4. CASE UNCHANGED vars
      BY <1>4 DEF vars, dfuVars, ramVars, clientVars, taskVars, TurnsOK, Running, InTurn
<1>5. QED
      BY <1>1, <1>2, <1>3, <1>4 DEF Over

\* A patient client and the task take turns.
LEMMA TurnStep ==
    ASSUME SessionInv, TurnsOK, Patient, [Next]_vars
    PROVE  TurnsOK'
BY TurnClient, TurnTask, TurnRest DEF Next

-----------------------------------------------------------------------------
(* The banks of the images that are sent.                                  *)

\* Where an image at a lies in the bank of each of the ids: from its start on,
\* or nowhere.
Lodged(m, a, ids) ==
    \A id \in ids : \/ a = TempBase[id] /\ Total[m] <= TempSize[id]
                    \/ \A i \in 0 .. Total[m] - 1 : a + i \notin Bank(id)

IdsOf(c) == {IdOf[c.plan[k]] : k \in 1 .. Len(c.plan)}

\* Each image that is sent has a bank, and two ids share none.
OwnBanks == \A c \in Clients :
               \A id \in IdsOf(c) : /\ TempBase[id] # 0
                                    /\ \A other \in IdsOf(c) \ {id} : \A x \in Bank(id) : x \notin Bank(other)

\* What an earlier update left is in the flash, apart from each other, and where
\* an update puts it.
OldLodged == \A m \in DOMAIN OldImage :
                /\ OldImage[m] + Total[m] <= FlashSize
                /\ \A l \in DOMAIN OldImage \ {m} : \/ OldImage[m] + Total[m] <= OldImage[l]
                                                    \/ OldImage[l] + Total[l] <= OldImage[m]
                /\ \A c \in Clients : Lodged(m, OldImage[m], IdsOf(c))

\* What is ready is whole and lodged, and a header at the start of a bank
\* announces an image that fits.
Housed(n) == \A a \in n.ready : \E m \in Image : IntactAt(n, m, a) /\ Lodged(m, a, PlanIds)

HeadersFit(n) == \A id \in PlanIds : \A m \in Image :
                    n.mem[TempBase[id]] = <<m, 0>> => Total[m] <= TempSize[id]

\* Once cells of an image are received, what stood in its bank is not ready.
NotReady == Running /\ client \in {"send", "REPORT_BUFFER_CRC"} /\ cur_offset > 0 =>
                TempBase[Id] \notin nor.ready

\* What the task is about to set ready is whole.
TaskHolds == Running /\ task \in {"unlock", "set"} => \E m \in Image : IntactAt(nor, m, header)

ReadyOK == Housed(nor) /\ HeadersFit(nor) /\ NotReady /\ TaskHolds

\* What the assumptions say of the client there is.
LEMMA PlanOwn ==
    ASSUME Shape
    PROVE  /\ current.by \in Clients /\ PlanIds = IdsOf(current.by)
           /\ OwnBanks => \A id \in PlanIds :
                 /\ id \in ImageId /\ TempBase[id] # 0
                 /\ \A other \in PlanIds \ {id} : \A x \in Bank(id) : x \notin Bank(other)
<1>1. current.by \in Clients /\ PlanIds = IdsOf(current.by)
      BY DEF Shape, PlanIds, IdsOf, Plan
<1>2. \A id \in PlanIds : id \in ImageId
  <2>1. Plan \in Seq(Image)
        BY ImageType
  <2>2. QED
        BY <2>1, LayoutAssumption DEF PlanIds
<1>3. QED
      BY <1>1, <1>2 DEF OwnBanks

\* Work on the bank of one image leaves the others as they are.
LEMMA HousedWork ==
    ASSUME NEW n, NEW w, NEW id \in PlanIds, NEW k, Work(w, n, id, k),
           k = 0 \/ TempBase[id] \notin n.ready, Housed(n)
    PROVE  Housed(w)
<1> SUFFICES ASSUME NEW a \in w.ready
             PROVE  \E m \in Image : IntactAt(w, m, a) /\ Lodged(m, a, PlanIds)
    BY DEF Housed
<1>1. PICK m \in Image : IntactAt(n, m, a) /\ Lodged(m, a, PlanIds)
      BY DEF Housed, Work
<1>2. CASE w.mem = n.mem
      BY <1>1, <1>2 DEF IntactAt
<1>3. CASE TempBase[id] \notin w.ready
  <2>1. \A i \in 0 .. Total[m] - 1 : a + i \notin Bank(id)
        BY <1>1, <1>3 DEF Lodged
  <2>2. IntactAt(w, m, a)
        BY <1>1, <2>1 DEF IntactAt, Work, Alike
  <2>3. QED
        BY <1>1, <2>2
<1>4. QED
      BY <1>2, <1>3 DEF Work

\* Work on a bank leaves there a header that fits.
LEMMA HeadersWork ==
    ASSUME Shape, OwnBanks, NEW n, NEW w, NEW id \in PlanIds, NEW k, Work(w, n, id, k),
           HeadersFit(n)
    PROVE  HeadersFit(w)
<1> SUFFICES ASSUME NEW other \in PlanIds, NEW m \in Image, w.mem[TempBase[other]] = <<m, 0>>
             PROVE  Total[m] <= TempSize[other]
    BY DEF HeadersFit
<1>1. CASE other = id
      BY <1>1 DEF HeadersFit, Work
<1>2. CASE other # id
  <2>1. TempBase[other] \in Addr /\ TempBase[other] \notin Bank(id)
        BY <1>2, PlanOwn, BankStart
  <2>2. n.mem[TempBase[other]] = <<m, 0>>
        BY <2>1 DEF Work, Alike
  <2>3. QED
        BY <2>2 DEF HeadersFit
<1>3. QED
      BY <1>1, <1>2

\* A flash with the same content houses the same images.
LEMMA HousedSame ==
    ASSUME NEW n, NEW w, w.ready \subseteq n.ready, \A x \in Addr : w.mem[x] = n.mem[x]
    PROVE  /\ Housed(n) => Housed(w)
           /\ Shape /\ OwnBanks /\ HeadersFit(n) => HeadersFit(w)
           /\ \A m, a : IntactAt(n, m, a) => IntactAt(w, m, a)
<1>1. \A m, a : IntactAt(n, m, a) => IntactAt(w, m, a)
      BY DEF IntactAt
<1>2. ASSUME Shape, OwnBanks, HeadersFit(n)
      PROVE  HeadersFit(w)
  <2>1. \A id \in PlanIds : TempBase[id] \in Addr
        BY <1>2, PlanOwn, BankStart
  <2>2. QED
        BY <1>2, <2>1 DEF HeadersFit
<1>3. QED
      BY <1>1, <1>2 DEF Housed

\* A whole image at the start of its bank may be set ready.
LEMMA HousedReady ==
    ASSUME Shape, OwnBanks, NEW n \in Flash, NEW id \in PlanIds, NEW m \in Image,
           IntactAt(n, m, TempBase[id]), NEW w \in ClearNotReady(n, {TempBase[id]}),
           Housed(n), HeadersFit(n)
    PROVE  Housed(w) /\ HeadersFit(w) /\ \A x \in Addr : w.mem[x] = n.mem[x]
<1> DEFINE a == TempBase[id]
<1>1. /\ id \in ImageId /\ TempBase[id] # 0 /\ a \in Addr /\ a \in Nat
      /\ Total[m] \in Nat \ {0} /\ TempSize[id] \in Nat
      BY PlanOwn, BankStart, ImageAssumption
<1>2. n.mem[a] = <<m, 0>>
  <2>1. 0 \in 0 .. Total[m] - 1 /\ a + 0 = a
        BY <1>1
  <2>2. QED
        BY <2>1 DEF IntactAt
<1>3. Total[m] <= TempSize[id]
      BY <1>2 DEF HeadersFit
<1>4. Lodged(m, a, PlanIds)
  <2>1. ASSUME NEW other \in PlanIds \ {id}, NEW i \in 0 .. Total[m] - 1
        PROVE  a + i \notin Bank(other)
    <3>1. a + i \in Bank(id)
          BY <1>1, <1>3 DEF Bank
    <3>2. QED
          BY <3>1, PlanOwn
  <2>2. QED
        BY <1>3, <2>1 DEF Lodged
<1>5. ASSUME NEW x \in Addr
      PROVE  w.mem[x] = n.mem[x]
  <2>1. {a} \in SUBSET Addr /\ (n.mem[x] # Erased \/ x \notin {a})
        BY <1>1, <1>2, NoHeader
  <2>2. QED
        BY <2>1, ClearCells
<1>6. w.ready \subseteq n.ready \cup {a}
      BY <1>1, ClearType
<1>7. ASSUME NEW b \in w.ready
      PROVE  \E l \in Image : IntactAt(w, l, b) /\ Lodged(l, b, PlanIds)
  <2>1. \E l \in Image : IntactAt(n, l, b) /\ Lodged(l, b, PlanIds)
        BY <1>4, <1>6, <1>7 DEF Housed
  <2>2. QED
        BY <1>5, <2>1 DEF IntactAt
<1>8. HeadersFit(w)
  <2>1. \A other \in PlanIds : TempBase[other] \in Addr
        BY PlanOwn, BankStart
  <2>2. QED
        BY <1>5, <2>1 DEF HeadersFit
<1>9. QED
      BY <1>5, <1>7, <1>8 DEF Housed
-----------------------------------------------------------------------------
(* Every step makes whole images ready only.                               *)

\* What an earlier update left lies apart from each other.
OldApart == \A m, l \in DOMAIN OldImage : m # l =>
                OldImage[m] + Total[m] <= OldImage[l] \/ OldImage[l] + Total[l] <= OldImage[m]

\* What the initial flash holds at an address.
LEMMA OldCell ==
    ASSUME Init, OldApart, NEW x \in Addr
    PROVE  /\ \A m \in DOMAIN OldImage : x - OldImage[m] \in 0 .. Total[m] - 1 =>
                  nor.mem[x] = <<m, x - OldImage[m]>>
           /\ nor.mem[x] = Erased \/ \E m \in DOMAIN OldImage :
                  x - OldImage[m] \in 0 .. Total[m] - 1 /\ nor.mem[x] = <<m, x - OldImage[m]>>
<1> DEFINE holds == {m \in DOMAIN OldImage : x - OldImage[m] \in 0 .. Total[m] - 1}
<1>1. nor.mem[x] = IF holds = {} THEN Erased
                   ELSE LET m == CHOOSE i \in holds : TRUE IN <<m, x - OldImage[m]>>
      BY DEF Init, OldFlash
<1>2. ASSUME NEW m \in holds, NEW l \in holds
      PROVE  l = m
  <2>1. /\ OldImage[m] \in Nat /\ OldImage[l] \in Nat /\ Total[m] \in Nat /\ Total[l] \in Nat
        /\ x \in Nat
        BY LayoutAssumption, ImageAssumption DEF Addr
  <2>2. l # m => \/ OldImage[m] + Total[m] <= OldImage[l]
                 \/ OldImage[l] + Total[l] <= OldImage[m]
        BY DEF OldApart
  <2>3. QED
        BY <2>1, <2>2
<1>3. ASSUME NEW m \in holds
      PROVE  nor.mem[x] = <<m, x - OldImage[m]>>
  <2>1. (CHOOSE i \in holds : TRUE) = m
        BY <1>2, <1>3
  <2>2. QED
        BY <1>1, <1>3, <2>1
<1>4. QED
      BY <1>1, <1>3

\* What an earlier update left ready is whole and lodged.
LEMMA ReadyInit ==
    ASSUME Init, OldLodged, OwnBanks, Shape
    PROVE  ReadyOK
<1>0. OldApart
      BY DEF OldLodged, OldApart
<1>1. ASSUME NEW m \in DOMAIN OldImage
      PROVE  m \in Image /\ IntactAt(nor, m, OldImage[m]) /\ Lodged(m, OldImage[m], PlanIds)
  <2>1. m \in Image /\ OldImage[m] \in Nat /\ Total[m] \in Nat \ {0} /\ FlashSize \in Nat
        BY LayoutAssumption, ImageAssumption, FlashAssumption DEF Addr
  <2>2. Lodged(m, OldImage[m], PlanIds)
        BY PlanOwn DEF OldLodged
  <2>3. ASSUME NEW i \in 0 .. Total[m] - 1
        PROVE  OldImage[m] + i \in Addr /\ nor.mem[OldImage[m] + i] = <<m, i>>
    <3>1. OldImage[m] + i \in Addr
          BY <2>1 DEF OldLodged, Addr
    <3>2. PICK x \in Addr : x = OldImage[m] + i
          BY <3>1
    <3>3. x - OldImage[m] = i
          BY <2>1, <3>2
    <3>4. nor.mem[x] = <<m, i>>
          BY <1>0, <3>3, OldCell
    <3>5. QED
          BY <3>1, <3>2, <3>4
  <2>4. QED
        BY <2>1, <2>2, <2>3 DEF IntactAt
<1>2. nor.ready = {OldImage[m] : m \in DOMAIN OldImage}
      BY DEF Init, OldFlash
<1>3. Housed(nor)
      BY <1>1, <1>2 DEF Housed
<1>4. HeadersFit(nor)
  <2> SUFFICES ASSUME NEW id \in PlanIds, NEW m \in Image, nor.mem[TempBase[id]] = <<m, 0>>
               PROVE  Total[m] <= TempSize[id]
      BY DEF HeadersFit
  <2>1. TempBase[id] \in Addr /\ TempBase[id] \in Bank(id) /\ TempBase[id] \in Nat
        BY PlanOwn, BankStart DEF Addr
  <2>2. nor.mem[TempBase[id]] # Erased
        BY NoHeader
  <2>3. PICK l \in DOMAIN OldImage : nor.mem[TempBase[id]] = <<l, TempBase[id] - OldImage[l]>>
        BY <1>0, <2>1, <2>2, OldCell
  <2>4. l = m /\ TempBase[id] - OldImage[l] = 0
        BY <2>3
  <2>5. OldImage[l] \in Nat /\ Total[l] \in Nat \ {0}
        BY LayoutAssumption, ImageAssumption DEF Addr
  <2>6. OldImage[l] = TempBase[id] /\ 0 \in 0 .. Total[l] - 1 /\ OldImage[l] + 0 = TempBase[id]
        BY <2>1, <2>4, <2>5
  <2>7. QED
        BY <1>1, <2>1, <2>4, <2>6 DEF Lodged
<1>5. NotReady /\ TaskHolds
      BY DEF Init, TaskInit, NotReady, TaskHolds
<1>6. QED
      BY <1>3, <1>4, <1>5 DEF ReadyOK

\* A step that leaves the client sending goes on with what it sent, or starts
\* at offset 0.
LEMMA SendingStep ==
    ASSUME SessionInv, [Next]_vars, ~(SendPacket \/ SendRest \/ SendBufferCrc),
           Running', client' \in {"send", "REPORT_BUFFER_CRC"}
    PROVE  \/ cur_offset' = 0
           \/ /\ Running /\ client \in {"send", "REPORT_BUFFER_CRC"}
              /\ UNCHANGED <<current, cur_offset>>
<1>1. CASE Offset
      BY <1>1 DEF Offset, ReceiveFwImageInfo
<1>2. CASE Connect \/ Reconnect \/ Enable \/ Info \/ Start \/ SendValidFw \/ SendActiveImageReset
           \/ SendSystemReset
      BY <1>2 DEF Connect, Reconnect, Enable, Info, Start, SendValidFw, SendActiveImageReset,
         SendSystemReset, GoTo
<1>3. CASE Receive
  <2>1. /\ Running /\ notif # << >> /\ UNCHANGED cur_offset
        /\ Head(notif).op # client => UNCHANGED <<client, current>>
        /\ Head(notif).op = "REPORT_BUFFER_CRC" => UNCHANGED current
        /\ Head(notif).op = client /\ Head(notif).op \in Answers \ {"REPORT_BUFFER_CRC"} =>
               client' \notin {"send", "REPORT_BUFFER_CRC"}
        BY <1>3 DEF Receive, clientVars, ramVars, sessionVars, Answers
  <2>2. Head(notif).op \in Answers
    <3>1. notif \in Seq(Notification)
          BY DEF SessionInv, Shape
    <3>2. Head(notif) \in Notification
          BY <2>1, <3>1
    <3>3. QED
          BY <3>2 DEF Notification
  <2>3. QED
        BY <2>1, <2>2
<1>4. CASE TaskStep
      BY <1>4 DEF TaskStep, TaskCheck, TaskUnlock, TaskSetReady, TaskLock, TaskReport, TaskOnly,
         Running, clientVars, ramVars, sessionVars
<1>5. CASE DisconnectAll \/ PowerLoss \/ PowerLossInUpdate \/ PowerLossInActivation
      BY <1>5 DEF DisconnectAll, Disconnected, dfu_fw_reboot, PowerLoss, PowerLossInUpdate,
         PowerLossInActivation, Running
<1>6. CASE LinkLoss \/ Boot
      BY <1>6 DEF LinkLoss, Lost, Boot
<1>7. CASE UNCHANGED vars
      BY <1>7 DEF vars, dfuVars, ramVars, sessionVars, clientVars, Running
<1>8. QED
      BY <1>1, <1>2, <1>3, <1>4, <1>5, <1>6, <1>7 DEF Next, ClientStep, Over
\* While the task sets an image ready the client sends nothing.
LEMMA NotBoth ==
    ASSUME TurnsOK, Running, task # "wait"
    PROVE  client \in GivenUp \cup {"VALID_FW"}
BY DEF TurnsOK, InTurn

\* The state of the client and the step decide which bank is worked on.
LEMMA WorkStep ==
    ASSUME SessionInv, DeviceInv, Sizes, Fits, NoUserData, BankOK, NotReady, [Next]_vars
    PROVE  \/ SameFlash
           \/ \E id \in PlanIds, k \in Nat : Work(nor', nor, id, k) /\ (k = 0 \/ TempBase[id] \notin nor.ready)
           \/ TaskSetReady
<1>1. ASSUME Running, client = "send"
      PROVE  /\ Id \in PlanIds /\ cur_offset \in Nat
             /\ cur_offset = 0 \/ TempBase[Id] \notin nor.ready
  <2>1. Id \in PlanIds /\ cur_offset \in Nat
        BY <1>1, SentBank
  <2>2. QED
        BY <1>1, <2>1 DEF NotReady
<1>2. CASE SendPacket \/ SendRest
  <2>1. Running /\ client = "send"
        BY <1>2 DEF SendPacket, SendRest, At
  <2>2. QED
        BY <1>1, <1>2, <2>1, WorkSend
<1>3. CASE SendBufferCrc
  <2>1. Running /\ client = "send"
        BY <1>3 DEF SendBufferCrc, At
  <2>2. QED
        BY <1>1, <1>3, <2>1, WorkReport
<1>4. CASE PowerLossInUpdate /\ Work(nor', nor, Id, cur_offset)
  <2>1. Running /\ client = "send"
        BY <1>4 DEF PowerLossInUpdate, At
  <2>2. QED
        BY <1>1, <1>4, <2>1
<1>5. QED
      BY <1>2, <1>3, <1>4, WorkRest

\* No step makes an image ready that is not whole.
LEMMA HousedStep ==
    ASSUME SessionInv, DeviceInv, Sizes, Fits, NoUserData, OwnBanks, BankOK, ReadyOK, [Next]_vars
    PROVE  Housed(nor)' /\ HeadersFit(nor)'
<1>1. Shape /\ nor \in Flash /\ Housed(nor) /\ HeadersFit(nor) /\ PlanIds' = PlanIds
      BY SamePlan DEF SessionInv, DeviceInv, ReadyOK
<1>2. Housed(nor') /\ HeadersFit(nor')
  <2>1. CASE SameFlash
        BY <1>1, <2>1, HousedSame DEF SameFlash
  <2>2. CASE \E id \in PlanIds, k \in Nat :
                Work(nor', nor, id, k) /\ (k = 0 \/ TempBase[id] \notin nor.ready)
        BY <1>1, <2>2, HousedWork, HeadersWork
  <2>3. CASE TaskSetReady
    <3>1. PICK id \in PlanIds : header = TempBase[id]
          BY <2>3 DEF TaskSetReady, BankOK
    <3>2. PICK m \in Image : IntactAt(nor, m, header)
          BY <2>3 DEF TaskSetReady, ReadyOK, TaskHolds
    <3>3. nor' \in ClearNotReady(nor, {TempBase[id]})
          BY <2>3, <3>1 DEF TaskSetReady
    <3>4. QED
          BY <1>1, <3>1, <3>2, <3>3, HousedReady
  <2>4. QED
        BY <2>1, <2>2, <2>3, WorkStep DEF ReadyOK
<1>3. QED
      BY <1>1, <1>2 DEF Housed, HeadersFit

\* The image that is being sent stays not ready.
LEMMA NotReadyStep ==
    ASSUME SessionInv, DeviceInv, Sizes, Fits, NoUserData, BankOK, TurnsOK, NotReady, [Next]_vars
    PROVE  NotReady'
<1>1. CASE SendPacket \/ SendRest \/ SendBufferCrc
  <2>1. Running /\ client = "send" /\ UNCHANGED current
        BY <1>1 DEF SendPacket, SendRest, SendBufferCrc, At, GoTo
  <2>2. Onward /\ Id' = Id
        BY <1>1, <2>1, WorkSend, WorkReport DEF Id, Img, Plan
  <2>3. QED
        BY <2>1, <2>2 DEF NotReady, Onward
<1>2. CASE ~(SendPacket \/ SendRest \/ SendBufferCrc)
  <2> SUFFICES ASSUME Running', client' \in {"send", "REPORT_BUFFER_CRC"}, cur_offset' > 0
               PROVE  TempBase[Id'] \notin nor'.ready
      BY DEF NotReady
  <2>1. /\ Running /\ client \in {"send", "REPORT_BUFFER_CRC"} /\ Id' = Id
        /\ TempBase[Id] \notin nor.ready
    <3>1. cur_offset' # 0
          OBVIOUS
    <3>2. QED
          BY <1>2, <3>1, SendingStep DEF NotReady, Id, Img, Plan
  <2>2. ~TaskSetReady
        BY <2>1, NotBoth DEF TaskSetReady, GivenUp
  <2>3. nor'.ready \subseteq nor.ready
        BY <1>2, <2>2, WorkRest DEF SameFlash, Work
  <2>4. QED
        BY <2>1, <2>3
<1>3. QED
      BY <1>1, <1>2

\* What the task is about to set ready stays whole.
LEMMA TaskHoldsStep ==
    ASSUME SessionInv, DeviceInv, BankSwitch, Sizes, Fits, NoUserData, BankOK, TurnsOK,
           TaskHolds, [Next]_vars
    PROVE  TaskHolds'
<1> SUFFICES ASSUME Running', task' \in {"unlock", "set"}
             PROVE  \E m \in Image : IntactAt(nor', m, header')
    BY DEF TaskHolds
<1>1. CASE TaskCheck
  <2>1. /\ dfu_check_checksum(nor, CheckId, CheckOffset)
        /\ header' = HeaderAddr(CheckId, CheckOffset) /\ nor' = nor
        BY <1>1, Zenon DEF TaskCheck
  <2>2. QED
        BY <2>1 DEF dfu_check_checksum
<1>2. CASE ~TaskCheck
  <2>1. Running /\ task \in {"unlock", "set"} /\ header' = header
        BY <1>2 DEF Next, ClientStep, TaskStep, Over, vars, Quiet, Connect, Reconnect,
           Enable, Info, Start, Offset, SendPacket, SendRest, SendBufferCrc, SendValidFw,
           SendActiveImageReset, SendSystemReset, Receive, TaskUnlock, TaskSetReady, TaskLock,
           TaskReport, TaskOnly, DisconnectAll, LinkLoss, Boot, TaskReset, PowerLoss,
           PowerLossInUpdate, PowerLossInActivation, taskVars, dfuVars, Running, At
  <2>2. client \notin {"send"} /\ ~TaskSetReady
        BY <2>1, NotBoth DEF GivenUp, TaskSetReady
  <2>3. ~(SendPacket \/ SendRest \/ SendBufferCrc \/ PowerLossInUpdate)
        BY <2>2 DEF SendPacket, SendRest, SendBufferCrc, PowerLossInUpdate, At
  <2>4. ~SendSystemReset
        BY DEF SendSystemReset, SystemReset, dfu_fw_reboot, Running
  <2>5. SameFlash
        BY <2>2, <2>3, <2>4, WorkRest
  <2>6. QED
        BY <2>1, <2>5 DEF TaskHolds, SameFlash, IntactAt
<1>3. QED
      BY <1>1, <1>2

\* The invariant of the flash and the turns together.
LEMMA ReadyStep ==
    ASSUME SessionInv, DeviceInv, BankSwitch, Sizes, Fits, NoUserData, OwnBanks, Patient,
           BankOK, TurnsOK, ReadyOK, [Next]_vars
    PROVE  BankOK' /\ TurnsOK' /\ ReadyOK'
BY BankStep, TurnStep, HousedStep, NotReadyStep, TaskHoldsStep DEF ReadyOK

\* All of it at once, for every behaviour.
LEMMA Ready ==
    ASSUME Sizes, BankSwitch, Fits, NoUserData, OwnBanks, OldLodged, Patient
    PROVE  Spec => [](SessionInv /\ DeviceInv /\ BankOK /\ TurnsOK /\ ReadyOK)
<1>1. Init => BankOK /\ TurnsOK
      BY DEF Init, RamInit, TaskInit, BankOK, InsideBanks, TurnsOK, InTurn
<1>2. Init => ReadyOK
      BY SessionInit, ReadyInit DEF SessionInv
<1>3. SessionInv /\ DeviceInv /\ BankOK /\ TurnsOK /\ ReadyOK /\ [Next]_vars
          => BankOK' /\ TurnsOK' /\ ReadyOK'
      BY ReadyStep
<1>4. QED
      BY <1>1, <1>2, <1>3, Device, PTL DEF Spec

\* Whatever a client without haste sends, whatever fails, and wherever the power
\* is lost: an image that the boot loader takes for ready is whole.
THEOREM WholeWhenReady ==
    ASSUME Sizes, BankSwitch, Fits, NoUserData, OwnBanks, OldLodged, Patient
    PROVE  Spec => []ReadyIntact
<1>1. ReadyOK => ReadyIntact
      BY DEF ReadyOK, Housed, ReadyIntact
<1>2. QED
      BY <1>1, Ready, PTL

\* And the image that is being sent is not ready.
THEOREM SentNotReady ==
    ASSUME Sizes, BankSwitch, Fits, NoUserData, OwnBanks, OldLodged, Patient
    PROVE  Spec => []NotReadyWhileSent
<1>1. SessionInv /\ DeviceInv /\ ReadyOK => NotReadyWhileSent
  <2> SUFFICES ASSUME SessionInv, DeviceInv, ReadyOK, Sending, cur_offset > 0
               PROVE  ImageStart \notin nor.ready
      BY DEF NotReadyWhileSent
  <2>1. EntryOffset = 0 /\ TempBase[Id] \in Nat
        BY NoEntries, ImageType, ImageAssumption DEF DeviceInv, SessionInv
  <2>2. ImageStart = TempBase[Id]
        BY <2>1, BankAddr, ImageType DEF ImageStart, SessionInv
  <2>3. QED
        BY <2>2 DEF ReadyOK, NotReady, Sending
<1>2. QED
      BY <1>1, Ready, PTL
-----------------------------------------------------------------------------
(* Whose image it is: what VALID_FW finds whole is the image that was sent *)
(* and not what an earlier update left.                                    *)

\* The device can tell that cells are missing, from the checksums of the buffer,
\* or none gets lost.
Telling == \A c \in Clients : c.checked \/ c.bad = 0

\* There is something to validate, or an answer that says so is due.
Busy == client = "VALID_FW" \/ validQueue > 0 \/ task # "wait"

\* The client sends no header of another image, and once cells are received, the
\* one that stood in the bank is gone.
FirstOK == Running =>
    /\ client = "send" /\ ota_temp_buffer # << >> => Ours(ota_temp_buffer[1])
    /\ (client \in {"send", "REPORT_BUFFER_CRC"} /\ cur_offset > 0) \/ Busy
           => Ours(nor.mem[TempBase[Id]])

\* A client without buffer check loses nothing, and the end of an image does not
\* wait in the buffer.
WholeOK == /\ badPackets \in Nat
           /\ current.by.bad = 0 => intact
           /\ Running /\ client = "send" /\ ~Checked => Used = 0 \/ cur_offset + Used < Total[Img]

\* Away from validation there is nothing for the task to do.
LEMMA Idle ==
    ASSUME TurnsOK, Running, client \notin GivenUp, client # "VALID_FW"
    PROVE  ~Busy
BY DEF TurnsOK, InTurn, Busy

\* A packet that is taken: what the buffer and the flash start with.
LEMMA FirstSend ==
    ASSUME SessionInv, DeviceInv, Sizes, Fits, TurnsOK, FirstOK, SendPacket \/ SendRest
    PROVE  FirstOK'
<1>1. /\ Running /\ client = "send" /\ UNCHANGED <<client, current, validQueue, task>>
      BY DEF SendPacket, SendRest, At, Quiet, taskVars
<1>2. /\ image_id = Id /\ EntryOffset = 0 /\ Id \in ImageId /\ SectorBanks /\ Shape
      /\ nor \in Flash /\ ota_temp_buffer \in Seq(Content) /\ cur_offset \in Nat
      /\ image_total_length = Total[Img]
      BY <1>1, SentBank DEF SessionInv
<1>3. Id' = Id /\ Img' = Img /\ \A cell : Ours(cell)' <=> Ours(cell)
      BY <1>1, SameImage DEF Ours
<1>4. ~Busy /\ ~Busy'
      BY <1>1, Idle DEF GivenUp, Busy
<1>5. /\ ota_temp_buffer # << >> => Ours(ota_temp_buffer[1])
      /\ cur_offset > 0 => Ours(nor.mem[TempBase[Id]])
      BY <1>1 DEF FirstOK
<1>6. SUFFICES ASSUME Running'
               PROVE  /\ ota_temp_buffer' # << >> => Ours(ota_temp_buffer'[1])
                      /\ cur_offset' > 0 => Ours(nor'.mem[TempBase[Id]])
      BY <1>1, <1>3, <1>4 DEF FirstOK
<1>7. CASE UNCHANGED dfuVars
      BY <1>5, <1>7 DEF dfuVars, ramVars, sessionVars
<1>8. ASSUME NEW data \in Seq(Content), data # << >>, Ours(data[1]), PacketReq(data)
      PROVE  /\ ota_temp_buffer' # << >> => Ours(ota_temp_buffer'[1])
             /\ cur_offset' > 0 => Ours(nor'.mem[TempBase[Id]])
  <2>1. PICK filled : filled = ota_temp_buffer \o data
        OBVIOUS
  <2>2. filled \in Seq(Content) /\ filled # << >>
        BY <1>2, <1>8, <2>1
  <2>3. Ours(filled[1])
    <3>1. CASE ota_temp_buffer = << >>
      <4>1. filled = data
            BY <1>8, <2>1, <3>1
      <4>2. QED
            BY <1>8, <4>1
    <3>2. CASE ota_temp_buffer # << >>
      <4>1. filled[1] = ota_temp_buffer[1]
            BY <1>2, <1>8, <2>1, <3>2
      <4>2. QED
            BY <1>5, <3>2, <4>1
    <3>3. QED
          BY <3>1, <3>2
  <2>4. ASSUME NEW o \in dfu_update(nor, Id, cur_offset, 0, filled), nor' = o.nor, o.ok,
               cur_offset + Len(filled) <= Total[Img]
        PROVE  Ours(nor'.mem[TempBase[Id]])
    <3>0. cur_offset + Len(filled) < Wrap /\ SentReady(cur_offset, filled) = {}
          BY <1>2, <2>2, <2>4, PlainData
    <3>1. /\ cur_offset # 0 => Alike(o.nor, nor, TempBase[Id])
          /\ cur_offset = 0 => o.nor.mem[TempBase[Id]] \in {Erased, filled[1], Torn}
          BY <1>2, <2>2, <2>4, <3>0, UpdateWork
    <3>2. CASE cur_offset # 0
          BY <1>2, <1>5, <2>4, <3>1, <3>2 DEF Alike
    <3>3. CASE cur_offset = 0
      <4>1. Ours(Erased) /\ Ours(Torn)
            BY NoHeader DEF Ours
      <4>2. QED
            BY <2>3, <2>4, <3>1, <3>3, <4>1
    <3>4. QED
          BY <3>2, <3>3
  <2>5. \/ nor' = nor /\ cur_offset' = cur_offset /\ ota_temp_buffer' \in {ota_temp_buffer, filled}
        \/ \E o \in dfu_update(nor, Id, cur_offset, 0, filled) :
              /\ nor' = o.nor /\ o.ok /\ ota_temp_buffer' = << >>
              /\ cur_offset + Len(filled) <= Total[Img]
        \/ ~Running'
        BY <1>2, <1>8, <2>1
        DEF PacketReq, PacketIgnored, PacketBuffered, PacketPlain, dfuVars, ramVars, sessionVars,
            dfu_fw_reboot, Running
  <2>6. QED
        BY <1>5, <1>6, <2>3, <2>4, <2>5
<1>9. QED
      BY <1>7, <1>8, PacketContent
\* A buffer that is taken, and the retries of one that is not.
LEMMA FirstReport ==
    ASSUME SessionInv, DeviceInv, Fits, Sizes, TurnsOK, FirstOK, SendBufferCrc
    PROVE  FirstOK'
<1>1. /\ Running /\ client = "send" /\ client' = "REPORT_BUFFER_CRC"
      /\ UNCHANGED <<current, validQueue, task>> /\ Checked /\ sent > 0
      BY DEF SendBufferCrc, At, Quiet, taskVars, GoTo
<1>2. /\ image_id = Id /\ EntryOffset = 0 /\ image_total_length = Total[Img]
      /\ Id \in ImageId /\ SectorBanks
      /\ Total[Img] <= TempSize[Id] /\ TempSize[Id] \in Nat /\ Total[Img] \in Nat
      /\ nor \in Flash /\ ota_temp_buffer \in Seq(Content)
      /\ cur_offset \in Nat /\ pos \in Nat /\ sent \in Nat
      /\ Used \in Nat /\ Used = Len(ota_temp_buffer)
      BY <1>1, SentBank
<1>3. Id' = Id /\ Img' = Img /\ \A cell : Ours(cell)' <=> Ours(cell)
      BY <1>1, SameImage DEF Ours
<1>4. ~Busy /\ ~Busy'
      BY <1>1, Idle DEF GivenUp, Busy
<1>5. /\ ota_temp_buffer # << >> => Ours(ota_temp_buffer[1])
      /\ cur_offset > 0 => Ours(nor.mem[TempBase[Id]])
      BY <1>1 DEF FirstOK
<1>6. SUFFICES cur_offset' > 0 => Ours(nor'.mem[TempBase[Id]])
      BY <1>1, <1>3, <1>4 DEF FirstOK
<1>7. /\ cur_offset = pos /\ pos + sent <= Total[Img]
      /\ cur_offset - dfu_resend_offset \in 0 .. SECTOR - 1
      BY <1>1 DEF SessionInv, SendOK, ResendClose
<1>8. /\ dfu_resend_offset \in Nat /\ dfu_resend_offset % SECTOR = 0
      /\ dfu_resend_offset <= cur_offset /\ dfu_resend_offset < TempSize[Id]
      BY <1>1, <1>2, <1>7, ServiceAssumption, FlashAssumption DEF SessionInv, Shape
<1>9. ASSUME BufferComplete(sent),
             NEW o \in dfu_update(nor, Id, cur_offset, 0, ota_temp_buffer),
             BufferWritten(o) \/ BufferLost(o)
      PROVE  cur_offset' > 0 => Ours(nor'.mem[TempBase[Id]])
  <2>1. ota_temp_buffer # << >>
    <3>1. Used > 0
          BY <1>1, <1>2, <1>7, <1>9 DEF BufferComplete
    <3>2. QED
          BY <1>2, <3>1
  <2>0. cur_offset + Len(ota_temp_buffer) < Wrap /\ SentReady(cur_offset, ota_temp_buffer) = {}
    <3>1. cur_offset + Used <= pos + sent /\ Shape
          BY <1>1 DEF SessionInv, SendOK
    <3>2. cur_offset + Len(ota_temp_buffer) <= Total[Img]
          BY <1>2, <1>7, <3>1
    <3>3. QED
          BY <1>2, <3>1, <3>2, PlainData
  <2>2. /\ cur_offset # 0 => Alike(o.nor, nor, TempBase[Id])
        /\ o.ok /\ cur_offset = 0 => o.nor.mem[TempBase[Id]] \in {Erased, ota_temp_buffer[1], Torn}
        BY <1>2, <2>0, <2>1, UpdateWork
  <2>3. CASE BufferWritten(o)
    <3>1. o.ok /\ nor' = o.nor
          BY <2>3 DEF BufferWritten
    <3>2. Ours(Erased) /\ Ours(Torn)
          BY NoHeader DEF Ours
    <3>3. CASE cur_offset # 0
          BY <1>2, <1>5, <2>2, <3>1, <3>3 DEF Alike
    <3>4. CASE cur_offset = 0
          BY <1>5, <2>1, <2>2, <3>1, <3>2, <3>4
    <3>5. QED
          BY <3>3, <3>4
  <2>4. CASE BufferLost(o) /\ dfu_resend_offset > 0
    <3>1. PICK e \in ResendErase(o.nor) : nor' = e.nor
          BY <2>4 DEF BufferLost
    <3>2. e \in dfu_flash_erase_sector_with_retry(o.nor, Id, dfu_resend_offset)
      <4>1. ResendErase(o.nor)
               = dfu_flash_erase_sector_with_retry(o.nor, image_id, dfu_resend_offset)
            BY <1>7, OneRetry DEF ResendClose, SessionInv, Shape
      <4>2. QED
            BY <1>2, <3>1, <4>1
    <3>3. o.nor \in Flash
      <4>1. WriterOK
            BY WriterThere
      <4>2. o \in OutcomeWith(nor, HeadersFlushed(ota_temp_buffer))
            BY <1>2, <1>9, <4>1, UpdateStep
      <4>3. QED
            BY <4>2 DEF OutcomeWith
    <3>4. Alike(e.nor, o.nor, TempBase[Id])
          BY <1>2, <1>8, <2>4, <3>2, <3>3, RetryWork
    <3>5. cur_offset # 0
          BY <1>2, <1>8, <2>4
    <3>6. QED
          BY <1>2, <1>5, <2>2, <3>1, <3>4, <3>5 DEF Alike
  <2>5. CASE BufferLost(o) /\ ~(dfu_resend_offset > 0)
        BY <1>8, <2>5 DEF BufferLost
  <2>6. QED
        BY <1>9, <2>3, <2>4, <2>5
<1>10. PICK ok : ReportBufferCrc(sent, ok)
       BY DEF SendBufferCrc
<1>11. CASE UNCHANGED <<nor, cur_offset>>
       BY <1>5, <1>11
<1>12. QED
       BY <1>2, <1>9, <1>10, <1>11 DEF ReportBufferCrc
\* The client takes answers, and moves on when it takes the one it waits for.
LEMMA Taken ==
    ASSUME SessionInv, Receive
    PROVE  /\ notif # << >> /\ Head(notif).op \in Answers
           /\ IF Head(notif).op # client THEN UNCHANGED clientVars ELSE client' # "VALID_FW"
           /\ UNCHANGED <<validQueue, task>>
<1>1. notif \in Seq(Notification) /\ notif # << >>
      BY DEF SessionInv, Shape, Receive
<1>2. Head(notif) \in Notification
      BY <1>1
<1>3. Head(notif).op \in Answers
      BY <1>2 DEF Notification
<1>4. QED
      BY <1>1, <1>3 DEF Receive, Answers, taskVars

\* Work for the task comes from VALID_FW only, and while there is some, neither
\* the image nor the id of the last command changes.
LEMMA BusyStep ==
    ASSUME SessionInv, TurnsOK, Patient, [Next]_vars, ~SendValidFw, Running', Busy'
    PROVE  /\ Running /\ Busy /\ UNCHANGED <<current, image_id>>
           /\ client \in GivenUp \cup {"VALID_FW"}
<1>1. current.by \in Clients
      BY DEF SessionInv, Shape
<1>2. CASE Running /\ client \notin GivenUp /\ client # "VALID_FW"
  <2>1. ~Busy
        BY <1>2, Idle
  <2>2. CASE \/ Connect \/ Reconnect \/ Enable \/ Info \/ Start \/ Offset \/ SendPacket \/ SendRest
             \/ SendBufferCrc \/ SendActiveImageReset
    <3>1. UNCHANGED <<validQueue, task>> /\ client' # "VALID_FW"
          BY <1>2, <2>2 DEF Connect, Reconnect, Enable, Info, Start, Offset, SendPacket, SendRest,
             SendBufferCrc, SendActiveImageReset, Quiet, taskVars, GoTo
    <3>2. QED
          BY <2>1, <3>1 DEF Busy
  <2>3. CASE SendSystemReset
        BY <2>3 DEF SendSystemReset, SystemReset, dfu_fw_reboot, Running
  <2>4. CASE Receive
    <3>1. UNCHANGED <<validQueue, task>> /\ client' # "VALID_FW"
          BY <1>2, <2>4, Taken DEF clientVars
    <3>2. QED
          BY <2>1, <3>1 DEF Busy
  <2>5. CASE TaskStep
        BY <2>1, <2>5 DEF TaskStep, TaskCheck, TaskUnlock, TaskSetReady, TaskLock, TaskReport, Busy
  <2>6. CASE \/ DisconnectAll \/ LinkLoss \/ Boot \/ PowerLoss \/ PowerLossInUpdate
             \/ PowerLossInActivation \/ UNCHANGED vars
    <3>1. (UNCHANGED <<validQueue, task>> \/ TaskReset) /\ client' # "VALID_FW"
          BY <1>2, <2>6 DEF DisconnectAll, LinkLoss, Lost, Boot, PowerLoss, PowerLossInUpdate,
             PowerLossInActivation, vars, taskVars, clientVars
    <3>2. QED
          BY <2>1, <3>1 DEF Busy, TaskReset
  <2>7. QED
        BY <2>2, <2>3, <2>4, <2>5, <2>6 DEF Next, ClientStep, Over
<1>3. CASE Running /\ client \in GivenUp \cup {"VALID_FW"}
  <2>1. CASE Reconnect
        BY <1>1, <1>3, <2>1 DEF Reconnect, Patient, Busy, taskVars, dfuVars, ramVars, sessionVars
  <2>2. CASE Receive
    <3>1. CASE Head(notif).op = client
      <4>1. client = "VALID_FW" /\ notif # << >>
            BY <1>3, <2>2, <3>1, Taken DEF Answers, GivenUp
      <4>2. validQueue = 0 /\ task = "wait"
            BY <1>3, <4>1 DEF TurnsOK, InTurn, GivenUp
      <4>3. client' # "VALID_FW" /\ UNCHANGED <<validQueue, task>>
            BY <2>2, <3>1, Taken
      <4>4. QED
            BY <4>2, <4>3 DEF Busy
    <3>2. CASE Head(notif).op # client
          BY <1>3, <2>2, <3>2 DEF Receive, taskVars, clientVars, Busy, ramVars, sessionVars
    <3>3. QED
          BY <3>1, <3>2
  <2>3. CASE SendSystemReset
        BY <2>3 DEF SendSystemReset, SystemReset, dfu_fw_reboot, Running
  <2>4. CASE TaskStep
        BY <1>3, <2>4 DEF TaskStep, TaskCheck, TaskUnlock, TaskSetReady, TaskLock, TaskReport, Busy,
           TaskOnly, clientVars, sessionVars
  <2>5. CASE DisconnectAll \/ LinkLoss \/ UNCHANGED vars
        BY <1>3, <2>5 DEF DisconnectAll, LinkLoss, Lost, vars, taskVars, clientVars, Busy, dfuVars,
           ramVars, sessionVars, GivenUp
  <2>6. CASE Boot \/ PowerLoss \/ PowerLossInUpdate \/ PowerLossInActivation
        BY <1>3, <2>6 DEF Boot, PowerLoss, PowerLossInUpdate, PowerLossInActivation, Running
  <2>7. CASE \/ Connect \/ Enable \/ Info \/ Start \/ Offset \/ SendPacket \/ SendRest
             \/ SendBufferCrc \/ SendActiveImageReset
        BY <1>3, <2>7 DEF Connect, Enable, Info, Start, Offset, SendPacket, SendRest,
             SendBufferCrc, SendActiveImageReset, At, GivenUp
  <2>8. QED
        BY <2>1, <2>2, <2>3, <2>4, <2>5, <2>6, <2>7 DEF Next, ClientStep, Over
<1>4. CASE ~Running
  <2>1. Boot \/ UNCHANGED vars
        BY <1>4 DEF Next, ClientStep, TaskStep, Over, Connect, Reconnect, Enable, Info, Start,
           Offset, SendPacket, SendRest, SendBufferCrc, SendActiveImageReset, SendSystemReset,
           Receive, TaskCheck, TaskUnlock, TaskSetReady, TaskLock, TaskReport, DisconnectAll,
           LinkLoss, PowerLoss, PowerLossInUpdate, PowerLossInActivation, At
  <2>2. CASE Boot
    <3>1. TaskReset /\ client' # "VALID_FW"
          BY <2>2 DEF Boot
    <3>2. QED
          BY <3>1 DEF Busy, TaskReset
  <2>3. CASE UNCHANGED vars
        BY <1>4, <2>3 DEF vars, dfuVars, Running
  <2>4. QED
        BY <2>1, <2>2, <2>3
<1>5. QED
      BY <1>2, <1>3, <1>4

\* Setting an image ready changes no cell.
LEMMA SetReadySame ==
    ASSUME SessionInv, DeviceInv, OwnBanks, BankOK, ReadyOK, TaskSetReady
    PROVE  \A x \in Addr : nor'.mem[x] = nor.mem[x]
<1>1. Shape /\ nor \in Flash /\ Housed(nor) /\ HeadersFit(nor)
      BY DEF SessionInv, DeviceInv, ReadyOK
<1>2. PICK id \in PlanIds : header = TempBase[id]
      BY DEF TaskSetReady, BankOK
<1>3. PICK m \in Image : IntactAt(nor, m, header)
      BY DEF TaskSetReady, ReadyOK, TaskHolds
<1>4. nor' \in ClearNotReady(nor, {TempBase[id]})
      BY <1>2 DEF TaskSetReady
<1>5. QED
      BY <1>1, <1>2, <1>3, <1>4, HousedReady
\* Without a packet or a report the buffer stays, or the client is not sending
\* from it.
LEMMA BufferStep ==
    ASSUME SessionInv, [Next]_vars, ~(SendPacket \/ SendRest \/ SendBufferCrc),
           Running', client' = "send"
    PROVE  \/ ota_temp_buffer' = << >>
           \/ Running /\ client = "send" /\ UNCHANGED <<current, intact, ota_temp_buffer, cur_offset>>
<1>1. CASE Offset
      BY <1>1 DEF Offset, ReceiveFwImageInfo
<1>2. CASE Connect \/ Reconnect \/ Enable \/ Info \/ Start \/ SendValidFw \/ SendActiveImageReset
           \/ SendSystemReset
      BY <1>2 DEF Connect, Reconnect, Enable, Info, Start, SendValidFw, SendActiveImageReset,
         SendSystemReset, GoTo
<1>3. CASE Receive
  <2>1. UNCHANGED <<ota_temp_buffer, cur_offset>> /\ Running
        BY <1>3 DEF Receive, ramVars, sessionVars
  <2>2. CASE Head(notif).op = client /\ client = "REPORT_BUFFER_CRC"
        BY <2>1, <2>2 DEF SessionInv, ReportOK
  <2>3. CASE Head(notif).op = client /\ client # "REPORT_BUFFER_CRC"
        BY <1>3, <2>3, Taken DEF Receive, Answers
  <2>4. CASE Head(notif).op # client
        BY <1>3, <2>1, <2>4, Taken DEF clientVars
  <2>5. QED
        BY <2>2, <2>3, <2>4
<1>4. CASE TaskStep
      BY <1>4 DEF TaskStep, TaskCheck, TaskUnlock, TaskSetReady, TaskLock, TaskReport, TaskOnly,
         Running, clientVars, sessionVars
<1>5. CASE DisconnectAll \/ PowerLoss \/ PowerLossInUpdate \/ PowerLossInActivation
      BY <1>5 DEF DisconnectAll, Disconnected, dfu_fw_reboot, PowerLoss, PowerLossInUpdate,
         PowerLossInActivation, Running
<1>6. CASE LinkLoss \/ Boot
      BY <1>6 DEF LinkLoss, Lost, Boot
<1>7. CASE UNCHANGED vars
      BY <1>7 DEF vars, dfuVars, ramVars, sessionVars, clientVars, Running
<1>8. QED
      BY <1>1, <1>2, <1>3, <1>4, <1>5, <1>6, <1>7 DEF Next, ClientStep, Over

\* Nothing is sent, or nothing more is said of it, until the image is whole: a
\* client that asks for the validation sent it all, and it is in the flash.
LEMMA AllSent ==
    ASSUME SessionInv, Telling, WholeOK, SendValidFw
    PROVE  cur_offset = Total[Img] /\ Total[Img] > 0
<1>1. /\ Running /\ client = "send" /\ pos + sent = Total[Img] /\ (Checked => sent = 0)
      BY DEF SendValidFw, At
<1>2. /\ Total[Img] \in Nat \ {0} /\ Checked \in BOOLEAN /\ current.by \in Clients
      /\ cur_offset \in Nat /\ pos \in Nat /\ sent \in Nat /\ Used \in Nat
      BY ImageType, ServiceAssumption DEF SessionInv, Shape, Used
<1>3. CASE Checked
      BY <1>1, <1>2, <1>3 DEF SessionInv, SendOK
<1>4. CASE ~Checked
  <2>1. intact
        BY <1>2, <1>4 DEF Telling, Checked, WholeOK
  <2>2. cur_offset + Used = pos + sent
        BY <1>1, <2>1 DEF SessionInv, SendOK
  <2>3. Used = 0
        BY <1>1, <1>2, <1>4, <2>2 DEF WholeOK
  <2>4. QED
        BY <1>1, <1>2, <2>2, <2>3
<1>5. QED
      BY <1>2, <1>3, <1>4

\* Every step keeps the header of another image away.
LEMMA FirstStep ==
    ASSUME SessionInv, DeviceInv, Sizes, Fits, NoUserData, OwnBanks, Patient, Telling,
           BankOK, TurnsOK, ReadyOK, FirstOK, WholeOK, [Next]_vars
    PROVE  FirstOK'
<1>1. CASE SendPacket \/ SendRest
      BY <1>1, FirstSend
<1>2. CASE SendBufferCrc
      BY <1>2, FirstReport
<1>3. CASE SendValidFw
  <2>1. /\ Running /\ client = "send" /\ client' = "VALID_FW" /\ UNCHANGED <<nor, current>>
        BY <1>3 DEF SendValidFw, At, GoTo, ValidFw
  <2>2. Ours(nor.mem[TempBase[Id]])
        BY <1>3, <2>1, AllSent DEF FirstOK
  <2>3. QED
        BY <2>1, <2>2, SameImage DEF FirstOK, Ours
<1>4. CASE ~(SendPacket \/ SendRest \/ SendBufferCrc \/ SendValidFw)
  <2> SUFFICES ASSUME Running'
               PROVE  /\ client' = "send" /\ ota_temp_buffer' # << >> => Ours(ota_temp_buffer[1])'
                      /\ (client' \in {"send", "REPORT_BUFFER_CRC"} /\ cur_offset' > 0) \/ Busy'
                             => Ours(nor.mem[TempBase[Id]])'
      BY DEF FirstOK
  <2>1. ASSUME client' = "send", ota_temp_buffer' # << >>
        PROVE  Ours(ota_temp_buffer[1])'
    <3>1. Running /\ client = "send" /\ UNCHANGED <<current, ota_temp_buffer>>
          BY <1>4, <2>1, BufferStep
    <3>2. QED
          BY <2>1, <3>1, SameImage DEF FirstOK, Ours
  <2>2. ASSUME (client' \in {"send", "REPORT_BUFFER_CRC"} /\ cur_offset' > 0) \/ Busy'
        PROVE  Ours(nor.mem[TempBase[Id]])'
    <3>1. /\ Running /\ UNCHANGED current
          /\ (client \in {"send", "REPORT_BUFFER_CRC"} /\ cur_offset > 0) \/ Busy
      <4>1. CASE Busy'
            BY <1>4, <4>1, BusyStep
      <4>2. CASE client' \in {"send", "REPORT_BUFFER_CRC"} /\ cur_offset' > 0
        <5>1. cur_offset' # 0
              BY <4>2
        <5>2. QED
              BY <1>4, <4>2, <5>1, SendingStep
      <4>3. QED
            BY <2>2, <4>1, <4>2
    <3>2. Ours(nor.mem[TempBase[Id]])
          BY <3>1 DEF FirstOK
    <3>3. ~SendSystemReset /\ ~PowerLossInUpdate
          BY DEF SendSystemReset, SystemReset, dfu_fw_reboot, PowerLossInUpdate, Running
    <3>4. \A x \in Addr : nor'.mem[x] = nor.mem[x]
          BY <1>4, <3>3, WorkRest, SetReadySame DEF SameFlash
    <3>5. TempBase[Id] \in Addr
          BY IdInPlan, PlanOwn, BankStart DEF SessionInv
    <3>6. QED
          BY <3>1, <3>2, <3>4, <3>5, SameImage DEF Ours
  <2>3. QED
        BY <2>1, <2>2
<1>5. QED
      BY <1>1, <1>2, <1>3, <1>4
\* The end of an image goes to the flash with the packet that brings it.
LEMMA WholeSend ==
    ASSUME SessionInv, WholeOK, SendPacket \/ SendRest
    PROVE  WholeOK'
<1>1. /\ Running /\ client = "send" /\ UNCHANGED <<client, current>>
      BY DEF SendPacket, SendRest, At
<1>2. /\ image_total_length = Total[Img] /\ Total[Img] \in Nat
      /\ ota_temp_buffer \in Seq(Content) /\ cur_offset \in Nat
      /\ current.by \in Clients /\ current.by.bad \in Nat
      /\ is_ota_procedure /\ (buffer_check_en => Checked)
      BY <1>1, ImageType, ClientAssumption DEF SessionInv, Shape, StartOK, StartStates, ModeOK
<1>3. /\ badPackets' \in Nat
      /\ current.by.bad = 0 => intact' = intact
  <2>1. \/ UNCHANGED <<intact, badPackets>>
        \/ badPackets < current.by.bad /\ badPackets' = badPackets + 1
    <3>1. CASE SendPacket
          BY <3>1 DEF SendPacket, Packet
    <3>2. CASE SendRest
          BY <3>2 DEF SendRest, Packet
    <3>3. QED
          BY <3>1, <3>2
  <2>2. QED
        BY <1>2, <2>1 DEF WholeOK
<1>4. ASSUME Running', ~Checked
      PROVE  Used' = 0 \/ cur_offset' + Used' < Total[Img]
  <2>1. CASE UNCHANGED dfuVars
        BY <1>1, <1>4, <2>1 DEF dfuVars, ramVars, sessionVars, WholeOK, Used
  <2>2. ASSUME NEW data \in Seq(Content), PacketReq(data)
        PROVE  Used' = 0 \/ cur_offset' + Used' < Total[Img]
    <3>1. PICK filled : filled = ota_temp_buffer \o data
          OBVIOUS
    <3>2. Len(filled) \in Nat
          BY <1>2, <2>2, <3>1
    <3>3. \/ ota_temp_buffer' = << >>
          \/ /\ ota_temp_buffer' = filled /\ cur_offset' = cur_offset
             /\ cur_offset + Len(filled) # image_total_length
             /\ cur_offset + Len(filled) <= image_total_length
          BY <1>2, <1>4, <2>2, <3>1
          DEF PacketReq, PacketIgnored, PacketBuffered, PacketPlain, dfu_fw_reboot, Running
    <3>4. QED
          BY <1>2, <3>2, <3>3 DEF Used
  <2>3. QED
        BY <2>1, <2>2, PacketContent
<1>5. QED
      BY <1>1, <1>3, <1>4, SameImage DEF WholeOK

\* Every step keeps it so.
LEMMA WholeStep ==
    ASSUME SessionInv, WholeOK, [Next]_vars
    PROVE  WholeOK'
<1>1. CASE SendPacket \/ SendRest
      BY <1>1, WholeSend
<1>2. CASE ~(SendPacket \/ SendRest)
  <2>1. badPackets' = badPackets /\ (intact' = intact \/ intact' = TRUE)
        BY <1>2 DEF Next, ClientStep, TaskStep, Over, vars, clientVars, envVars, GoTo, TaskOnly,
           Connect, Reconnect, Enable, Info, Start, Offset, SendBufferCrc, SendValidFw,
           SendActiveImageReset, SendSystemReset, Receive, TaskCheck, TaskUnlock, TaskSetReady,
           TaskLock, TaskReport, DisconnectAll, LinkLoss, Boot, PowerLoss, PowerLossInUpdate,
           PowerLossInActivation
  <2>2. current'.by = current.by
        BY SamePlan DEF SessionInv
  <2>3. ASSUME Running', client' = "send", ~Checked'
        PROVE  Used' = 0 \/ cur_offset' + Used' < Total[Img']
    <3>1. ~SendBufferCrc
          BY <2>3 DEF SendBufferCrc, GoTo
    <3>2. CASE ota_temp_buffer' = << >>
          BY <3>2 DEF Used
    <3>3. CASE Running /\ client = "send" /\ UNCHANGED <<current, ota_temp_buffer, cur_offset>>
          BY <2>3, <3>3, SameImage DEF WholeOK, Used
    <3>4. QED
          BY <1>2, <2>3, <3>1, <3>2, <3>3, BufferStep
  <2>4. QED
        BY <2>1, <2>2, <2>3 DEF WholeOK
<1>3. QED
      BY <1>1, <1>2
-----------------------------------------------------------------------------
(* What the client is told it holds, it holds.                             *)

\* Image k of the plan stands whole and ready in its bank.
Held(n, k) == TempBase[IdOf[Plan[k]]] \in n.ready /\ IntactAt(n, Plan[k], TempBase[IdOf[Plan[k]]])

\* From VALID_FW to its answer the task works on the image of the client.
HoldOK == Running =>
    /\ Busy => image_id = Id
    /\ task \in {"unlock", "set"} => header = TempBase[Id]
    /\ task = "set" => ~nor.bp
    /\ task = "lock" \/ (task = "report" /\ valid) => Held(nor, current.k)
    /\ client = "VALID_FW" /\ notif # << >> /\ Head(notif).res = "SUCCESS" => Held(nor, current.k)

\* A flash with the same content holds the same.
LEMMA HeldSame ==
    ASSUME NEW n, NEW w, NEW k, \A x \in Addr : w.mem[x] = n.mem[x], n.ready \subseteq w.ready,
           Held(n, k)
    PROVE  Held(w, k)
BY DEF Held, IntactAt

\* While there is something to validate, only the task changes the flash.
LEMMA BusyQuiet ==
    ASSUME SessionInv, TurnsOK, Patient, [Next]_vars, ~SendValidFw, ~TaskStep, Running', Busy'
    PROVE  /\ UNCHANGED <<nor, taskVars>>
           /\ client' = "VALID_FW" => client = "VALID_FW" /\ UNCHANGED notif
<1>1. Running /\ client \in GivenUp \cup {"VALID_FW"} /\ current.by \in Clients
      BY BusyStep DEF SessionInv, Shape
<1>2. CASE Reconnect
      BY <1>1, <1>2 DEF Reconnect, Patient, dfuVars
<1>3. CASE Receive
  <2>1. UNCHANGED <<nor, taskVars>>
        BY <1>3 DEF Receive
  <2>2. ASSUME client' = "VALID_FW"
        PROVE  FALSE
    <3>1. UNCHANGED clientVars /\ Head(notif).op # client /\ notif # << >>
          BY <1>3, <2>2, Taken
    <3>2. client = "VALID_FW"
          BY <2>2, <3>1 DEF clientVars
    <3>3. PICK n : notif = <<n>> /\ n.op = client
          BY <1>1, <3>1, <3>2 DEF TurnsOK, InTurn, GivenUp
    <3>4. QED
          BY <3>1, <3>3
  <2>3. QED
        BY <2>1, <2>2
<1>4. CASE LinkLoss \/ UNCHANGED vars
      BY <1>1, <1>4 DEF LinkLoss, Lost, vars, dfuVars, clientVars
<1>5. CASE \/ SendSystemReset \/ DisconnectAll \/ Boot \/ PowerLoss \/ PowerLossInUpdate
           \/ PowerLossInActivation
      BY <1>1, <1>5 DEF SendSystemReset, SystemReset, DisconnectAll, Disconnected, dfu_fw_reboot,
         Boot, PowerLoss, PowerLossInUpdate, PowerLossInActivation, Running
<1>6. CASE \/ Connect \/ Enable \/ Info \/ Start \/ Offset \/ SendPacket \/ SendRest
           \/ SendBufferCrc \/ SendActiveImageReset
      BY <1>1, <1>6 DEF Connect, Enable, Info, Start, Offset, SendPacket, SendRest,
         SendBufferCrc, SendActiveImageReset, At, GivenUp
<1>7. QED
      BY <1>2, <1>3, <1>4, <1>5, <1>6 DEF Next, ClientStep, Over

\* A write of the bit that cannot fail sets all the headers ready.
LEMMA ClearAll ==
    ASSUME NEW n \in Flash, ~n.bp, "ready" \notin FaultKinds, NEW hs, NEW w \in ClearNotReady(n, hs)
    PROVE  w.ready = n.ready \cup hs
<1>1. PICK bad \in SUBSET hs :
            /\ bad # {} => "ready" \in FaultKinds
            /\ w = [n EXCEPT !.mem    = [x \in Addr |-> IF x \in hs \ bad THEN
                                            (IF @[x] = Erased THEN Torn ELSE @[x]) ELSE @[x]],
                             !.ready  = @ \cup (hs \ bad),
                             !.faults = @ + Cardinality(bad)]
      BY Zenon DEF ClearNotReady
<1>2. bad = {}
      BY <1>1
<1>3. w.ready = n.ready \cup (hs \ bad)
      BY <1>1 DEF Flash
<1>4. QED
      BY <1>2, <1>3

\* What the task sets ready is the image of the client, and nothing else becomes
\* ready, as the write of the bit does not fail.
LEMMA SetReadyHeld ==
    ASSUME SessionInv, DeviceInv, OwnBanks, BankOK, ReadyOK, FirstOK, HoldOK,
           "ready" \notin FaultKinds, TaskSetReady
    PROVE  /\ Held(nor', current.k)
           /\ nor'.ready = nor.ready \cup {TempBase[Id]}
<1>1. /\ Running /\ task = "set" /\ header = TempBase[Id] /\ ~nor.bp /\ Busy /\ nor \in Flash
      BY DEF TaskSetReady, HoldOK, Busy, DeviceInv
<1>2. PICK m \in Image : IntactAt(nor, m, header)
      BY <1>1 DEF ReadyOK, TaskHolds
<1>3. m = Img
  <2>1. 0 \in 0 .. Total[m] - 1 /\ TempBase[Id] \in Nat
        BY ImageAssumption, ImageType DEF SessionInv
  <2>2. nor.mem[TempBase[Id]] = <<m, 0>>
    <3>1. nor.mem[TempBase[Id] + 0] = <<m, 0>>
          BY <1>1, <1>2, <2>1 DEF IntactAt
    <3>2. TempBase[Id] + 0 = TempBase[Id]
          BY <2>1
    <3>3. QED
          BY <3>1, <3>2
  <2>3. QED
        BY <1>1, <2>2 DEF FirstOK, Ours
<1>4. nor'.ready = nor.ready \cup {TempBase[Id]}
  <2>1. nor' \in ClearNotReady(nor, {header})
        BY DEF TaskSetReady
  <2>2. QED
        BY <1>1, <2>1, ClearAll
<1>5. IntactAt(nor', Img, TempBase[Id])
      BY <1>1, <1>2, <1>3, SetReadySame DEF IntactAt
<1>6. QED
      BY <1>4, <1>5 DEF Held, Img, Id

\* Every step of the task goes on with the image of the client.
LEMMA HoldTask ==
    ASSUME SessionInv, DeviceInv, BankSwitch, OwnBanks, BankOK, TurnsOK, ReadyOK, FirstOK, HoldOK,
           "ready" \notin FaultKinds, TaskStep
    PROVE  HoldOK'
<1>1. /\ Running /\ Busy /\ UNCHANGED <<client, current, image_id>> /\ nor \in Flash
      BY DEF TaskStep, TaskCheck, TaskUnlock, TaskSetReady, TaskLock, TaskReport, TaskOnly, Busy,
         clientVars, sessionVars, DeviceInv
<1>2. /\ image_id = Id /\ Id' = Id /\ Plan' = Plan
      BY <1>1, SameImage DEF HoldOK
<1>3. client = "VALID_FW" => notif = << >>
      BY <1>1 DEF TaskStep, TaskCheck, TaskUnlock, TaskSetReady, TaskLock, TaskReport, TurnsOK,
         InTurn, GivenUp
<1>4. \A k : Held(nor', k) => Held(nor, k)'
      BY <1>2 DEF Held
<1>5. CASE TaskCheck
  <2>1. header' = HeaderAddr(CheckId, CheckOffset) /\ UNCHANGED notif
        /\ (task' = "unlock" \/ (task' = "report" /\ ~valid'))
        BY <1>5 DEF TaskCheck
  <2>2. CheckId = image_id /\ CheckOffset = 0
        BY DEF CheckId, CheckOffset, CheckOwnBank
  <2>3. TempBase[Id] \in Nat
        BY ImageAssumption, ImageType DEF SessionInv
  <2>4. header' = TempBase[Id]
        BY <1>2, <2>1, <2>2, <2>3 DEF HeaderAddr
  <2>5. QED
        BY <1>1, <1>2, <1>3, <2>1, <2>4 DEF HoldOK
<1>6. CASE TaskUnlock
  <2>1. header' = header /\ task' = "set" /\ task = "unlock" /\ UNCHANGED notif
        /\ nor' = unlock_flash_bp_all(nor)
        BY <1>6 DEF TaskUnlock
  <2>2. nor'.bp = FALSE
        BY <1>1, <2>1 DEF unlock_flash_bp_all, Flash
  <2>3. header = TempBase[Id]
        BY <1>1, <2>1 DEF HoldOK
  <2>4. QED
        BY <1>1, <1>2, <1>3, <2>1, <2>2, <2>3 DEF HoldOK
<1>7. CASE TaskSetReady
  <2>1. task' = "lock" /\ UNCHANGED notif
        BY <1>7 DEF TaskSetReady
  <2>2. Held(nor', current.k)
        BY <1>7, SetReadyHeld
  <2>3. QED
        BY <1>1, <1>2, <1>3, <1>4, <2>1, <2>2 DEF HoldOK
<1>8. CASE TaskLock
  <2>1. task' = "report" /\ task = "lock" /\ UNCHANGED notif /\ nor' = lock_flash_bp(nor)
        BY <1>8 DEF TaskLock
  <2>2. nor'.mem = nor.mem /\ nor'.ready = nor.ready
        BY <1>1, <2>1 DEF lock_flash_bp, Flash
  <2>3. Held(nor', current.k)
        BY <1>1, <2>1, <2>2, HeldSame DEF HoldOK
  <2>4. QED
        BY <1>1, <1>2, <1>3, <1>4, <2>1, <2>3 DEF HoldOK
<1>9. CASE TaskReport
  <2>1. task = "report" /\ task' = "wait" /\ UNCHANGED nor
        BY <1>9 DEF TaskReport
  <2>2. ASSUME client = "VALID_FW", notif' # << >>, Head(notif').res = "SUCCESS"
        PROVE  Held(nor', current.k)
    <3>1. notif = << >>
          BY <1>3, <2>2
    <3>2. PICK n : n = [op |-> "VALID_FW", res |-> IF valid THEN "SUCCESS" ELSE "CRC_ERROR", off |-> 0]
          OBVIOUS
    <3>3. notif' = <<n>>
          BY <1>9, <2>2, <3>1, <3>2, OneAnswer DEF TaskReport, Notify
    <3>4. valid
          BY <2>2, <3>2, <3>3, OneAnswer
    <3>5. QED
          BY <1>1, <2>1, <3>4 DEF HoldOK
  <2>3. QED
        BY <1>1, <1>2, <1>4, <2>1, <2>2 DEF HoldOK
<1>10. QED
       BY <1>5, <1>6, <1>7, <1>8, <1>9 DEF TaskStep

\* And so does every other step.
LEMMA HoldStep ==
    ASSUME SessionInv, DeviceInv, BankSwitch, OwnBanks, Patient, BankOK, TurnsOK, ReadyOK, FirstOK,
           HoldOK, "ready" \notin FaultKinds, [Next]_vars
    PROVE  HoldOK'
<1>1. CASE TaskStep
      BY <1>1, HoldTask
<1>2. CASE SendValidFw
  <2>1. /\ Running /\ client = "send" /\ client' = "VALID_FW" /\ image_id' = Id
        /\ UNCHANGED <<current, task, notif>>
        BY <1>2 DEF SendValidFw, At, GoTo, ValidFw
  <2>2. task = "wait" /\ notif = << >>
        BY <2>1 DEF TurnsOK, InTurn, GivenUp, Answers
  <2>3. QED
        BY <2>1, <2>2, SameImage DEF HoldOK
<1>3. CASE ~TaskStep /\ ~SendValidFw
  <2> SUFFICES ASSUME Running', Busy'
               PROVE  HoldOK'
      BY DEF HoldOK, Busy
  <2>1. Running /\ Busy /\ UNCHANGED <<current, image_id>>
        BY <1>3, BusyStep
  <2>2. /\ UNCHANGED <<nor, taskVars>>
        /\ client' = "VALID_FW" => client = "VALID_FW" /\ UNCHANGED notif
        BY <1>3, BusyQuiet
  <2>3. \A k : Held(nor, k) => Held(nor, k)'
        BY <2>1, <2>2, SameImage DEF Held
  <2>4. QED
        BY <2>1, <2>2, <2>3, SameImage DEF HoldOK, taskVars
<1>4. QED
      BY <1>1, <1>2, <1>3
-----------------------------------------------------------------------------
(* The device switches to the whole update, or not at all.                 *)

\* An update has one image for each id, ...
OneEach == \A c \in Clients : \A j, k \in 1 .. Len(c.plan) :
              IdOf[c.plan[j]] = IdOf[c.plan[k]] => j = k

\* ... and none of them was there before.
NewImages == \A c \in Clients : \A k \in 1 .. Len(c.plan) : c.plan[k] \notin DOMAIN OldImage

\* The client goes on with its update.
Moving == Running /\ client \notin GivenUp \cup {"off", "done", "declined"}

\* The device holds the images before the one that is sent, all of them at
\* activation, and from then on.
HeldOK == /\ Moving => \A j \in 1 .. current.k - 1 : Held(nor, j)
          /\ Running /\ client = "activate" => current.k = Len(Plan) /\ Held(nor, current.k)
          /\ client = "done" => \A j \in 1 .. Len(Plan) : Held(nor, j)
          /\ ~otaHeader \/ active_rst_pending => client = "done"

\* An image of the plan lies in its bank.
LEMMA PlanImage ==
    ASSUME Shape, Fits, NEW j \in 1 .. Len(Plan)
    PROVE  /\ IdOf[Plan[j]] \in PlanIds /\ Plan[j] \in Image
           /\ \A i \in 0 .. Total[Plan[j]] - 1 :
                  TempBase[IdOf[Plan[j]]] + i \in Bank(IdOf[Plan[j]])
           /\ 0 \in 0 .. Total[Plan[j]] - 1
           /\ TempBase[IdOf[Plan[j]]] + 0 = TempBase[IdOf[Plan[j]]]
<1>1. current.by \in Clients /\ Plan \in Seq(Image)
      BY ImageType DEF Shape
<1>2. IdOf[Plan[j]] \in PlanIds /\ Plan[j] \in Image
      BY <1>1 DEF PlanIds
<1>3. PICK id \in ImageId : id = IdOf[Plan[j]]
      BY <1>2, LayoutAssumption
<1>4. Total[Plan[j]] <= TempSize[id]
      BY <1>1, <1>3 DEF Fits, Plan
<1>5. TempBase[id] \in Nat /\ TempSize[id] \in Nat /\ Total[Plan[j]] \in Nat \ {0}
      BY <1>2, ImageAssumption
<1>6. QED
      BY <1>2, <1>3, <1>4, <1>5 DEF Bank

\* Work on the bank of one image keeps the others, and makes none of it.
LEMMA HeldWork ==
    ASSUME Shape, Fits, OwnBanks, NEW j \in 1 .. Len(Plan),
           NEW n, NEW w, NEW id \in PlanIds, NEW k, Work(w, n, id, k)
    PROVE  /\ IdOf[Plan[j]] # id => (Held(w, j) <=> Held(n, j))
           /\ k = 0 \/ TempBase[id] \notin n.ready => (Held(w, j) => Held(n, j))
<1> DEFINE base == TempBase[IdOf[Plan[j]]]
<1>1. ASSUME IdOf[Plan[j]] # id
      PROVE  Held(w, j) <=> Held(n, j)
  <2>1. \A i \in 0 .. Total[Plan[j]] - 1 : base + i \notin Bank(id)
        BY <1>1, PlanImage, PlanOwn
  <2>2. base \in Addr /\ base \notin Bank(id)
        BY <1>1, PlanImage, PlanOwn, BankStart
  <2>3. base \in w.ready <=> base \in n.ready
        BY <2>2 DEF Work, Alike
  <2>4. IntactAt(w, Plan[j], base) <=> IntactAt(n, Plan[j], base)
    <3>1. \A i \in 0 .. Total[Plan[j]] - 1 :
              base + i \in Addr => w.mem[base + i] = n.mem[base + i]
          BY <2>1 DEF Work, Alike
    <3>2. QED
          BY <3>1 DEF IntactAt
  <2>5. QED
        BY <2>3, <2>4 DEF Held
<1>2. ASSUME IdOf[Plan[j]] = id, k = 0 \/ TempBase[id] \notin n.ready, Held(w, j)
      PROVE  Held(n, j)
      BY <1>2 DEF Held, Work, IntactAt
<1>3. QED
      BY <1>1, <1>2

\* What is activated stays as it is.
LEMMA DoneStep ==
    ASSUME SessionInv, DeviceInv, Sizes, Fits, NoUserData, BankOK, TurnsOK, [Next]_vars, client = "done"
    PROVE  SameFlash /\ client' = "done" /\ UNCHANGED otaHeader
<1>1. ~Receive
  <2>1. Running => notif = << >>
        BY DEF TurnsOK, InTurn, GivenUp, Answers
  <2>2. QED
        BY <2>1 DEF Receive
<1>2. ~TaskSetReady
      BY NotBoth DEF TaskSetReady, GivenUp
<1>3. \/ TaskStep \/ DisconnectAll \/ LinkLoss \/ Boot \/ PowerLoss \/ UNCHANGED vars
      BY <1>1 DEF Next, ClientStep, Over, Connect, Reconnect, Enable, Info, Start,
         Offset, SendPacket, SendRest, SendBufferCrc, SendValidFw, SendActiveImageReset,
         SendSystemReset, PowerLossInUpdate, PowerLossInActivation, At
<1>4. client' = "done" /\ UNCHANGED otaHeader
      BY <1>3 DEF TaskStep, TaskCheck, TaskUnlock, TaskSetReady, TaskLock, TaskReport, TaskOnly,
         DisconnectAll, LinkLoss, Lost, Boot, PowerLoss, vars, clientVars
<1>5. ~SendSystemReset /\ ~PowerLossInUpdate /\ ~SendPacket /\ ~SendRest /\ ~SendBufferCrc
      BY DEF SendSystemReset, PowerLossInUpdate, SendPacket, SendRest, SendBufferCrc, At
<1>6. QED
      BY <1>2, <1>4, <1>5, WorkRest

\* The client that goes on just started, took the answer to VALID_FW, or is with
\* the same image as before.
LEMMA Moves ==
    ASSUME SessionInv, Patient, [Next]_vars, Moving'
    PROVE  \/ current'.k = 1 /\ client' = "enable"
           \/ /\ Running /\ client = "VALID_FW" /\ notif # << >> /\ Head(notif).res = "SUCCESS"
              /\ UNCHANGED nor
              /\ \/ current.k < Len(Plan) /\ current'.k = current.k + 1 /\ client' = "info"
                 \/ ~(current.k < Len(Plan)) /\ UNCHANGED current /\ client' = "activate"
           \/ Moving /\ UNCHANGED current /\ (client' = "activate" => client = "activate")
<1>1. current.by \in Clients /\ current \in [by : Clients, k : Nat]
      BY DEF SessionInv, Shape
<1>2. CASE Connect
      BY <1>1, <1>2 DEF Connect
<1>3. CASE Reconnect
      BY <1>1, <1>3 DEF Reconnect, Patient, Moving, GivenUp
<1>4. CASE Enable \/ Info \/ Start \/ Offset \/ SendPacket \/ SendRest \/ SendBufferCrc
           \/ SendValidFw
      BY <1>4 DEF Enable, Info, Start, Offset, SendPacket, SendRest, SendBufferCrc, SendValidFw,
         At, GoTo, Moving, GivenUp
<1>5. CASE SendActiveImageReset \/ SendSystemReset
      BY <1>5 DEF SendActiveImageReset, SendSystemReset, Moving, GivenUp
<1>6. CASE Receive
  <2>1. /\ Running /\ notif # << >> /\ Head(notif).op \in Answers /\ UNCHANGED nor
        /\ Head(notif).op # client => UNCHANGED <<client, current>>
        BY <1>6, Taken DEF Receive, clientVars
  <2>2. CASE Head(notif).op # client
        BY <2>1, <2>2 DEF Moving, GivenUp
  <2>3. CASE Head(notif).op = client /\ client # "VALID_FW"
    <3>1. UNCHANGED current /\ client' # "activate"
          BY <1>6, <2>1, <2>3 DEF Receive, Answers
    <3>2. QED
          BY <2>1, <2>3, <3>1 DEF Moving, GivenUp, Answers
  <2>4. CASE Head(notif).op = client /\ client = "VALID_FW"
    <3>1. client' # "reset"
          BY DEF Moving, GivenUp
    <3>2. Head(notif).res = "SUCCESS"
          BY <1>6, <2>4, <3>1 DEF Receive
    <3>3. /\ client' = IF current.k < Len(Plan) THEN "info" ELSE "activate"
          /\ current' = IF current.k < Len(Plan) THEN [current EXCEPT !.k = @ + 1] ELSE current
          BY <1>6, <2>4, <3>2 DEF Receive
    <3>4. current.k < Len(Plan) => current'.k = current.k + 1
          BY <1>1, <3>3
    <3>5. QED
          BY <2>1, <2>4, <3>2, <3>3, <3>4
  <2>5. QED
        BY <2>2, <2>3, <2>4
<1>7. CASE TaskStep
      BY <1>7 DEF TaskStep, TaskCheck, TaskUnlock, TaskSetReady, TaskLock, TaskReport, TaskOnly,
         clientVars, Running, Moving
<1>8. CASE DisconnectAll \/ LinkLoss \/ Boot \/ PowerLoss \/ PowerLossInUpdate
           \/ PowerLossInActivation
      BY <1>8 DEF DisconnectAll, Disconnected, dfu_fw_reboot, LinkLoss, Lost, Boot, PowerLoss,
         PowerLossInUpdate, PowerLossInActivation, Running, Moving, GivenUp
<1>9. CASE UNCHANGED vars
      BY <1>9 DEF vars, dfuVars, clientVars, Running, Moving
<1>10. QED
       BY <1>2, <1>3, <1>4, <1>5, <1>6, <1>7, <1>8, <1>9 DEF Next, ClientStep, Over
\* While the client goes on, the images that the device holds stay.
LEMMA HeldKept ==
    ASSUME SessionInv, DeviceInv, Sizes, Fits, NoUserData, OwnBanks, OneEach, BankOK, TurnsOK,
           ReadyOK, FirstOK, HoldOK, "ready" \notin FaultKinds, [Next]_vars,
           Moving, Running', NEW j \in 1 .. Len(Plan), j # current.k \/ client = "activate",
           Held(nor, j)
    PROVE  Held(nor', j)
<1>1. Shape /\ Id \in PlanIds /\ current.by \in Clients /\ current.k \in 1 .. Len(Plan)
      BY IdInPlan DEF SessionInv, Shape
<1>2. CASE SendPacket \/ SendRest \/ SendBufferCrc
  <2>1. j # current.k
        BY <1>2 DEF SendPacket, SendRest, SendBufferCrc, At
  <2>2. IdOf[Plan[j]] # Id
        BY <1>1, <2>1 DEF OneEach, Plan, Id, Img
  <2>3. Work(nor', nor, Id, cur_offset)
        BY <1>2, WorkSend, WorkReport
  <2>4. QED
        BY <1>1, <2>2, <2>3, HeldWork
<1>3. CASE TaskSetReady
  <2>1. nor.ready \subseteq nor'.ready
        BY <1>3, SetReadyHeld
  <2>2. QED
        BY <1>3, <2>1, SetReadySame, HeldSame
<1>4. CASE SameFlash
      BY <1>4, HeldSame DEF SameFlash
<1>5. ~SendSystemReset /\ ~PowerLossInUpdate
      BY DEF SendSystemReset, SystemReset, dfu_fw_reboot, PowerLossInUpdate, Running
<1>6. QED
      BY <1>2, <1>3, <1>4, <1>5, WorkRest

\* The client activates when the device holds all images, and after that nothing
\* changes.
LEMMA HeldStep ==
    ASSUME SessionInv, DeviceInv, Sizes, Fits, NoUserData, OwnBanks, OneEach, Patient, BankOK,
           TurnsOK, ReadyOK, FirstOK, HoldOK, HeldOK, "ready" \notin FaultKinds, [Next]_vars
    PROVE  HeldOK'
<1>1. /\ Plan' = Plan /\ \A k : Held(nor, k)' <=> Held(nor', k)
      BY SamePlan DEF SessionInv, Held
<1>2. current.k \in 1 .. Len(Plan) /\ Len(Plan) \in Nat
      BY ImageType DEF SessionInv, Shape
<1>3. ASSUME Moving'
      PROVE  /\ \A j \in 1 .. current'.k - 1 : Held(nor', j)
             /\ client' = "activate" => current'.k = Len(Plan) /\ Held(nor', current'.k)
  <2>1. CASE current'.k = 1 /\ client' = "enable"
        BY <2>1
  <2>2. CASE /\ Running /\ client = "VALID_FW" /\ notif # << >> /\ Head(notif).res = "SUCCESS"
             /\ UNCHANGED nor
             /\ \/ current.k < Len(Plan) /\ current'.k = current.k + 1 /\ client' = "info"
                \/ ~(current.k < Len(Plan)) /\ UNCHANGED current /\ client' = "activate"
    <3>1. Held(nor', current.k)
          BY <2>2 DEF HoldOK
    <3>2. \A j \in 1 .. current.k - 1 : Held(nor', j)
          BY <2>2 DEF HeldOK, Moving, GivenUp
    <3>3. QED
          BY <1>2, <2>2, <3>1, <3>2
  <2>3. CASE Moving /\ UNCHANGED current /\ (client' = "activate" => client = "activate")
    <3>1. Running' /\ Running
          BY <1>3, <2>3 DEF Moving
    <3>2. \A j \in 1 .. current.k - 1 : Held(nor', j)
      <4> SUFFICES ASSUME NEW j \in 1 .. current.k - 1
                   PROVE  Held(nor', j)
          OBVIOUS
      <4>1. j \in 1 .. Len(Plan) /\ j # current.k
            BY <1>2
      <4>2. Held(nor, j)
            BY <2>3 DEF HeldOK
      <4>3. QED
            BY <2>3, <3>1, <4>1, <4>2, HeldKept
    <3>3. ASSUME client' = "activate"
          PROVE  current.k = Len(Plan) /\ Held(nor', current.k)
      <4>1. client = "activate" /\ current.k = Len(Plan) /\ Held(nor, current.k)
            BY <2>3, <3>1, <3>3 DEF HeldOK
      <4>2. QED
            BY <1>2, <2>3, <3>1, <4>1, HeldKept
    <3>4. QED
          BY <2>3, <3>2, <3>3
  <2>4. QED
        BY <1>3, <2>1, <2>2, <2>3, Moves
<1>4. ASSUME client' = "done"
      PROVE  \A j \in 1 .. Len(Plan) : Held(nor', j)
  <2>1. CASE client = "done"
        BY <2>1, DoneStep, HeldSame DEF HeldOK, SameFlash
  <2>2. CASE SendActiveImageReset
    <3>1. Running /\ client = "activate"
          BY <2>2 DEF SendActiveImageReset, At
    <3>2. \A j \in 1 .. Len(Plan) : Held(nor, j)
      <4>1. \A j \in 1 .. current.k - 1 : Held(nor, j)
            BY <3>1 DEF HeldOK, Moving, GivenUp
      <4>2. current.k = Len(Plan) /\ Held(nor, current.k)
            BY <3>1 DEF HeldOK
      <4>3. QED
            BY <1>2, <4>1, <4>2
    <3>3. SameFlash
      <4>1. ~SendSystemReset /\ ~PowerLossInUpdate /\ ~SendPacket /\ ~SendRest /\ ~SendBufferCrc
            BY <1>4, <3>1 DEF SendSystemReset, PowerLossInUpdate, SendPacket, SendRest,
               SendBufferCrc, At
      <4>2. ~TaskSetReady
            BY <3>1, NotBoth DEF TaskSetReady, GivenUp
      <4>3. QED
            BY <4>1, <4>2, WorkRest
    <3>4. QED
          BY <3>2, <3>3, HeldSame DEF SameFlash
  <2>3. client = "done" \/ SendActiveImageReset
    <3>1. CASE Receive
          BY <1>4, <3>1, Taken DEF Receive, Answers, clientVars
    <3>2. CASE ~Receive
          BY <1>4, <3>2 DEF Next, ClientStep, TaskStep, Over, Connect, Reconnect, Enable, Info,
             Start, Offset, SendPacket, SendRest, SendBufferCrc, SendValidFw, SendSystemReset,
             GoTo, TaskCheck, TaskUnlock, TaskSetReady, TaskLock, TaskReport, TaskOnly,
             DisconnectAll, LinkLoss, Lost, Boot, PowerLoss, PowerLossInUpdate,
             PowerLossInActivation, vars, clientVars
    <3>3. QED
          BY <3>1, <3>2
  <2>4. QED
        BY <2>1, <2>2, <2>3
<1>5. ASSUME ~otaHeader' \/ active_rst_pending'
      PROVE  client' = "done"
  <2>1. CASE ~otaHeader \/ active_rst_pending
        BY <2>1, DoneStep DEF HeldOK
  <2>2. CASE SendActiveImageReset
        BY <2>2 DEF SendActiveImageReset
  <2>3. \/ SendActiveImageReset
        \/ /\ otaHeader' = otaHeader
           /\ active_rst_pending' = active_rst_pending \/ active_rst_pending' = FALSE
        BY DEF Next, ClientStep, TaskStep, Over, Connect, Reconnect, Enable, Info, Quiet,
           Start, Offset, SendPacket, SendRest, SendBufferCrc, SendValidFw, SendSystemReset,
           Receive, TaskCheck, TaskUnlock, TaskSetReady, TaskLock, TaskReport, TaskOnly,
           DisconnectAll, Disconnected, LinkLoss, Boot, PowerLoss, PowerLossInUpdate,
           PowerLossInActivation, vars
  <2>4. QED
        BY <1>5, <2>1, <2>2, <2>3
<1>6. QED
      BY <1>1, <1>3, <1>4, <1>5 DEF HeldOK, Moving, GivenUp
\* All that the switch rests on.
Careful == /\ Sizes /\ BankSwitch /\ Fits /\ NoUserData /\ OwnBanks /\ OldLodged
           /\ Patient /\ Telling /\ OneEach /\ NewImages
           /\ "ready" \notin FaultKinds

ReadyInv == SessionInv /\ DeviceInv /\ BankOK /\ TurnsOK /\ ReadyOK
SureInv  == ReadyInv /\ FirstOK /\ WholeOK /\ HoldOK /\ HeldOK

\* All of it at once.
LEMMA Sure ==
    ASSUME Careful
    PROVE  Spec => []SureInv
<1>1. Init => FirstOK /\ WholeOK /\ HoldOK /\ HeldOK
  <2> SUFFICES ASSUME Init
               PROVE  FirstOK /\ WholeOK /\ HoldOK /\ HeldOK
      OBVIOUS
  <2>1. /\ client = "off" /\ ~Busy /\ task = "wait" /\ badPackets = 0 /\ intact = TRUE
        /\ otaHeader = TRUE /\ active_rst_pending = FALSE
        BY DEF Init, TaskInit, Busy
  <2>2. QED
        BY <2>1 DEF FirstOK, WholeOK, HoldOK, HeldOK, Moving
<1>2. SureInv /\ [Next]_vars => FirstOK' /\ WholeOK' /\ HoldOK' /\ HeldOK'
      BY FirstStep, WholeStep, HoldStep, HeldStep DEF Careful, SureInv, ReadyInv
<1>3. Spec => []ReadyInv
      BY Ready DEF Careful, ReadyInv
<1>4. QED
      BY <1>1, <1>2, <1>3, PTL DEF Spec, SureInv

\* Whatever fails, is lost or damaged: the OTA header of the active bank is gone
\* only when every image of the update stands whole and ready in the other bank.
THEOREM AlwaysBoots ==
    ASSUME Careful
    PROVE  Spec => []Bootable
<1>1. SureInv => Bootable
      BY DEF SureInv, HeldOK, Bootable, Held
<1>2. QED
      BY <1>1, Sure, PTL

\* A reset is left pending only when every image of the update stands whole and
\* ready in its bank.
THEOREM SwitchedReady ==
    ASSUME Careful
    PROVE  Spec => []ActivatedReady
<1>1. SureInv => ActivatedReady
  <2> SUFFICES ASSUME SureInv, active_rst_pending, NEW k \in 1 .. Len(Plan)
               PROVE  PlaceOf(k) \in nor.ready /\ IntactAt(nor, Plan[k], PlaceOf(k))
      BY DEF ActivatedReady
  <2>1. Held(nor, k)
        BY DEF SureInv, HeldOK
  <2>2. TempBase[IdOf[Plan[k]]] \in Nat
    <3>1. Plan \in Seq(Image)
          BY ImageType DEF SureInv, ReadyInv, SessionInv
    <3>2. Plan[k] \in Image
          BY <3>1
    <3>3. QED
          BY <3>2, ImageAssumption, LayoutAssumption
  <2>3. PlaceOf(k) = TempBase[IdOf[Plan[k]]]
        BY <2>2 DEF PlaceOf, OwnBank, Careful
  <2>4. QED
        BY <2>1, <2>3 DEF Held
<1>2. QED
      BY <1>1, Sure, PTL

\* The images that the device holds, as OtaUpdate sees them.
HeldImages == {k \in 1 .. Len(Plan) : PlaceOf(k) \in nor.ready /\ IntactAt(nor, Plan[k], PlaceOf(k))}

\* They are those of HeldOK, before and after each step.
LEMMA HeldHere ==
    ASSUME Careful, SureInv, [Next]_vars
    PROVE  /\ HeldImages = {k \in 1 .. Len(Plan) : Held(nor, k)}
           /\ HeldImages' = {k \in 1 .. Len(Plan) : Held(nor', k)}
<1>1. Plan' = Plan /\ Plan \in Seq(Image)
      BY SamePlan, ImageType DEF SureInv, ReadyInv, SessionInv
<1>2. ASSUME NEW k \in 1 .. Len(Plan)
      PROVE  PlaceOf(k) = TempBase[IdOf[Plan[k]]] /\ PlaceOf(k)' = TempBase[IdOf[Plan[k]]]
  <2>1. Plan[k] \in Image
        BY <1>1
  <2>2. TempBase[IdOf[Plan[k]]] \in Nat
        BY <2>1, ImageAssumption, LayoutAssumption
  <2>3. QED
        BY <1>1, <2>2 DEF PlaceOf, OwnBank, Careful
<1>3. QED
      BY <1>1, <1>2 DEF HeldImages, Held

\* Every step is one of OtaUpdate or nothing that it sees.
LEMMA SwitchStep ==
    ASSUME Careful, SureInv, [Next]_vars
    PROVE  [Update!UpdateNext]_<<1 .. Len(Plan), HeldImages, ~otaHeader>>
<1> DEFINE images == 1 .. Len(Plan)
           held == {k \in images : Held(nor, k)}
           after == {k \in images : Held(nor', k)}
<1>1. HeldImages = held /\ HeldImages' = after
      BY HeldHere
<1>2. Plan' = Plan /\ images' = images /\ Shape /\ current.by \in Clients
      BY SamePlan DEF SureInv, ReadyInv, SessionInv, Shape
<1>3. otaHeader \in BOOLEAN
      BY DEF SureInv, ReadyInv, DeviceInv, FlagsOK
<1>4. ASSUME SameFlash
      PROVE  after = held
      BY <1>4, HeldSame DEF SameFlash
<1>5. CASE UNCHANGED otaHeader /\ after = held
      BY <1>1, <1>2, <1>5
<1>6. CASE client = "done"
      BY <1>4, <1>5, <1>6, DoneStep DEF SureInv, ReadyInv, Careful
<1>7. CASE client # "done" /\ SendActiveImageReset
  <2>1. Running /\ client = "activate" /\ otaHeader = TRUE
        BY <1>3, <1>7 DEF SendActiveImageReset, At, SureInv, HeldOK
  <2>2. SameFlash
    <3>1. ~SendSystemReset /\ ~PowerLossInUpdate /\ ~SendPacket /\ ~SendRest /\ ~SendBufferCrc
          BY <1>7, <2>1 DEF SendActiveImageReset, SendSystemReset, PowerLossInUpdate, SendPacket,
             SendRest, SendBufferCrc, At
    <3>2. ~TaskSetReady
          BY <2>1, NotBoth DEF TaskSetReady, GivenUp, SureInv, ReadyInv
    <3>3. QED
          BY <3>1, <3>2, WorkRest DEF SureInv, ReadyInv, Careful
  <2>3. held = images
    <3>1. /\ \A j \in 1 .. current.k - 1 : Held(nor, j)
          /\ current.k = Len(Plan) /\ Held(nor, current.k)
          BY <2>1 DEF SureInv, HeldOK, Moving, GivenUp
    <3>2. Len(Plan) \in Nat
          BY <1>2, ImageType
    <3>3. QED
          BY <3>1, <3>2
  <2>4. otaHeader' = FALSE \/ UNCHANGED otaHeader
        BY <1>7 DEF SendActiveImageReset, Careful
  <2>5. CASE otaHeader' = FALSE
    <3>1. Update!Switch
          BY <1>1, <1>2, <1>4, <2>1, <2>2, <2>3, <2>5 DEF Update!Switch, HeldImages
    <3>2. QED
          BY <3>1 DEF Update!UpdateNext
  <2>6. QED
        BY <1>4, <1>5, <2>2, <2>4, <2>5
<1>8. CASE client # "done" /\ ~SendActiveImageReset
  <2>1. otaHeader = TRUE /\ UNCHANGED otaHeader
    <3>1. UNCHANGED otaHeader
          BY <1>8 DEF Next, ClientStep, TaskStep, Over, Connect, Reconnect, Enable, Info, Quiet,
             Start, Offset, SendPacket, SendRest, SendBufferCrc, SendValidFw, SendSystemReset,
             Receive, TaskCheck, TaskUnlock, TaskSetReady, TaskLock, TaskReport, TaskOnly,
             DisconnectAll, LinkLoss, Boot, PowerLoss, PowerLossInUpdate,
             PowerLossInActivation, vars
    <3>2. QED
          BY <1>3, <1>8, <3>1 DEF SureInv, HeldOK
  <2>2. CASE TaskSetReady
    <3>1. /\ Held(nor', current.k) /\ current.k \in images
          /\ nor'.ready = nor.ready \cup {TempBase[Id]}
          /\ \A x \in Addr : nor'.mem[x] = nor.mem[x]
          BY <1>2, <2>2, SetReadyHeld, SetReadySame DEF SureInv, ReadyInv, Careful, Shape
    <3>2. ASSUME NEW j \in images, j # current.k
          PROVE  Held(nor', j) <=> Held(nor, j)
      <4>1. IdOf[Plan[j]] # Id
            BY <1>2, <3>1, <3>2 DEF Careful, OneEach, Plan, Id, Img
      <4>2. IdOf[Plan[j]] \in PlanIds /\ Id \in PlanIds
            BY <1>2, <3>1, PlanImage DEF Careful, Id, Img
      <4>3. TempBase[IdOf[Plan[j]]] # TempBase[Id]
            BY <1>2, <4>1, <4>2, PlanOwn, BankStart DEF Careful
      <4>4. TempBase[IdOf[Plan[j]]] \in nor'.ready <=> TempBase[IdOf[Plan[j]]] \in nor.ready
            BY <3>1, <4>3
      <4>5. QED
            BY <3>1, <4>4 DEF Held, IntactAt
    <3>3. after = held \cup {current.k}
          BY <3>1, <3>2
    <3>4. Update!Validate(current.k)
          BY <1>1, <1>2, <2>1, <3>3 DEF Update!Validate, HeldImages
    <3>5. QED
          BY <3>1, <3>4 DEF Update!UpdateNext
  <2>3. ASSUME NEW id \in PlanIds, NEW k \in Nat, Work(nor', nor, id, k),
               k = 0 \/ TempBase[id] \notin nor.ready
        PROVE  [Update!UpdateNext]_<<1 .. Len(Plan), HeldImages, ~otaHeader>>
    <3>1. \A j \in images : /\ IdOf[Plan[j]] # id => (Held(nor', j) <=> Held(nor, j))
                            /\ Held(nor', j) => Held(nor, j)
          BY <1>2, <2>3, HeldWork DEF Careful
    <3>2. CASE after = held
          BY <1>5, <2>1, <3>2
    <3>3. CASE after # held
      <4>1. PICK j \in images : Held(nor, j) /\ ~Held(nor', j)
            BY <3>1, <3>3
      <4>2. ASSUME NEW l \in images, l # j
            PROVE  Held(nor', l) <=> Held(nor, l)
        <5>1. IdOf[Plan[l]] # IdOf[Plan[j]]
              BY <1>2, <4>2 DEF Careful, OneEach, Plan
        <5>2. QED
              BY <3>1, <4>1, <5>1
      <4>3. after = held \ {j}
            BY <4>1, <4>2
      <4>4. Update!Discard(j)
            BY <1>1, <1>2, <2>1, <4>1, <4>3 DEF Update!Discard, HeldImages
      <4>5. QED
            BY <4>4 DEF Update!UpdateNext
    <3>4. QED
          BY <3>2, <3>3
  <2>4. CASE SameFlash
        BY <1>4, <1>5, <2>1, <2>4
  <2>5. QED
        BY <2>2, <2>3, <2>4, WorkStep DEF SureInv, ReadyInv, ReadyOK, Careful
<1>9. QED
      BY <1>6, <1>7, <1>8

\* With bank switching the silent update implements OtaUpdate: the device comes
\* to hold the images one by one, may lose them again, and switches to the whole
\* update in one step or not at all.
THEOREM Refinement ==
    ASSUME Careful
    PROVE  Spec => UpdateRefinement
<1>1. Init => Update!UpdateInit
  <2> SUFFICES ASSUME Init
               PROVE  HeldImages = {} /\ otaHeader = TRUE
      BY DEF Update!UpdateInit, HeldImages
  <2>1. otaHeader = TRUE /\ nor = OldFlash
        BY DEF Init
  <2>2. SessionInv /\ Shape /\ current.by \in Clients /\ Plan \in Seq(Image)
        BY SessionInit, ImageType DEF SessionInv, Shape
  <2>3. ASSUME NEW k \in 1 .. Len(Plan), PlaceOf(k) \in nor.ready,
               IntactAt(nor, Plan[k], PlaceOf(k))
        PROVE  FALSE
    <3>1. Plan[k] \in Image /\ 0 \in 0 .. Total[Plan[k]] - 1
          BY <2>2, PlanImage DEF Careful
    <3>2. TempBase[IdOf[Plan[k]]] \in Nat
          BY <3>1, ImageAssumption, LayoutAssumption
    <3>3. PlaceOf(k) \in Nat
          BY <3>2 DEF PlaceOf, OwnBank, Careful
    <3>4. PlaceOf(k) \in Addr /\ nor.mem[PlaceOf(k)] = <<Plan[k], 0>>
      <4>1. PlaceOf(k) + 0 \in Addr /\ nor.mem[PlaceOf(k) + 0] = <<Plan[k], 0>>
            BY <2>3, <3>1 DEF IntactAt
      <4>2. PlaceOf(k) + 0 = PlaceOf(k)
            BY <3>3
      <4>3. QED
            BY <4>1, <4>2
    <3>5. nor.mem[PlaceOf(k)] # Erased
          BY <3>1, <3>4, NoHeader
    <3>6. PICK l \in DOMAIN OldImage : nor.mem[PlaceOf(k)] = <<l, PlaceOf(k) - OldImage[l]>>
          BY <2>1, <3>4, <3>5, OldCell DEF Careful, OldLodged, OldApart
    <3>7. Plan[k] \in DOMAIN OldImage
          BY <3>4, <3>6
    <3>8. QED
          BY <2>2, <3>7 DEF Careful, NewImages, Plan
  <2>4. QED
        BY <2>1, <2>3 DEF HeldImages
<1>2. SureInv /\ [Next]_vars => [Update!UpdateNext]_(Update!updateVars)
      BY SwitchStep DEF Update!updateVars, HeldImages
<1>3. QED
      BY <1>1, <1>2, Sure, PTL DEF Spec, UpdateRefinement, Update!UpdateSpec
=============================================================================
