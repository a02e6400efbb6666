--------------------------- MODULE AppTask_proofs ---------------------------
(***************************************************************************)
(* For every set of senders, every set of messages and all queue lengths   *)
(* with MAX_NUMBER_OF_IO_MESSAGE <= MAX_NUMBER_OF_EVENT_MESSAGE: the event *)
(* queue is never full when an event is due, the io queue is never empty   *)
(* when an event was taken, and the pair implements the bounded FIFO of    *)
(* MsgPipe (its initial condition and its steps).                          *)
(***************************************************************************)
EXTENDS AppTask, FiniteSetTheorems, SequenceTheorems, TLAPS

USE SendersAssumption, NothingAssumption, QueueAssumption

\* The strengthening that is inductive: the types, and the pairing of the
\* queues, which counts the senders caught between the two sends.
IInv == TypeOK /\ Paired

-----------------------------------------------------------------------------
(* The set of senders between the two sends, and how one sender moves it.  *)

\* The threads between their two sends are finitely many, as the senders are.
LEMMA PostingFinite == IsFiniteSet(Posting) /\ Cardinality(Posting) \in Nat
<1>1. Posting \in SUBSET Senders
  BY DEF Posting
<1>2. IsFiniteSet(Posting)
  BY <1>1, FS_Subset
<1>. QED
  BY <1>2, FS_CardinalityType

\* A sender that enters the gap between the two sends is counted once more.
LEMMA PostingGrows ==
  ASSUME TypeOK, NEW s \in Senders, send[s] = "out",
         send' = [send EXCEPT ![s] = "posted"]
  PROVE  /\ Cardinality(Posting') = Cardinality(Posting) + 1
         /\ Cardinality(Posting') \in Nat
<1>1. Posting' = Posting \cup {s}
  BY DEF Posting, TypeOK
<1>2. s \notin Posting
  BY DEF Posting
<1>3. Cardinality(Posting \cup {s})
        = IF s \in Posting THEN Cardinality(Posting) ELSE Cardinality(Posting) + 1
  BY PostingFinite, FS_AddElement, Zenon
<1>4. Cardinality(Posting') = Cardinality(Posting) + 1
  BY <1>1, <1>2, <1>3, Zenon
<1>. QED
  BY <1>4, PostingFinite

\* A sender that leaves the gap is counted no more.
LEMMA PostingShrinks ==
  ASSUME TypeOK, NEW s \in Senders, send[s] = "posted",
         NEW v \in SendState \ {"posted"}, send' = [send EXCEPT ![s] = v]
  PROVE  /\ Cardinality(Posting') = Cardinality(Posting) - 1
         /\ Cardinality(Posting') \in Nat
         /\ Cardinality(Posting) >= 1
<1>1. Posting' = Posting \ {s}
  BY DEF Posting, TypeOK
<1>2. s \in Posting
  BY DEF Posting
<1>3. Cardinality(Posting) # 0
  BY <1>2, PostingFinite, FS_EmptySet
<1>4. Cardinality(Posting \ {s})
        = IF s \in Posting THEN Cardinality(Posting) - 1 ELSE Cardinality(Posting)
  BY PostingFinite, FS_RemoveElement, Zenon
<1>5. Cardinality(Posting') = Cardinality(Posting) - 1
  BY <1>1, <1>2, <1>4, Zenon
<1>. QED
  BY <1>3, <1>5, PostingFinite

\* A step of a sender outside the gap leaves the count alone.
LEMMA PostingStays ==
  ASSUME TypeOK, NEW s \in Senders, send[s] # "posted",
         NEW v \in SendState \ {"posted"}, send' = [send EXCEPT ![s] = v]
  PROVE  Posting' = Posting
BY DEF Posting, TypeOK

\* The event queue has room whenever an event is due.
LEMMA EvtHasRoom ==
  ASSUME IInv, NEW s \in Senders, send[s] = "posted"
  PROVE  Len(evt) < MaxEvt
<1>1. s \in Posting
  BY DEF Posting
<1>2. Cardinality(Posting) # 0
  BY <1>1, PostingFinite, FS_EmptySet
<1>3. Len(evt) \in Nat /\ Len(io) \in Nat
  BY LenProperties DEF IInv, TypeOK
<1>. QED
  BY <1>2, <1>3, PostingFinite DEF IInv, TypeOK, Paired

-----------------------------------------------------------------------------
\* The invariant holds at the start.
LEMMA InitIInv == Init => IInv
<1>. SUFFICES ASSUME Init PROVE IInv
  OBVIOUS
<1>1. Posting = {}
  BY DEF Init, Posting
<1>2. TypeOK
  BY DEF Init, TypeOK, SendState, TaskState
<1>3. Paired
  BY <1>1, FS_EmptySet DEF Init, Paired
<1>. QED
  BY <1>2, <1>3 DEF IInv

\* Every step keeps the invariant.
LEMMA StepIInv == IInv /\ [Next]_vars => IInv'
<1>. SUFFICES ASSUME IInv, [Next]_vars PROVE IInv'
  OBVIOUS
<1>. USE DEF IInv
<1>t. /\ io \in Seq(Msg) /\ evt \in Seq({EVENT_IO_TO_APP})
      /\ Len(io) \in Nat /\ Len(evt) \in Nat
      /\ Len(io) <= MaxIo /\ Len(evt) <= MaxEvt
  BY LenProperties DEF TypeOK
<1>c. Cardinality(Posting) \in Nat
  BY PostingFinite
<1>1. ASSUME NEW s \in Senders, SendIo(s) PROVE IInv'
  <2>1. PICK m \in Msg : io' = Append(io, m)
    BY <1>1 DEF SendIo
  <2>2. io' \in Seq(Msg) /\ Len(io') = Len(io) + 1
    BY <2>1, <1>t, AppendProperties
  <2>3. TypeOK'
    BY <1>1, <1>t, <2>2 DEF SendIo, TypeOK, SendState
  <2>4. Cardinality(Posting') = Cardinality(Posting) + 1
    BY <1>1, PostingGrows, Zenon DEF SendIo
  <2>5. Paired'
    BY <1>1, <1>t, <1>c, <2>2, <2>4 DEF SendIo, Paired
  <2>. QED
    BY <2>3, <2>5
<1>2. ASSUME NEW s \in Senders, SendIoFail(s) PROVE IInv'
  <2>1. TypeOK'
    BY <1>2 DEF SendIoFail, TypeOK, SendState
  <2>2. Posting' = Posting
    BY <1>2, PostingStays DEF SendIoFail, SendState
  <2>3. Paired'
    BY <1>2, <2>2 DEF SendIoFail, Paired
  <2>. QED
    BY <2>1, <2>3
<1>3. ASSUME NEW s \in Senders, SendEvt(s) PROVE IInv'
  <2>1. Len(evt) < MaxEvt
    BY <1>3, EvtHasRoom DEF SendEvt
  <2>2. /\ evt' = Append(evt, EVENT_IO_TO_APP)
        /\ send' = [send EXCEPT ![s] = "true"]
        /\ UNCHANGED <<io, task, handling>>
    BY <1>3, <2>1 DEF SendEvt
  <2>3. evt' \in Seq({EVENT_IO_TO_APP}) /\ Len(evt') = Len(evt) + 1
    BY <2>2, <1>t, AppendProperties
  <2>4. TypeOK'
    BY <1>t, <2>1, <2>2, <2>3 DEF TypeOK, SendState
  <2>5. Cardinality(Posting') = Cardinality(Posting) - 1
    <3>1. send[s] = "posted"
      BY <1>3 DEF SendEvt
    <3>2. "true" \in SendState \ {"posted"}
      BY DEF SendState
    <3>. QED
      BY <2>2, <3>1, <3>2, PostingShrinks, Zenon
  <2>6. Paired'
    BY <1>t, <1>c, <2>2, <2>3, <2>5 DEF Paired
  <2>. QED
    BY <2>4, <2>6
<1>4. ASSUME NEW s \in Senders, Return(s) PROVE IInv'
  <2>1. TypeOK'
    BY <1>4 DEF Return, TypeOK, SendState
  <2>2. Posting' = Posting
    BY <1>4, PostingStays DEF Return, SendState
  <2>3. Paired'
    BY <1>4, <2>2 DEF Return, Paired
  <2>. QED
    BY <2>1, <2>3
<1>5. ASSUME RecvEvt PROVE IInv'
  <2>1. evt' \in Seq({EVENT_IO_TO_APP}) /\ Len(evt') = Len(evt) - 1
    BY <1>5, <1>t, HeadTailProperties DEF RecvEvt
  <2>2. TypeOK'
    BY <1>5, <1>t, <2>1 DEF RecvEvt, TypeOK, TaskState
  <2>3. Posting' = Posting
    BY <1>5 DEF RecvEvt, Posting
  <2>4. Paired'
    BY <1>5, <1>t, <1>c, <2>1, <2>3 DEF RecvEvt, Paired
  <2>. QED
    BY <2>2, <2>4
<1>6. ASSUME RecvIo PROVE IInv'
  <2>1. io # << >>
    BY <1>6, <1>t, <1>c, EmptySeq DEF RecvIo, Paired
  <2>2. io' \in Seq(Msg) /\ Len(io') = Len(io) - 1 /\ Head(io) \in Msg
    BY <1>6, <1>t, <2>1, HeadTailProperties DEF RecvIo
  <2>3. TypeOK'
    BY <1>6, <1>t, <2>1, <2>2 DEF RecvIo, TypeOK, TaskState
  <2>4. Posting' = Posting
    BY <1>6 DEF RecvIo, Posting
  <2>5. Paired'
    BY <1>6, <1>t, <1>c, <2>1, <2>2, <2>4 DEF RecvIo, Paired
  <2>. QED
    BY <2>3, <2>5
<1>7. ASSUME HandleIoMsg PROVE IInv'
  <2>1. TypeOK'
    BY <1>7 DEF HandleIoMsg, TypeOK, TaskState
  <2>2. Posting' = Posting
    BY <1>7 DEF HandleIoMsg, Posting
  <2>3. Paired'
    BY <1>7, <2>2 DEF HandleIoMsg, Paired
  <2>. QED
    BY <2>1, <2>3
<1>8. CASE UNCHANGED vars
  BY <1>8 DEF vars, TypeOK, Paired, Posting
<1>. QED
  BY <1>1, <1>2, <1>3, <1>4, <1>5, <1>6, <1>7, <1>8 DEF Next

-----------------------------------------------------------------------------
\* The queues and the task keep their types in every behaviour, and the two
\* queues stay paired.
THEOREM IInvHolds == Spec => []IInv
BY InitIInv, StepIInv, PTL DEF Spec

\* Type correctness of the application task.
THEOREM TypeCorrect == Spec => []TypeOK
<1>1. IInv => TypeOK
  BY DEF IInv
<1>. QED
  BY <1>1, IInvHolds, PTL

\* An io message is waiting for exactly each event queued, due or taken.
THEOREM QueuesPaired == Spec => []Paired
<1>1. IInv => Paired
  BY DEF IInv
<1>. QED
  BY <1>1, IInvHolds, PTL

\* app_send_msg_to_apptask never fails after its first send succeeded.
THEOREM EventSendNeverFails == Spec => []EvtNeverFull
<1>1. IInv => EvtNeverFull
  BY EvtHasRoom DEF EvtNeverFull
<1>. QED
  BY <1>1, IInvHolds, PTL

\* The task never takes an event without a message behind it.
THEOREM TaskNeverMisses == Spec => []NeverMisses
<1>1. IInv => NeverMisses
  BY PostingFinite, LenProperties, EmptySeq DEF IInv, NeverMisses, Paired, TypeOK
<1>. QED
  BY <1>1, IInvHolds, PTL

\* No message waits in the io queue while the task sleeps for good.
THEOREM NoMessageStranded == Spec => []NoneStranded
<1>1. IInv => NoneStranded
  <2>. SUFFICES ASSUME IInv, task = "wait", evt = << >>, Posting = {} PROVE io = << >>
    BY DEF NoneStranded
  <2>1. Len(io) = 0
    BY FS_EmptySet, LenProperties DEF IInv, Paired, TypeOK
  <2>. QED
    BY <2>1, EmptySeq DEF IInv, TypeOK
<1>. QED
  BY <1>1, IInvHolds, PTL

-----------------------------------------------------------------------------
\* The two queues implement one bounded FIFO: the initial states map to its
\* initial state, and every step maps to one of its steps or to a stutter.
THEOREM ImplementsPipe == Spec => Pipe!PipeInit /\ [][Pipe!PipeNext]_(Pipe!pipeVars)
<1>1. Init => Pipe!PipeInit
  BY DEF Init, Pipe!PipeInit, CallOf
<1>2. IInv /\ [Next]_vars => [Pipe!PipeNext]_(Pipe!pipeVars)
  <2>. SUFFICES ASSUME IInv, [Next]_vars PROVE [Pipe!PipeNext]_(Pipe!pipeVars)
    OBVIOUS
  <2>. DEFINE Call == [s \in Senders |-> CallOf(s)]
  <2>0. /\ Len(io) \in Nat /\ Len(io) <= MaxIo
        /\ send \in [Senders -> SendState]
    BY LenProperties DEF IInv, TypeOK
  <2>1. ASSUME NEW s \in Senders, SendIo(s) PROVE Pipe!Accept(s)
    <3>1. Call' = [Call EXCEPT ![s] = "accepted"]
      BY <2>0, <2>1 DEF SendIo, CallOf, SendState
    <3>. QED
      BY <2>1, <3>1 DEF SendIo, Pipe!Accept, CallOf
  <2>2. ASSUME NEW s \in Senders, SendIoFail(s) PROVE Pipe!Refuse(s)
    <3>1. Call' = [Call EXCEPT ![s] = "false"]
      BY <2>0, <2>2 DEF SendIoFail, CallOf, SendState
    <3>. QED
      BY <2>0, <2>2, <3>1 DEF SendIoFail, Pipe!Refuse, CallOf
  <2>3. ASSUME NEW s \in Senders, SendEvt(s) PROVE Pipe!ReturnTrue(s)
    <3>0. Len(evt) < MaxEvt
      BY <2>3, EvtHasRoom DEF SendEvt
    <3>1. Call' = [Call EXCEPT ![s] = "true"]
      BY <2>0, <2>3, <3>0 DEF SendEvt, CallOf, SendState
    <3>. QED
      BY <2>3, <3>1 DEF SendEvt, Pipe!ReturnTrue, CallOf
  <2>4. ASSUME NEW s \in Senders, Return(s) PROVE Pipe!Resume(s)
    <3>1. Call' = [Call EXCEPT ![s] = "none"]
      BY <2>0, <2>4 DEF Return, CallOf, SendState
    <3>. QED
      BY <2>4, <3>1 DEF Return, Pipe!Resume, CallOf
  <2>5. ASSUME RecvEvt PROVE UNCHANGED Pipe!pipeVars
    BY <2>5 DEF RecvEvt, Pipe!pipeVars, CallOf
  <2>6. ASSUME RecvIo PROVE Pipe!Handle
    <3>1. io # << >>
      BY <2>6, PostingFinite, LenProperties, EmptySeq
      DEF RecvIo, IInv, Paired, TypeOK
    <3>2. Call' = Call
      BY <2>6 DEF RecvIo, CallOf
    <3>. QED
      BY <2>6, <3>1, <3>2 DEF RecvIo, Pipe!Handle
  <2>7. ASSUME HandleIoMsg PROVE Pipe!Finish
    <3>1. Call' = Call
      BY <2>7 DEF HandleIoMsg, CallOf
    <3>. QED
      BY <2>7, <3>1 DEF HandleIoMsg, Pipe!Finish, IInv, TypeOK
  <2>8. CASE UNCHANGED vars
    BY <2>8 DEF vars, Pipe!pipeVars, CallOf
  <2>. QED
    BY <2>1, <2>2, <2>3, <2>4, <2>5, <2>6, <2>7, <2>8 DEF Next, Pipe!PipeNext
<1>. QED
  BY <1>1, <1>2, IInvHolds, PTL DEF Spec
=============================================================================
