------------------------------ MODULE AppTask ------------------------------
(***************************************************************************)
(* The silent-OTA application task and its two queues                      *)
(* (src/subsys/dfu/silent_ota.c).                                          *)
(*                                                                         *)
(* A message is posted in two steps that are not atomic: the message goes  *)
(* to the io queue, then an event goes to the event queue.  The task waits *)
(* on the event queue only, and takes one io message for each event.  The  *)
(* two queues are filled by threads that interleave, and neither send      *)
(* waits: a full queue makes app_send_msg_to_apptask return false, and     *)
(* when it is the event queue the message already sits in the io queue.    *)
(***************************************************************************)
EXTENDS Naturals, Sequences, FiniteSets

CONSTANTS
    Senders,   \* the threads that post: the Bluetooth thread, the watchdog timer
    Msg,       \* the io messages
    Nothing,   \* no message
    MaxIo,     \* MAX_NUMBER_OF_IO_MESSAGE
    MaxEvt     \* MAX_NUMBER_OF_EVENT_MESSAGE

ASSUME SendersAssumption == IsFiniteSet(Senders)
ASSUME NothingAssumption == Nothing \notin Msg
ASSUME QueueAssumption   == /\ MaxIo \in Nat
                            /\ MaxEvt \in Nat
                            /\ MaxIo <= MaxEvt

VARIABLES
    io,        \* io_queue_handle: the messages
    evt,       \* evt_queue_handle: the events
    send,      \* send[s]: where sender s is in app_send_msg_to_apptask
    task,      \* where silent_ota_task is in its loop
    handling   \* the message app_handle_io_msg works on, or Nothing

vars == <<io, evt, send, task, handling>>

EVENT_IO_TO_APP == "EVENT_IO_TO_APP"

SendState == {"out", "posted", "true", "false"}
TaskState == {"wait", "event", "handle"}

Init == /\ io = << >>
        /\ evt = << >>
        /\ send = [s \in Senders |-> "out"]
        /\ task = "wait"
        /\ handling = Nothing

-----------------------------------------------------------------------------
(* app_send_msg_to_apptask: os_msg_send to the io queue, then to the event *)
(* queue, both with a zero timeout.                                        *)

\* Wrong variants, for the mutation runs: the io queue is taken to be endless,
\* the event is sent though the message was not, and all events are taken at
\* once.
SendIoUnbounded(s) == /\ send[s] = "out"
                      /\ \E m \in Msg : io' = Append(io, m)
                      /\ send' = [send EXCEPT ![s] = "posted"]
                      /\ UNCHANGED <<evt, task, handling>>
SendIoFailPosts(s) == /\ send[s] = "out"
                      /\ Len(io) >= MaxIo
                      /\ send' = [send EXCEPT ![s] = "posted"]
                      /\ UNCHANGED <<io, evt, task, handling>>
RecvEvtAll == /\ task = "wait"
              /\ evt # << >>
              /\ evt' = << >>
              /\ task' = "event"
              /\ UNCHANGED <<io, send, handling>>

\* The io queue takes the message; the event is still to be sent.
SendIo(s) == /\ send[s] = "out"
             /\ Len(io) < MaxIo
             /\ \E m \in Msg : io' = Append(io, m)
             /\ send' = [send EXCEPT ![s] = "posted"]
             /\ UNCHANGED <<evt, task, handling>>

\* The io queue is full: return false.
SendIoFail(s) == /\ send[s] = "out"
                 /\ Len(io) >= MaxIo
                 /\ send' = [send EXCEPT ![s] = "false"]
                 /\ UNCHANGED <<io, evt, task, handling>>

\* The event queue takes the event (return true), or it is full (return
\* false, and the io message stays where it is).
SendEvt(s) == /\ send[s] = "posted"
              /\ IF Len(evt) < MaxEvt
                 THEN /\ evt' = Append(evt, EVENT_IO_TO_APP)
                      /\ send' = [send EXCEPT ![s] = "true"]
                 ELSE /\ send' = [send EXCEPT ![s] = "false"]
                      /\ UNCHANGED evt
              /\ UNCHANGED <<io, task, handling>>

\* The sender has the result and goes on.
Return(s) == /\ send[s] \in {"true", "false"}
             /\ send' = [send EXCEPT ![s] = "out"]
             /\ UNCHANGED <<io, evt, task, handling>>

-----------------------------------------------------------------------------
(* silent_ota_task: wait for an event, take an io message without waiting, *)
(* handle it.                                                              *)

RecvEvt == /\ task = "wait"
           /\ evt # << >>
           /\ evt' = Tail(evt)
           /\ task' = "event"
           /\ UNCHANGED <<io, send, handling>>

\* os_msg_recv on the io queue with a zero timeout: an empty queue sends the
\* task back to the event queue.
RecvIo == /\ task = "event"
          /\ IF io # << >>
             THEN /\ handling' = Head(io)
                  /\ io' = Tail(io)
                  /\ task' = "handle"
             ELSE /\ task' = "wait"
                  /\ UNCHANGED <<io, handling>>
          /\ UNCHANGED <<evt, send>>

\* app_handle_io_msg returns.
HandleIoMsg == /\ task = "handle"
               /\ handling' = Nothing
               /\ task' = "wait"
               /\ UNCHANGED <<io, evt, send>>

Next == \/ \E s \in Senders : SendIo(s) \/ SendIoFail(s) \/ SendEvt(s) \/ Return(s)
        \/ RecvEvt
        \/ RecvIo
        \/ HandleIoMsg

\* A thread inside app_send_msg_to_apptask keeps running, and so does the
\* task: no send and no receive but the one on an empty event queue blocks.
Fairness == /\ \A s \in Senders : WF_vars(SendEvt(s))
            /\ WF_vars(RecvEvt)
            /\ WF_vars(RecvIo)
            /\ WF_vars(HandleIoMsg)

Spec == Init /\ [][Next]_vars /\ Fairness

-----------------------------------------------------------------------------
\* The state has the shape the code gives it: bounded queues, a task that
\* holds a message exactly while it handles one.
TypeOK == /\ io \in Seq(Msg)
          /\ Len(io) <= MaxIo
          /\ evt \in Seq({EVENT_IO_TO_APP})
          /\ Len(evt) <= MaxEvt
          /\ send \in [Senders -> SendState]
          /\ task \in TaskState
          /\ handling \in Msg \cup {Nothing}
          /\ (handling # Nothing) <=> (task = "handle")

\* The senders between the two sends of app_send_msg_to_apptask.
Posting == {s \in Senders : send[s] = "posted"}

\* The two queues stay paired although nothing locks them together: an io
\* message is waiting for exactly each event that is queued, about to be
\* queued, or taken by the task.
Paired == Len(io) = Len(evt) + Cardinality(Posting) + (IF task = "event" THEN 1 ELSE 0)

\* The second send of app_send_msg_to_apptask (silent_ota.c:107) never finds
\* the event queue full, so a call never returns false with its message left
\* in the io queue.
EvtNeverFull == \A s \in Senders : send[s] = "posted" => Len(evt) < MaxEvt

\* When the task took an event, the io queue has a message for it
\* (silent_ota.c:250): the receive with a zero timeout does not miss.
NeverMisses == task = "event" => io # << >>

\* No message is stranded: with the task asleep on an empty event queue and
\* no call in progress, the io queue is empty too.
NoneStranded == (task = "wait" /\ evt = << >> /\ Posting = {}) => io = << >>

\* Every message the io queue took is handled at some time.
EveryMsgHandled == \A m \in Msg : (\E i \in 1..Len(io) : io[i] = m) ~> (handling = m)

-----------------------------------------------------------------------------
(* The task implements the bounded FIFO of MsgPipe: a message is accepted  *)
(* when the io queue takes it and handled when it leaves the io queue.     *)

CallOf(s) == CASE send[s] = "out"    -> "none"
               [] send[s] = "posted" -> "accepted"
               [] OTHER              -> send[s]

Pipe == INSTANCE MsgPipe WITH Capacity <- MaxIo,
                              queue    <- io,
                              call     <- [s \in Senders |-> CallOf(s)]

\* Every behaviour of the two queues is a behaviour of one bounded FIFO: a
\* false result means that nothing was posted, and a message is handled once.
PipeRefinement == Pipe!PipeSpec

=============================================================================
