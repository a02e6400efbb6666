------------------------------ MODULE MsgPipe ------------------------------
(***************************************************************************)
(* What the application task promises to the code that posts to it: a      *)
(* bounded FIFO.  A call to app_send_msg_to_apptask either takes the       *)
(* message, and then it returns true and the message is handled once, in   *)
(* order, or it returns false and leaves no trace of the message.          *)
(*                                                                         *)
(* This is the specification AppTask.tla is shown to implement.            *)
(***************************************************************************)
EXTENDS Naturals, Sequences

CONSTANTS Senders,  \* the threads that call app_send_msg_to_apptask
          Msg,      \* the messages they post
          Capacity  \* how many accepted messages may wait

VARIABLES queue,    \* the accepted messages nobody handled yet
          call,     \* call[s]: where the call of sender s stands
          handling  \* the message being handled, or Nothing

CONSTANT Nothing

pipeVars == <<queue, call, handling>>

CallState == {"none", "accepted", "true", "false"}

PipeInit == /\ queue = << >>
            /\ call = [s \in Senders |-> "none"]
            /\ handling = Nothing

\* The message is taken: from here the call can only return true.
Accept(s) == /\ call[s] = "none"
             /\ Len(queue) < Capacity
             /\ \E m \in Msg : queue' = Append(queue, m)
             /\ call' = [call EXCEPT ![s] = "accepted"]
             /\ UNCHANGED handling

\* The message is refused: nothing of it stays behind.
Refuse(s) == /\ call[s] = "none"
             /\ Len(queue) = Capacity
             /\ call' = [call EXCEPT ![s] = "false"]
             /\ UNCHANGED <<queue, handling>>

ReturnTrue(s) == /\ call[s] = "accepted"
                 /\ call' = [call EXCEPT ![s] = "true"]
                 /\ UNCHANGED <<queue, handling>>

\* The caller goes on; it may call again.
Resume(s) == /\ call[s] \in {"true", "false"}
             /\ call' = [call EXCEPT ![s] = "none"]
             /\ UNCHANGED <<queue, handling>>

\* The oldest accepted message is handled.
Handle == /\ queue # << >>
          /\ handling' = Head(queue)
          /\ queue' = Tail(queue)
          /\ UNCHANGED call

\* The handler returns.
Finish == /\ handling # Nothing
          /\ handling' = Nothing
          /\ UNCHANGED <<queue, call>>

PipeNext == \/ \E s \in Senders : Accept(s) \/ Refuse(s) \/ ReturnTrue(s) \/ Resume(s)
            \/ Handle
            \/ Finish

PipeSpec == PipeInit /\ [][PipeNext]_pipeVars /\ WF_pipeVars(Handle) /\ WF_pipeVars(Finish)
=============================================================================
