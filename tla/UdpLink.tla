-------------------------------- MODULE UdpLink --------------------------------
(***************************************************************************)
(* One direction of the control connection: the UDPTransmitter of the      *)
(* viewer's Server, the network, and the UDPReceiver of the streamer's     *)
(* Client with its worker thread.                                          *)
(*                                                                         *)
(* Messages carry the time they were made at, here their number.  Controls *)
(* wait in a bounded buffer, all others in a queue; a command that is not  *)
(* acknowledged is queued again as it is.  Datagrams get lost, duplicated  *)
(* and reordered.                                                          *)
(***************************************************************************)
EXTENDS Naturals, Sequences

CONSTANTS
  Capacity,     \* control_buffer_capacity
  QueueSize,    \* messages that wait for the worker
  MaxMessages,  \* bound: messages made
  MaxRetries    \* bound: commands that are queued again

ASSUME UdpLinkAssumption ==
  /\ Capacity \in Nat \ {0} /\ QueueSize \in Nat \ {0}
  /\ MaxMessages \in Nat /\ MaxRetries \in Nat

(* Command and Latency are exempt from the order, Syn and Ack reset it,    *)
(* and all others follow it as a control does.                             *)
Kind == {"control", "exempt", "reset", "plain"}
Message == [n : 1 .. MaxMessages, kind : Kind]

VARIABLES
  clock,      \* messages made so far
  controls,   \* history: the controls among them
  retries,    \* commands queued again so far
  buffer,     \* _control_buffer
  queue,      \* queue of the transmitter
  process,    \* where the task of the transmitter is
  wire,       \* datagrams on their way
  last,       \* last_valid_timestamp
  inbox,      \* _queue of the receiver
  applied,    \* the control that was handled last
  disturbed   \* history: last has gone back

transmitter == <<buffer, queue, process>>
receiver == <<last, inbox, applied, disturbed>>
vars == <<clock, controls, retries, transmitter, wire, receiver>>

TypeOK ==
  /\ clock \in 0 .. MaxMessages
  /\ controls \in Seq(1 .. clock)
  /\ retries \in 0 .. MaxRetries
  /\ buffer \in Seq(Message) /\ queue \in Seq(Message)
  /\ process \in {"control", "queue"}
  /\ wire \subseteq Message
  /\ last \in 0 .. clock /\ applied \in 0 .. clock
  /\ inbox \in Seq(Message) /\ Len(inbox) <= QueueSize
  /\ disturbed \in BOOLEAN

Init ==
  /\ clock = 0 /\ controls = <<>> /\ retries = 0
  /\ buffer = <<>> /\ queue = <<>> /\ process = "control"
  /\ wire = {}
  /\ last = 0 /\ inbox = <<>> /\ applied = 0 /\ disturbed = FALSE

-----------------------------------------------------------------------------
(* The Server *)

(* A full buffer loses its oldest control. *)
SetControlMessage ==
  /\ clock < MaxMessages
  /\ clock' = clock + 1
  /\ controls' = Append(controls, clock')
  /\ LET kept == IF Len(buffer) = Capacity THEN Tail(buffer) ELSE buffer
     IN  buffer' = Append(kept, [n |-> clock', kind |-> "control"])
  /\ UNCHANGED <<retries, queue, process, wire, receiver>>

AddMessage(kind) ==
  /\ clock < MaxMessages
  /\ clock' = clock + 1
  /\ queue' = Append(queue, [n |-> clock', kind |-> kind])
  /\ UNCHANGED <<controls, retries, buffer, process, wire, receiver>>

(* The next attempt of a command, with the timestamp of the first. *)
Retry(n) ==
  /\ n <= clock /\ retries < MaxRetries
  /\ n \notin {controls[i] : i \in DOMAIN controls}
  /\ retries' = retries + 1
  /\ queue' = Append(queue, [n |-> n, kind |-> "exempt"])
  /\ UNCHANGED <<clock, controls, buffer, process, wire, receiver>>

-----------------------------------------------------------------------------
(* UDPTransmitter.process, one control and one other message in turn *)

SendControl ==
  /\ process = "control"
  /\ process' = "queue"
  /\ IF buffer = <<>> THEN UNCHANGED <<buffer, wire>>
                      ELSE buffer' = Tail(buffer) /\ wire' = wire \cup {Head(buffer)}
  /\ UNCHANGED <<clock, controls, retries, queue, receiver>>

(* A message that has waited for longer than the ttl is not sent. *)
SendQueued ==
  /\ process = "queue"
  /\ process' = "control"
  /\ IF queue = <<>> THEN UNCHANGED <<queue, wire>>
                     ELSE queue' = Tail(queue) /\ wire' \in {wire, wire \cup {Head(queue)}}
  /\ UNCHANGED <<clock, controls, retries, buffer, receiver>>

Process == SendControl \/ SendQueued

Lose(m) ==
  /\ m \in wire
  /\ wire' = wire \ {m}
  /\ UNCHANGED <<clock, controls, retries, transmitter, receiver>>

-----------------------------------------------------------------------------
(* UDPReceiver *)

IsValidMessage(m) == m.kind \in {"exempt", "reset"} \/ m.n >= last

Accept_WhenHandled(m) ==
  /\ m \in wire /\ IsValidMessage(m)
  /\ wire' \in {wire, wire \ {m}}
  /\ inbox' = IF Len(inbox) = QueueSize THEN inbox ELSE Append(inbox, m)
  /\ last' = IF inbox = <<>> THEN m.n ELSE last
  /\ disturbed' = (disturbed \/ m.n < last)
  /\ UNCHANGED <<clock, controls, retries, transmitter, applied>>

(* The time of the message is kept whatever its kind, also when there is   *)
(* no room for it.                                                         *)
Accept(m) ==
  /\ m \in wire /\ IsValidMessage(m)
  /\ wire' \in {wire, wire \ {m}}
  /\ inbox' = IF Len(inbox) = QueueSize THEN inbox ELSE Append(inbox, m)
  /\ last' = m.n
  /\ disturbed' = (disturbed \/ m.n < last)
  /\ UNCHANGED <<clock, controls, retries, transmitter, applied>>

Skip(m) ==
  /\ m \in wire /\ ~IsValidMessage(m)
  /\ wire' = wire \ {m}
  /\ UNCHANGED <<clock, controls, retries, transmitter, receiver>>

(* _worker_loop and the handler of the message. *)
Handle ==
  /\ inbox # <<>>
  /\ inbox' = Tail(inbox)
  /\ applied' = IF Head(inbox).kind = "control" THEN Head(inbox).n ELSE applied
  /\ UNCHANGED <<clock, controls, retries, transmitter, wire, last, disturbed>>

(* re_initialize of the Client makes a new receiver with a new worker. *)
NewReceiver ==
  /\ last > 0
  /\ last' = 0 /\ inbox' = <<>> /\ disturbed' = TRUE
  /\ UNCHANGED <<clock, controls, retries, transmitter, wire, applied>>

-----------------------------------------------------------------------------
Network(m) == Lose(m) \/ Accept(m) \/ Skip(m)

Next ==
  \/ SetControlMessage
  \/ \E kind \in Kind \ {"control"} : AddMessage(kind)
  \/ \E n \in 1 .. MaxMessages : Retry(n)
  \/ Process
  \/ \E m \in Message : Network(m)
  \/ Handle \/ NewReceiver

Spec == Init /\ [][Next]_vars

(* The task of the transmitter runs.  The network owes nobody anything.    *)
FairSpec == Spec /\ WF_vars(Process)

-----------------------------------------------------------------------------
(* Properties *)

(* The buffer holds the newest controls and no more than its capacity:     *)
(* what is sent next is never older than the Capacity newest controls,     *)
(* however long the transmitter was kept from sending.                     *)
FreshControls ==
  /\ Len(buffer) <= Capacity
  /\ Len(buffer) <= Len(controls)
  /\ \A i \in DOMAIN buffer : buffer[i].n = controls[Len(controls) - Len(buffer) + i]

Buffered(n) == \E i \in DOMAIN buffer : buffer[i].n = n

(* A control leaves the buffer in the end, whether or not there are other  *)
(* messages to send.                                                       *)
ControlsMoveOn == \A n \in 1 .. MaxMessages : Buffered(n) ~> ~Buffered(n)

(* is_valid_message: "effectively catch: Telemetry, Control".  The         *)
(* controls that are handled are an ordered part of those sent, until a    *)
(* message that is exempt from the order arrives late, or a new receiver   *)
(* is made.                                                                *)
Link == INSTANCE OrderedLink WITH sent <- clock, heard <- applied
OrderedControls == Link!Spec

(* The same without the exceptions: no control is handled after a newer.   *)
NewestControl == [][applied' >= applied]_applied

===============================================================================
