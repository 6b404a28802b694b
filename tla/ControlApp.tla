------------------------------- MODULE ControlApp -------------------------------
(***************************************************************************)
(* The control application of the streamer from its start to its end: the  *)
(* main thread, which ends it, the run thread of the Client, which builds  *)
(* a new connection when the old one is lost, and the workers of the       *)
(* receivers, which drive the outputs.                                     *)
(*                                                                         *)
(* Both the main thread, in Client.stop, and the run thread, in            *)
(* re_initialize, stop and join what the Client has at that moment, and    *)
(* nothing keeps them apart: each access to one of its three attributes is *)
(* a step.  A thread that has begun to write the outputs has the writes    *)
(* still to be made in todo.                                               *)
(***************************************************************************)
EXTENDS Naturals, Sequences

CONSTANT MaxBuilt  \* bound: connections built after the first

Built == 0 .. MaxBuilt

(* Who writes the outputs: the worker of a connection or one of these.     *)
RunWriter == MaxBuilt + 1
MainWriter == MaxBuilt + 2

VARIABLES
  apart,        \* whether the end comes while the connection stands (chosen once)
  at,           \* where the main thread and the run thread are
  waits,        \* the connection whose thread they wait for
  state,        \* of the Client
  running,      \* event of the Client
  using,        \* its socket, transmitter and message_handler
  open,         \* sockets
  transmitter, receiver,  \* the threads of each connection
  worker,       \* likewise
  pwm, powered, \* the outputs, and whether they are enabled
  todo          \* writes still to be made

clientVars == <<state, running, using>>
threads == <<open, transmitter, receiver, worker>>
outputs == <<pwm, powered, todo>>
vars == <<apart, at, waits, clientVars, threads, outputs>>

Output == {"throttle", "steering"}
Writer == 0 .. MainWriter
Thread == {"none", "new", "running", "stopping", "ended"}
Pulse == {"idle", "failsafe", "driven", "zero"}
Client == {"main", "run"}

TypeOK ==
  /\ apart \in BOOLEAN
  /\ at \in [Client -> {"none", "setup", "connect", "loop", "stop_rx", "stop_tx", "await_tx",
                        "join_rx", "joining_rx", "join_tx", "joining_tx", "joined", "close",
                        "join", "idle", "zero", "handlers", "socket", "transmitter", "receiver",
                        "start_tx", "start_rx", "ended", "failed", "crashed"}]
  /\ waits \in [Client -> Built]
  /\ state \in {"WAITING", "CONNECTED", "DISCONNECTED"} /\ running \in BOOLEAN
  /\ using \in [{"socket", "transmitter", "receiver"} -> Built]
  /\ open \subseteq Built
  /\ transmitter \in [Built -> Thread] /\ receiver \in [Built -> Thread]
  /\ worker \in [Built -> {"none", "idle", "ended"}]
  /\ pwm \in [Output -> Pulse] /\ powered \in BOOLEAN
  /\ \A t \in Writer : todo[t] \in Seq(Output \X Pulse)

Init ==
  /\ apart \in BOOLEAN
  /\ at = [t \in Client |-> IF t = "main" THEN "setup" ELSE "none"]
  /\ waits = [t \in Client |-> 0] /\ state = "WAITING" /\ running = FALSE
  /\ using = [a \in {"socket", "transmitter", "receiver"} |-> 0] /\ open = {}
  /\ transmitter = [c \in Built |-> "none"] /\ receiver = [c \in Built |-> "none"]
  /\ worker = [c \in Built |-> "none"]
  /\ pwm = [o \in Output |-> "zero"] /\ powered = FALSE
  /\ todo = [t \in Writer |-> <<>>]

Rest(value) == << <<"throttle", value>>, <<"steering", value>> >>

set_pulse_width(t) ==
  /\ todo[t] # <<>>
  /\ pwm' = [pwm EXCEPT ![Head(todo[t])[1]] = Head(todo[t])[2]]
  /\ todo' = [todo EXCEPT ![t] = Tail(@)]
  /\ UNCHANGED <<apart, at, waits, clientVars, threads, powered>>

-----------------------------------------------------------------------------
(* What both threads do with the Client *)

Handler == using["receiver"]
Sender == using["transmitter"]

Step(t, from, to) == at[t] = from /\ at' = [at EXCEPT ![t] = to]

StopHandler_Later(t) ==
  /\ Step(t, "stop_rx", "stop_tx")
  /\ UNCHANGED <<apart, waits, clientVars, threads, outputs>>

StopHandler(t) ==
  /\ Step(t, "stop_rx", "stop_tx")
  /\ receiver' = IF receiver[Handler] = "running"
                 THEN [receiver EXCEPT ![Handler] = "stopping"] ELSE receiver
  /\ UNCHANGED <<apart, waits, clientVars, open, transmitter, worker, outputs>>

(* Who stops the transmitter waits until it has ended. *)
StopSender(t) ==
  /\ IF transmitter[Sender] = "running"
     THEN /\ Step(t, "stop_tx", "await_tx")
          /\ transmitter' = [transmitter EXCEPT ![Sender] = "stopping"]
          /\ waits' = [waits EXCEPT ![t] = Sender]
     ELSE Step(t, "stop_tx", "join_rx") /\ UNCHANGED <<transmitter, waits>>
  /\ UNCHANGED <<apart, clientVars, open, receiver, worker, outputs>>

(* join of what is the Client's by then: it raises for a thread that was   *)
(* not started, and the exception leaves the finally block.                *)
JoinHandler(t) ==
  /\ Step(t, "join_rx", IF receiver[Handler] = "new" THEN "crashed" ELSE "joining_rx")
  /\ waits' = [waits EXCEPT ![t] = Handler]
  /\ UNCHANGED <<apart, clientVars, threads, outputs>>

JoinSender(t) ==
  /\ Step(t, "join_tx", IF transmitter[Sender] = "new" THEN "crashed" ELSE "joining_tx")
  /\ waits' = [waits EXCEPT ![t] = Sender]
  /\ UNCHANGED <<apart, clientVars, threads, outputs>>

Waited(t) ==
  /\ \/ transmitter[waits[t]] = "ended" /\ Step(t, "await_tx", "join_rx")
     \/ receiver[waits[t]] = "ended" /\ Step(t, "joining_rx", "join_tx")
     \/ transmitter[waits[t]] = "ended" /\ Step(t, "joining_tx", "joined")
  /\ UNCHANGED <<apart, waits, clientVars, threads, outputs>>

TearDown(t) == StopHandler(t) \/ StopSender(t) \/ JoinHandler(t) \/ JoinSender(t) \/ Waited(t)

-----------------------------------------------------------------------------
(* The main thread *)

Setup ==
  /\ Step("main", "setup", "connect")
  /\ pwm' = [o \in Output |-> "idle"] /\ powered' = TRUE
  /\ UNCHANGED <<apart, waits, clientVars, threads, todo>>

(* The tunnel gets no port, or the host no address: it exits as it is.      *)
ConnectFails ==
  /\ Step("main", "connect", "failed")
  /\ UNCHANGED <<apart, waits, clientVars, threads, outputs>>

(* Client and its start.                                                   *)
Connect ==
  /\ at["main"] = "connect" /\ at' = [t \in Client |-> "loop"]
  /\ open' = {0} /\ running' = TRUE
  /\ transmitter' = [transmitter EXCEPT ![0] = "running"]
  /\ receiver' = [receiver EXCEPT ![0] = "running"]
  /\ worker' = [worker EXCEPT ![0] = "idle"]
  /\ UNCHANGED <<apart, waits, state, using, outputs>>

(* A signal has ended the loop, and stop of the Client begins. *)
End ==
  /\ Step("main", "loop", "stop_rx")
  /\ apart => at["run"] = "loop" /\ state # "DISCONNECTED"
  /\ UNCHANGED <<apart, waits, clientVars, threads, outputs>>

Clear ==
  /\ Step("main", "joined", "close")
  /\ running' = FALSE
  /\ UNCHANGED <<apart, waits, state, using, threads, outputs>>

CloseSocket ==
  /\ Step("main", "close", "join")
  /\ open' = open \ {using["socket"]}
  /\ UNCHANGED <<apart, waits, clientVars, transmitter, receiver, worker, outputs>>

(* join of the Client, and of the telemetry. *)
Join ==
  /\ Step("main", "join", "idle") /\ at["run"] = "ended"
  /\ todo' = [todo EXCEPT ![MainWriter] = Rest("idle")]
  /\ UNCHANGED <<apart, waits, clientVars, threads, pwm, powered>>

(* The workers are not joined, but one that has begun to write is done     *)
(* before a second has passed.                                             *)
Settled ==
  /\ todo[MainWriter] = <<>>
  /\ apart => \A c \in Built : todo[c] = <<>>

SetZero ==
  /\ Step("main", "idle", "zero") /\ Settled
  /\ todo' = [todo EXCEPT ![MainWriter] = Rest("zero")]
  /\ UNCHANGED <<apart, waits, clientVars, threads, pwm, powered>>

Disable ==
  /\ Step("main", "zero", "ended") /\ Settled
  /\ powered' = FALSE
  /\ UNCHANGED <<apart, waits, clientVars, threads, pwm, todo>>

MainThread ==
  \/ Setup \/ Connect \/ TearDown("main") \/ Clear \/ CloseSocket \/ Join \/ SetZero \/ Disable
  \/ set_pulse_width(MainWriter)

-----------------------------------------------------------------------------
(* The run thread of the Client *)

(* check_timeout, in time to be over with before the end begins, if they   *)
(* are kept apart; the state is set before the handlers are called.        *)
Expire ==
  /\ Step("run", "loop", "handlers") /\ running /\ state = "CONNECTED" /\ todo[RunWriter] = <<>>
  /\ apart => at["main"] = "loop"
  /\ state' = "DISCONNECTED"
  /\ UNCHANGED <<apart, waits, running, using, threads, outputs>>

disconnect_handler ==
  /\ Step("run", "handlers", "loop")
  /\ todo' = [todo EXCEPT ![RunWriter] = Rest("idle")]
  /\ UNCHANGED <<apart, waits, clientVars, threads, pwm, powered>>

ReInitialize ==
  /\ Step("run", "loop", "stop_rx") /\ todo[RunWriter] = <<>>
  /\ running /\ state = "DISCONNECTED" /\ Handler < MaxBuilt
  /\ UNCHANGED <<apart, waits, clientVars, threads, outputs>>

ReClose ==
  /\ Step("run", "joined", "socket")
  /\ open' = open \ {using["socket"]}
  /\ UNCHANGED <<apart, waits, clientVars, transmitter, receiver, worker, outputs>>

(* initialize: a socket, a transmitter and a message handler, which are    *)
(* the Client's before they are started.                                   *)
BuildSocket ==
  /\ Step("run", "socket", "transmitter")
  /\ using' = [using EXCEPT !["socket"] = @ + 1] /\ open' = open \cup {using'["socket"]}
  /\ UNCHANGED <<apart, waits, state, running, transmitter, receiver, worker, outputs>>

BuildTransmitter ==
  /\ Step("run", "transmitter", "receiver")
  /\ using' = [using EXCEPT !["transmitter"] = @ + 1]
  /\ transmitter' = [transmitter EXCEPT ![using'["transmitter"]] = "new"]
  /\ UNCHANGED <<apart, waits, state, running, open, receiver, worker, outputs>>

BuildHandler ==
  /\ Step("run", "receiver", "start_tx")
  /\ using' = [using EXCEPT !["receiver"] = @ + 1]
  /\ receiver' = [receiver EXCEPT ![using'["receiver"]] = "new"]
  /\ UNCHANGED <<apart, waits, state, running, open, transmitter, worker, outputs>>

StartTransmitter ==
  /\ Step("run", "start_tx", "start_rx")
  /\ transmitter' = [transmitter EXCEPT ![Sender] = "running"]
  /\ UNCHANGED <<apart, waits, clientVars, open, receiver, worker, outputs>>

StartHandler ==
  /\ Step("run", "start_rx", "loop")
  /\ receiver' = [receiver EXCEPT ![Handler] = "running"]
  /\ worker' = [worker EXCEPT ![Handler] = "idle"]
  /\ state' = "WAITING"
  /\ UNCHANGED <<apart, waits, running, using, open, transmitter, outputs>>

RunEnds ==
  /\ Step("run", "loop", "ended") /\ ~running /\ todo[RunWriter] = <<>>
  /\ UNCHANGED <<apart, waits, clientVars, threads, outputs>>

RunThread ==
  \/ disconnect_handler \/ ReInitialize \/ TearDown("run") \/ ReClose
  \/ BuildSocket \/ BuildTransmitter \/ BuildHandler \/ StartTransmitter \/ StartHandler
  \/ RunEnds \/ set_pulse_width(RunWriter)

-----------------------------------------------------------------------------
(* The threads of the connections *)

(* Of process and run_forever of the transmitter.                          *)
TransmitterEnds(c) ==
  /\ transmitter[c] = "stopping"
  /\ transmitter' = [transmitter EXCEPT ![c] = "ended"]
  /\ UNCHANGED <<apart, at, waits, clientVars, open, receiver, worker, outputs>>

(* It was told to stop, or select finds its socket closed. *)
ReceiverEnds(c) ==
  /\ receiver[c] = "stopping" \/ (receiver[c] = "running" /\ c \notin open)
  /\ receiver' = [receiver EXCEPT ![c] = "ended"]
  /\ UNCHANGED <<apart, at, waits, clientVars, open, transmitter, worker, outputs>>

Idle(c) == worker[c] = "idle" /\ todo[c] = <<>> /\ receiver[c] \in {"running", "stopping"}

ack_handler(c) ==
  /\ Idle(c) /\ receiver[c] = "running" /\ state = "WAITING"
  /\ state' = "CONNECTED"
  /\ UNCHANGED <<apart, at, waits, running, using, threads, outputs>>

(* A stick in the middle leaves the throttle at the value for the failsafe. *)
control_handler(c) ==
  /\ Idle(c) /\ receiver[c] = "running"
  /\ \E throttle \in {"driven", "failsafe"} :
       todo' = [todo EXCEPT ![c] = IF state = "CONNECTED"
                                   THEN << <<"throttle", throttle>>, <<"steering", "driven">> >>
                                   ELSE Rest("failsafe")]
  /\ UNCHANGED <<apart, at, waits, clientVars, threads, pwm, powered>>

WorkerEnds(c) ==
  /\ worker[c] = "idle" /\ todo[c] = <<>> /\ receiver[c] \in {"stopping", "ended"}
  /\ worker' = [worker EXCEPT ![c] = "ended"]
  /\ UNCHANGED <<apart, at, waits, clientVars, open, transmitter, receiver, outputs>>

Ending(c) == TransmitterEnds(c) \/ ReceiverEnds(c) \/ WorkerEnds(c) \/ set_pulse_width(c)

Next ==
  \/ ConnectFails \/ End \/ MainThread \/ Expire \/ RunThread
  \/ \E c \in Built : Ending(c) \/ ack_handler(c) \/ control_handler(c)

Spec == Init /\ [][Next]_vars
FairSpec ==
  /\ Spec /\ WF_vars(MainThread) /\ WF_vars(RunThread)
  /\ \A c \in Built : WF_vars(Ending(c))

-----------------------------------------------------------------------------
(* An application that has ended by itself has left its outputs without a  *)
(* pulse and disabled, and so they stay: cleanup_pwm of                    *)
(* apps/streamer.py, which the threads of the client could still drive.    *)
AtRest == at["main"] = "ended" /\ apart => ~powered /\ pwm = [o \in Output |-> "zero"]

(* An end comes to its end, as long as the connection is not lost or built *)
(* anew while it lasts: Client.stop and the finally block of               *)
(* apps/streamer.py.                                                       *)
EndComes == at["main"] = "stop_rx" /\ apart ~> at["main"] = "ended"

(* Not so otherwise: Client.stop may wait for a receiver that was built    *)
(* after it had stopped the one before, or join one that was not started.  *)
AlwaysEnds == at["main"] = "stop_rx" ~> at["main"] = "ended"
=============================================================================
