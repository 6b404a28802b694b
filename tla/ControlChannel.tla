----------------------------- MODULE ControlChannel -----------------------------
(***************************************************************************)
(* The connection between the streamer's Client and the viewer's Server    *)
(* (v3xctrl_control), and the failsafe of apps/streamer.py that hangs on   *)
(* it.                                                                     *)
(*                                                                         *)
(* In each process a run thread polls a connection state and a worker      *)
(* thread of the UDP receiver calls the handlers of the messages.  They    *)
(* share the state, the time of the last message and the PWM outputs       *)
(* without a lock, so an action goes from one access to the next.          *)
(*                                                                         *)
(* Time is counted in ticks; an age is the number of ticks since the last  *)
(* message, and stops to grow once its timeout has passed.  Datagrams get  *)
(* lost and reordered; those of one kind in flight count as one.           *)
(***************************************************************************)
EXTENDS Naturals

CONSTANTS
  Worker,           \* the worker threads of the client: one at a time is current
  ClientTimeout,    \* no_message_timeout of the Client (failsafe_ms), in ticks
  ServerTimeout,    \* no_message_timeout of the Server, in ticks: longer
  Prompt            \* whether every step of a thread takes less than a tick

VARIABLES
  client,       \* state of the Client
  clientAge,    \* ticks since its last_message_timestamp
  step,         \* where its run thread is
  worker,       \* what each of its workers is about to do
  current,      \* the worker of its present receiver
  pwm,          \* the outputs to the motor and the steering
  server,       \* state of the Server
  serverAge,    \* ticks since its last_message_timestamp
  known,        \* the Server has an address to send to
  wire,         \* the datagrams in flight
  link          \* whether the network carries anything at all

clientThread == <<client, step>>
workers == <<worker, current, pwm>>
clientVars == <<clientThread, clientAge, workers>>
serverVars == <<server, serverAge, known>>
vars == <<clientVars, serverVars, wire, link>>

State == {"WAITING", "CONNECTED", "DISCONNECTED"}

(* Telemetry and heartbeats of the client are one kind, "data".  A latency *)
(* check is a heartbeat here: it is answered with data.                    *)
ToServer == {"syn", "data"}
ToClient == {"ack", "control", "heartbeat"}

(* A worker that has noted a message, has chosen a pulse width, or is      *)
(* about to declare the client connected.                                  *)
WorkerStep == {"idle", "drive", "failsafe", "connect", "ack", "control"}

TypeOK ==
  /\ client \in State
  /\ clientAge \in 0 .. ClientTimeout + 1
  /\ step \in {"loop", "expired", "handlers", "closed"}
  /\ worker \in [Worker -> WorkerStep]
  /\ current \in Worker
  /\ pwm \in {"idle", "drive", "failsafe"}
  /\ server \in State
  /\ serverAge \in 0 .. ServerTimeout + 1
  /\ known \in BOOLEAN
  /\ wire \subseteq ToServer \cup ToClient
  /\ link \in {"up", "cut"}

Init ==
  /\ client = "WAITING" /\ clientAge = 0 /\ step = "loop"
  /\ worker = [w \in Worker |-> "idle"] /\ current \in Worker
  /\ pwm = "idle"
  /\ server = "WAITING" /\ serverAge = 0 /\ known = FALSE
  /\ wire = {}
  /\ link = "up"

-----------------------------------------------------------------------------
(* The run thread of the client *)

SendSyn ==
  /\ step = "loop" /\ client = "WAITING"
  /\ wire' = wire \cup {"syn"}
  /\ UNCHANGED <<clientVars, serverVars, link>>

Heartbeat_Refreshes ==
  /\ step = "loop" /\ client = "CONNECTED"
  /\ wire' = wire \cup {"data"}
  /\ clientAge' = 0
  /\ UNCHANGED <<clientThread, workers, serverVars, link>>

(* Also the telemetry of the main thread of the application. *)
Heartbeat ==
  /\ step = "loop" /\ client = "CONNECTED"
  /\ wire' = wire \cup {"data"}
  /\ UNCHANGED <<clientVars, serverVars, link>>

(* check_timeout has found that too much time has passed ... *)
CheckTimeout ==
  /\ step = "loop" /\ client = "CONNECTED"
  /\ clientAge > ClientTimeout
  /\ step' = "expired"
  /\ UNCHANGED <<client, clientAge, workers, serverVars, wire, link>>

(* ... sets the state ... *)
Disconnect ==
  /\ step = "expired"
  /\ client' = "DISCONNECTED"
  /\ step' = "handlers"
  /\ UNCHANGED <<clientAge, workers, serverVars, wire, link>>

(* ... and calls disconnect_handler of the application. *)
DisconnectHandler ==
  /\ step = "handlers"
  /\ pwm' = "idle"
  /\ step' = "loop"
  /\ UNCHANGED <<client, clientAge, worker, current, serverVars, wire, link>>

(* re_initialize stops the receiver and joins it, but not its worker ...    *)
CloseSocket ==
  /\ step = "loop" /\ client = "DISCONNECTED"
  /\ step' = "closed"
  /\ UNCHANGED <<client, clientAge, workers, serverVars, wire, link>>

(* ... so that the new receiver has a worker of its own, and the old one   *)
(* ends its handler whenever it gets there.                                *)
ReInitialize ==
  /\ step = "closed"
  /\ \E w \in Worker : worker[w] = "idle" /\ current' = w
  /\ client' = "WAITING"
  /\ step' = "loop"
  /\ UNCHANGED <<clientAge, worker, pwm, serverVars, wire, link>>

ClientThread ==
  SendSyn \/ Heartbeat \/ CheckTimeout \/ Disconnect \/ DisconnectHandler
    \/ CloseSocket \/ ReInitialize

-----------------------------------------------------------------------------
(* The workers of the client *)

(* all_handler notes the time of a message before any other handler; there *)
(* is none for a heartbeat.                                                *)
Note(m) ==
  /\ link = "up" /\ m \in wire
  /\ step # "closed" /\ worker[current] = "idle"
  /\ wire' = wire \ {m}
  /\ clientAge' = 0
  /\ worker' = [worker EXCEPT ![current] = IF m = "heartbeat" THEN "idle" ELSE m]
  /\ UNCHANGED <<clientThread, current, pwm, serverVars, link>>

ControlHandler(w) ==
  /\ worker[w] = "control"
  /\ worker' = [worker EXCEPT ![w] = IF client = "CONNECTED" THEN "drive" ELSE "failsafe"]
  /\ UNCHANGED <<clientThread, clientAge, current, pwm, serverVars, wire, link>>

SetPulseWidth(w) ==
  /\ worker[w] \in {"drive", "failsafe"}
  /\ pwm' = worker[w]
  /\ worker' = [worker EXCEPT ![w] = "idle"]
  /\ UNCHANGED <<clientThread, clientAge, current, serverVars, wire, link>>

AckHandler_Unchecked(w) ==
  /\ worker[w] = "ack"
  /\ worker' = [worker EXCEPT ![w] = "connect"]
  /\ UNCHANGED <<clientThread, clientAge, current, pwm, serverVars, wire, link>>

AckHandler(w) ==
  /\ worker[w] = "ack"
  /\ worker' = [worker EXCEPT ![w] = IF client = "WAITING" THEN "connect" ELSE "idle"]
  /\ UNCHANGED <<clientThread, clientAge, current, pwm, serverVars, wire, link>>

SetConnected(w) ==
  /\ worker[w] = "connect"
  /\ client' = "CONNECTED"
  /\ worker' = [worker EXCEPT ![w] = "idle"]
  /\ UNCHANGED <<clientAge, step, current, pwm, serverVars, wire, link>>

WorkerThread(w) ==
  ControlHandler(w) \/ SetPulseWidth(w) \/ AckHandler(w) \/ SetConnected(w)

-----------------------------------------------------------------------------
(* The server *)

(* What all_handler does for every message: it is then the youngest, and   *)
(* its sender is the address to send to.                                   *)
ServerNote(m) ==
  /\ link = "up" /\ m \in wire
  /\ serverAge' = 0
  /\ known' = TRUE
  /\ UNCHANGED <<clientVars, link>>

SynHandler_WaitingOnly ==
  /\ ServerNote("syn")
  /\ server' = IF server = "WAITING" THEN "CONNECTED" ELSE server
  /\ wire' = (wire \ {"syn"}) \cup (IF server = "WAITING" THEN {"ack"} ELSE {})

SynHandler ==
  /\ ServerNote("syn")
  /\ server' = IF server = "WAITING" THEN "CONNECTED" ELSE server
  /\ wire' = (wire \ {"syn"}) \cup {"ack"}

DataHandler ==
  /\ ServerNote("data")
  /\ wire' = wire \ {"data"}
  /\ UNCHANGED server

ServerCheckTimeout ==
  /\ server = "CONNECTED"
  /\ serverAge > ServerTimeout
  /\ server' = "DISCONNECTED"
  /\ UNCHANGED <<clientVars, serverAge, known, wire, link>>

ServerReset ==
  /\ server = "DISCONNECTED"
  /\ server' = "WAITING"
  /\ UNCHANGED <<clientVars, serverAge, known, wire, link>>

ServerHeartbeat ==
  /\ server = "CONNECTED"
  /\ wire' = wire \cup {"heartbeat"}
  /\ UNCHANGED <<clientVars, serverVars, link>>

(* The main loop of the viewer sends controls as long as its user is       *)
(* connected, whatever the state of the server.                            *)
SendControl ==
  /\ known
  /\ wire' = wire \cup {"control"}
  /\ UNCHANGED <<clientVars, serverVars, link>>

-----------------------------------------------------------------------------
(* The environment *)

(* What gets lost while the worker is busy may as well be lost after that. *)
Lose(m) ==
  /\ m \in wire
  /\ m \in ToClient => worker[current] = "idle"
  /\ wire' = wire \ {m}
  /\ UNCHANGED <<clientVars, serverVars, link>>

(* The vehicle leaves the reach of the network for good. *)
Cut ==
  /\ link = "up"
  /\ link' = "cut"
  /\ UNCHANGED <<clientVars, serverVars, wire>>

Older(age, timeout) == IF age > timeout THEN age ELSE age + 1

Idle ==
  /\ step = "loop" /\ client # "DISCONNECTED" /\ \A w \in Worker : worker[w] = "idle"
  /\ client = "CONNECTED" => clientAge <= ClientTimeout
  /\ server # "DISCONNECTED"
  /\ server = "CONNECTED" => serverAge <= ServerTimeout

Tick ==
  /\ Prompt => Idle
  /\ clientAge' = Older(clientAge, ClientTimeout)
  /\ serverAge' = Older(serverAge, ServerTimeout)
  /\ UNCHANGED <<clientThread, workers, server, known, wire, link>>

Next ==
  \/ ClientThread
  \/ \E w \in Worker : WorkerThread(w)
  \/ \E m \in ToClient : Note(m)
  \/ SynHandler \/ DataHandler \/ ServerCheckTimeout \/ ServerReset
  \/ ServerHeartbeat \/ SendControl
  \/ \E m \in ToServer \cup ToClient : Lose(m)
  \/ Cut \/ Tick

Spec == Init /\ [][Next]_vars

(* The threads run and time passes; a network that is not cut delivers a   *)
(* datagram that is sent again and again.  The user owes nothing.          *)
Fairness ==
  /\ WF_vars(SendSyn) /\ WF_vars(Heartbeat) /\ WF_vars(CheckTimeout)
  /\ WF_vars(Disconnect \/ DisconnectHandler)
  /\ WF_vars(CloseSocket \/ ReInitialize)
  /\ \A w \in Worker : WF_vars(WorkerThread(w))
  /\ WF_vars(ServerCheckTimeout) /\ WF_vars(ServerReset)
  /\ WF_vars(Tick)
  /\ \A m \in ToClient : SF_vars(Note(m))
  /\ SF_vars(SynHandler) /\ SF_vars(DataHandler)

FairSpec == Spec /\ Fairness

-----------------------------------------------------------------------------
(* Properties *)

Successor ==
  [WAITING |-> "CONNECTED", CONNECTED |-> "DISCONNECTED", DISCONNECTED |-> "WAITING"]

(* Run thread and worker only ever take the client from one state to the   *)
(* next: "only progress through them sequentially" (Client.py).            *)
Sequential == [][client' = Successor[client]]_client

(* Whatever is lost, and whatever state the server is in, the client       *)
(* connects again and again (Client.run, syn_handler).                     *)
ClientRecovers == []<>(client = "CONNECTED" \/ link = "cut")

(* A client that is cut off notices, in whatever state it is               *)
(* (check_timeout, run).                                                   *)
CutNoticed == link = "cut" ~> [](client # "CONNECTED")

(* "Disconnect counts as failsafe, set values accordingly"                 *)
(* (disconnect_handler): while the client is not connected and no handler  *)
(* is at work, the vehicle is not driven by the last control.              *)
FailsafeHolds ==
  (client # "CONNECTED" /\ step = "loop" /\ \A w \in Worker : worker[w] = "idle") => pwm # "drive"

(* "The server timeout should be longer than on the client. This way it is *)
(* possible to recover a lost connection" (Base.__init__).                 *)
ServerRecovers == []<>(server = "CONNECTED" \/ link = "cut")

=============================================================================
