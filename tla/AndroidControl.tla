----------------------------- MODULE AndroidControl -----------------------------
(***************************************************************************)
(* The control channel of the Android viewer: a UDPReceiver with its       *)
(* UDPTransmitter, made by Compose on the main thread and working in       *)
(* coroutines on other threads, opposite a streamer, over a network that   *)
(* loses messages.  A change of the settings stops the receiver and makes  *)
(* another one.  The network is the set of the messages on their way;      *)
(* the values of a control are left out.                                   *)
(***************************************************************************)
EXTENDS Naturals

CONSTANTS
  MaxRetries,   \* COMMAND_MAX_RETRIES
  MaxChanges,   \* how often the receiver or the streamer is replaced (a bound)
  Patient,      \* a receiver is replaced once the streamer has noticed
  ClockSteps    \* a streamer may come back with an earlier clock

Up == {"Syn", "Beat", "CommandAck"}
Down == {"Ack", "Heartbeat", "Command", "Control"}

VARIABLES
  transport,   \* "udp" or "tcp"
  receiver,    \* the state of the current one
  leaving,     \* a coroutine of a stopped one is about to bind its socket
  leaked,      \* its socket is bound, and nobody closes it
  connected,   \* isConnected
  peer,        \* lastPeerAddress is known
  known,       \* receivedPeerInfo
  ahead,       \* lastValidTimestamp is later than the clock of the streamer
  handling,    \* the message receiveLoop has let through
  stale,       \* one that a stopped receiver handles yet
  shown,       \* isControlConnected
  command,     \* a command of the user
  attempts,    \* how often it was sent
  answers,     \* how often its callback was called
  streamer,    \* "waiting" or "connected"
  heard,       \* it has heard from the viewer lately
  up, down,    \* messages on their way
  changes      \* how many there were

object == <<connected, peer, known, ahead>>
commands == <<command, attempts, answers>>
remote == <<streamer, heard>>
network == <<up, down>>
vars == <<transport, receiver, leaving, leaked, object, handling, stale, shown, commands,
          remote, network, changes>>

TypeOK ==
  /\ transport \in {"udp", "tcp"}
  /\ receiver \in {"none", "init", "running", "fail", "clear", "cleanup", "failed"}
  /\ leaving \in BOOLEAN /\ leaked \in BOOLEAN
  /\ connected \in BOOLEAN /\ peer \in BOOLEAN /\ known \in BOOLEAN /\ ahead \in BOOLEAN
  /\ handling \in Up \cup {"none"} /\ stale \in Up \cup {"none"}
  /\ shown \in BOOLEAN
  /\ command \in {"none", "pending", "done"} /\ attempts \in 0 .. MaxRetries /\ answers \in 0 .. 2
  /\ streamer \in {"waiting", "connected"} /\ heard \in BOOLEAN
  /\ up \subseteq Up /\ down \subseteq Down
  /\ changes \in 0 .. MaxChanges

Init ==
  /\ transport \in {"udp", "tcp"}
  /\ receiver = "none" /\ leaving = FALSE /\ leaked = FALSE
  /\ connected = FALSE /\ peer = FALSE /\ known = FALSE /\ ahead = FALSE
  /\ handling = "none" /\ stale = "none"
  /\ shown = FALSE
  /\ command = "none" /\ attempts = 0 /\ answers = 0
  /\ streamer = "waiting" /\ heard = FALSE
  /\ up = {} /\ down = {} /\ changes = 0

-----------------------------------------------------------------------------
(* The main thread *)

Start ==
  /\ receiver = "none"
  /\ receiver' = "init"
  /\ UNCHANGED <<transport, leaving, leaked, object, handling, stale, shown, commands,
                 remote, network, changes>>

(* onDispose calls stop(): isRunning, the coroutines, the transmitter.  A  *)
(* coroutine that has begun to start is not stopped by being cancelled.    *)
Stop ==
  /\ receiver \in {"init", "running", "failed"} /\ changes < MaxChanges
  /\ Patient /\ transport = "udp" => streamer = "waiting" /\ "Ack" \notin down
  /\ leaving' \in IF receiver = "init" THEN BOOLEAN ELSE {leaving}
  /\ receiver' = "fail" /\ changes' = changes + 1
  /\ UNCHANGED <<transport, leaked, object, handling, stale, shown, commands, remote, network>>

StopFail ==
  /\ receiver = "fail" /\ receiver' = "clear"
  /\ answers' = IF command = "pending" THEN answers + 1 ELSE answers
  /\ UNCHANGED <<transport, leaving, leaked, object, handling, stale, shown, command,
                 attempts, remote, network, changes>>

StopClear ==
  /\ receiver = "clear" /\ receiver' = "cleanup"
  /\ command' = IF command = "pending" THEN "done" ELSE command
  /\ UNCHANGED <<transport, leaving, leaked, object, handling, stale, shown, attempts,
                 answers, remote, network, changes>>

cleanup ==
  /\ connected' = FALSE /\ peer' = FALSE /\ known' = FALSE /\ ahead' = FALSE
  /\ shown' = FALSE

(* The port of the next receiver is the same one, or, after leaving the    *)
(* viewer or reconnecting, another.                                        *)
StopCleanup ==
  /\ receiver = "cleanup" /\ receiver' = "none"
  /\ cleanup
  /\ stale' = IF handling = "none" THEN stale ELSE handling
  /\ handling' = "none"
  /\ leaked' \in {leaked, FALSE}
  /\ UNCHANGED <<transport, leaving, commands, remote, network, changes>>

(* The buttons are there while isControlConnected. *)
sendCommand ==
  /\ shown /\ command = "none" /\ receiver \in {"init", "running", "failed"}
  /\ IF connected /\ peer
     THEN command' = "pending" /\ UNCHANGED answers
     ELSE command' = "done" /\ answers' = 1
  /\ UNCHANGED <<transport, receiver, leaving, leaked, object, handling, stale, shown,
                 attempts, remote, network, changes>>

-----------------------------------------------------------------------------
(* The coroutines *)

Bind ==
  /\ receiver = "init"
  /\ IF leaked
     THEN receiver' = "failed" /\ cleanup
     ELSE receiver' = "running" /\ UNCHANGED <<object, shown>>
  /\ UNCHANGED <<transport, leaving, leaked, handling, stale, commands, remote, network,
                 changes>>

BindStopped ==
  /\ leaving /\ leaving' = FALSE
  /\ IF receiver = "running"
     THEN shown' = FALSE /\ UNCHANGED leaked
     ELSE leaked' = TRUE /\ UNCHANGED shown
  /\ UNCHANGED <<transport, receiver, object, handling, stale, commands, remote, network,
                 changes>>

Running == receiver = "running"
Sends(m) == down' = down \cup {m}

(* announcementLoop, and the PeerInfo of the relay that ends it. *)
Announce ==
  /\ Running /\ transport = "udp" /\ ~known /\ ~ahead
  /\ known' = TRUE
  /\ UNCHANGED <<transport, receiver, leaving, leaked, connected, peer, ahead, handling, stale, shown,
                 commands, remote, network, changes>>

(* stateLoop and latencyLoop, through the channel that keeps the latest. *)
SendControl ==
  /\ Running /\ connected /\ peer
  /\ Sends("Control")
  /\ UNCHANGED <<transport, receiver, leaving, leaked, object, handling, stale, shown, commands,
                 remote, up, changes>>

Heartbeat ==
  /\ Running /\ transport = "udp" /\ peer /\ ~connected
  /\ Sends("Heartbeat")
  /\ UNCHANGED <<transport, receiver, leaving, leaked, object, handling, stale, shown,
                 commands, remote, up, changes>>

(* An attempt of a command, and after the last one the end of it. *)
Retry ==
  /\ Running /\ command = "pending"
  /\ IF attempts < MaxRetries
     THEN /\ attempts' = attempts + 1
          /\ IF peer THEN Sends("Command") ELSE UNCHANGED down
          /\ UNCHANGED <<command, answers>>
     ELSE /\ command' = "done" /\ answers' = answers + 1
          /\ UNCHANGED <<attempts, down>>
  /\ UNCHANGED <<transport, receiver, leaving, leaked, object, handling, stale, shown,
                 remote, up, changes>>

(* processPacket: messages of before are skipped, but for those whose      *)
(* order does not matter.                                                  *)
Receive(m) ==
  /\ Running /\ handling = "none" /\ m \in up
  /\ up' = up \ {m}
  /\ IF ahead /\ m # "CommandAck"
     THEN UNCHANGED <<handling, peer>>
     ELSE handling' = m /\ peer' = TRUE
  /\ UNCHANGED <<transport, receiver, leaving, leaked, connected, known, ahead, stale,
                 shown, commands, remote, down, changes>>

handleSyn_Once ==
  /\ handling = "Syn"
  /\ IF Running /\ ~connected THEN Sends("Ack") ELSE UNCHANGED down
  /\ connected' = TRUE /\ shown' = (shown \/ ~connected)
  /\ UNCHANGED <<command, answers>>

handleSyn ==
  /\ handling = "Syn"
  /\ IF Running THEN Sends("Ack") ELSE UNCHANGED down
  /\ connected' = TRUE /\ shown' = (shown \/ ~connected)
  /\ UNCHANGED <<command, answers>>

handleCommandAck ==
  /\ handling = "CommandAck"
  /\ IF command = "pending" THEN command' = "done" /\ answers' = answers + 1
     ELSE UNCHANGED <<command, answers>>
  /\ UNCHANGED <<connected, shown, down>>

HandleMessage ==
  /\ \/ handleSyn \/ handleCommandAck
     \/ handling = "Beat" /\ UNCHANGED <<connected, shown, command, answers, down>>
  /\ handling' = "none"
  /\ UNCHANGED <<transport, receiver, leaving, leaked, peer, known, ahead, stale, attempts, remote,
                 up, changes>>

(* What a stopped receiver handles reaches the screen. *)
HandleStale ==
  /\ stale # "none" /\ stale' = "none"
  /\ shown' = (shown \/ stale = "Syn")
  /\ UNCHANGED <<transport, receiver, leaving, leaked, object, handling, commands, remote,
                 network, changes>>

-----------------------------------------------------------------------------
(* The streamer and the network *)

StreamerSends ==
  /\ up' = up \cup {IF streamer = "waiting" THEN "Syn" ELSE "Beat"}
  /\ UNCHANGED <<transport, receiver, leaving, leaked, object, handling, stale, shown,
                 commands, remote, down, changes>>

StreamerReceives(m) ==
  /\ m \in down /\ down' = down \ {m}
  /\ heard' = TRUE
  /\ streamer' = IF m = "Ack" THEN "connected" ELSE streamer
  /\ up' = IF m = "Command" THEN up \cup {"CommandAck"} ELSE up
  /\ UNCHANGED <<transport, receiver, leaving, leaked, object, handling, stale, shown,
                 commands, changes>>

(* check_timeout *)
StreamerTimeout ==
  /\ streamer = "connected"
  /\ IF heard THEN heard' = FALSE /\ UNCHANGED streamer
     ELSE streamer' = "waiting" /\ UNCHANGED heard
  /\ UNCHANGED <<transport, receiver, leaving, leaked, object, handling, stale, shown,
                 commands, network, changes>>

StreamerRestart ==
  /\ changes < MaxChanges /\ changes' = changes + 1
  /\ streamer' = "waiting" /\ heard' = FALSE
  /\ up' = up \ {"Syn", "Beat"}
  /\ ahead' \in IF ClockSteps /\ peer THEN BOOLEAN ELSE {ahead}
  /\ UNCHANGED <<transport, receiver, leaving, leaked, connected, peer, known, handling, stale,
                 shown, commands, down>>

Lose ==
  /\ \/ \E m \in up : up' = up \ {m} /\ UNCHANGED down
     \/ \E m \in down : down' = down \ {m} /\ UNCHANGED up
  /\ UNCHANGED <<transport, receiver, leaving, leaked, object, handling, stale, shown,
                 commands, remote, changes>>

-----------------------------------------------------------------------------
Stopping == StopFail \/ StopClear \/ StopCleanup
Handling == HandleMessage \/ HandleStale

Next ==
  \/ Start \/ Stop \/ Stopping \/ sendCommand
  \/ Bind \/ BindStopped \/ Announce \/ SendControl \/ Heartbeat \/ Retry
  \/ (\E m \in Up : Receive(m)) \/ Handling
  \/ StreamerSends \/ (\E m \in Down : StreamerReceives(m)) \/ StreamerTimeout \/ StreamerRestart
  \/ Lose

Spec == Init /\ [][Next]_vars

(* Every coroutine goes on and the streamer keeps sending.  Of the         *)
(* messages of the handshake, some arrive when they are sent again and     *)
(* again.                                                                  *)
Fairness ==
  /\ WF_vars(Start) /\ WF_vars(Stopping) /\ WF_vars(Bind) /\ WF_vars(Retry)
  /\ WF_vars(Handling) /\ WF_vars(StreamerSends) /\ WF_vars(StreamerTimeout)
  /\ SF_vars(Receive("Syn")) /\ SF_vars(StreamerReceives("Ack"))
FairSpec == Spec /\ Fairness

-----------------------------------------------------------------------------
(* The callback of every command is called: with the acknowledgement,      *)
(* after the last attempt, or when the receiver is stopped.                *)
Answered == (command # "none") ~> (answers > 0)

(* A receiver that could bind its port comes to be connected, whatever the *)
(* network loses of the handshake, and the streamer to it, again after it  *)
(* has restarted or has missed the viewer for a while.  It does not after  *)
(* a change of the settings the streamer has not noticed (Patient), since  *)
(* heartbeats keep the streamer from sending another Syn, nor when the     *)
(* clock of the streamer is set back (ClockSteps).                         *)
Connects ==
  <>[](receiver # "failed") => <>[](connected /\ peer) /\ []<>(streamer = "connected")

(* A command is answered once.  An acknowledgement while the receiver is   *)
(* being stopped violates it.                                              *)
AnsweredOnce == answers <= 1

(* What is shown as connected is.  A message that a stopped receiver still *)
(* handles violates it.                                                    *)
ShownIsConnected == shown => connected
=============================================================================
