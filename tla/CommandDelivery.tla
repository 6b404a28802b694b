---------------------------- MODULE CommandDelivery ----------------------------
(***************************************************************************)
(* A command of the viewer on its way to the streamer and back: the retry  *)
(* tasks of v3xctrl_control/Server.py, the deduplication of                *)
(* apps/streamer.py and the acknowledgement of Client.py.                  *)
(*                                                                         *)
(* pending_lock makes each of its critical sections one action; what runs  *)
(* between two of them is free to interleave.  The callback of a command   *)
(* only puts its result on the callback queue of the NetworkCoordinator,   *)
(* so answers[c] are the results in the order in which they were put.      *)
(***************************************************************************)
EXTENDS Naturals, Sequences, FiniteSets

CONSTANTS
  Command,      \* the commands the user sends, each with its own id
  Unsendable,   \* those whose parameters to_bytes cannot pack: send raises
  MaxRetries,   \* max_retries of send_command
  MaxWorkers    \* Server.MAX_WORKERS, the size of the thread pool

ASSUME CommandAssumption ==
  /\ Unsendable \subseteq Command
  /\ MaxRetries \in Nat \ {0}
  /\ MaxWorkers \in Nat \ {0}

VARIABLES
  pending,     \* pending_commands
  task,        \* where send_command and the retry_task of a command are
  attempts,    \* how often retry_task has sent the command
  answers,     \* the results its callback was called with
  server,      \* how far stop has come
  wire,        \* the datagrams in flight, in either direction
  received,    \* received_command_ids of the streamer
  executed     \* how often the streamer has executed a command

viewer == <<pending, task, attempts, answers, server>>
streamer == <<received, executed>>
vars == <<pending, task, attempts, answers, server, wire, received, executed>>

Result == {"acked", "failed"}     \* callback(True), callback(False)

Message == [type : {"command", "ack"}, id : Command]
CommandMessage(c) == [type |-> "command", id |-> c]
CommandAck(c) == [type |-> "ack", id |-> c]

(* A task on a thread of the pool; it keeps it while it sleeps. *)
Active == {"checking", "sending", "expired", "failed"}

TypeOK ==
  /\ pending \subseteq Command
  /\ task \in [Command -> {"none", "registered", "queued", "done"} \cup Active]
  /\ attempts \in [Command -> 0 .. MaxRetries]
  /\ answers \in [Command -> Seq(Result)]
  /\ server \in {"running", "stopping", "stopped"}
  /\ wire \subseteq Message
  /\ received \subseteq Command
  /\ executed \in [Command -> Nat]

Init ==
  /\ pending = {}
  /\ task = [c \in Command |-> "none"]
  /\ attempts = [c \in Command |-> 0]
  /\ answers = [c \in Command |-> << >>]
  /\ server = "running"
  /\ wire = {}
  /\ received = {}
  /\ executed = [c \in Command |-> 0]

-----------------------------------------------------------------------------
(* The viewer *)

Goto(c, place) == task' = [task EXCEPT ![c] = place]

(* Forget a command and tell its caller; the caller of a command that is   *)
(* not pending any more has been told.                                     *)
Settle(c, result) ==
  /\ pending' = pending \ {c}
  /\ answers' = IF c \in pending THEN [answers EXCEPT ![c] = Append(@, result)] ELSE answers

(* Forget a command and tell its caller, whether or not it was pending. *)
GiveUp(c) ==
  /\ pending' = pending \ {c}
  /\ answers' = [answers EXCEPT ![c] = Append(@, "failed")]

SendCommand(c) ==
  /\ task[c] = "none"
  /\ pending' = pending \cup {c}
  /\ Goto(c, "registered")
  /\ UNCHANGED <<attempts, answers, server, wire, streamer>>

(* submit raises once the pool is shut down; the command is then popped    *)
(* and its callback called after that.                                     *)
Submit(c) ==
  /\ task[c] = "registered"
  /\ \/ /\ server # "stopped"
        /\ Goto(c, "queued")
        /\ UNCHANGED <<pending, answers>>
     \/ /\ server = "stopped"
        /\ GiveUp(c)
        /\ Goto(c, "done")
  /\ UNCHANGED <<attempts, server, wire, streamer>>

Start(c) ==
  /\ task[c] = "queued"
  /\ Cardinality({d \in Command : task[d] \in Active}) < MaxWorkers
  /\ Goto(c, "checking")
  /\ UNCHANGED <<pending, attempts, answers, server, wire, streamer>>

Check(c) ==
  /\ task[c] = "checking"
  /\ Goto(c, IF c \in pending THEN "sending" ELSE "done")
  /\ UNCHANGED <<pending, attempts, answers, server, wire, streamer>>

(* Server.send, and the sleep before the next attempt.  The transmitter    *)
(* drops what is older than its ttl: one more way to Lose it.              *)
Send(c) ==
  /\ task[c] = "sending"
  /\ c \notin Unsendable
  /\ wire' = wire \cup {CommandMessage(c)}
  /\ attempts' = [attempts EXCEPT ![c] = @ + 1]
  /\ Goto(c, IF attempts[c] + 1 < MaxRetries THEN "checking" ELSE "expired")
  /\ UNCHANGED <<pending, answers, server, streamer>>

SendRaises(c) ==
  /\ task[c] = "sending"
  /\ c \in Unsendable
  /\ Goto(c, "failed")
  /\ UNCHANGED <<pending, attempts, answers, server, wire, streamer>>

Expire_Unchecked(c) ==
  /\ task[c] = "expired"
  /\ GiveUp(c)
  /\ Goto(c, "done")
  /\ UNCHANGED <<attempts, server, wire, streamer>>

Expire(c) ==
  /\ task[c] = "expired"
  /\ Settle(c, "failed")
  /\ Goto(c, "done")
  /\ UNCHANGED <<attempts, server, wire, streamer>>

Fail(c) ==
  /\ task[c] = "failed"
  /\ GiveUp(c)
  /\ Goto(c, "done")
  /\ UNCHANGED <<attempts, server, wire, streamer>>

(* command_ack_handler; a datagram may come more than once. *)
Acknowledge(c) ==
  /\ server # "stopped"
  /\ CommandAck(c) \in wire
  /\ Settle(c, "acked")
  /\ UNCHANGED <<task, attempts, server, wire, streamer>>

StopNotify_Silent ==
  /\ server = "running"
  /\ pending' = {}
  /\ server' = "stopping"
  /\ UNCHANGED <<task, attempts, answers, wire, streamer>>

StopNotify ==
  /\ server = "running"
  /\ answers' = [c \in Command |-> IF c \in pending THEN Append(answers[c], "failed")
                                                    ELSE answers[c]]
  /\ pending' = {}
  /\ server' = "stopping"
  /\ UNCHANGED <<task, attempts, wire, streamer>>

(* The threads have been joined, and thread_pool.shutdown(wait=False)      *)
(* leaves the tasks already submitted to run.                              *)
StopShutdown ==
  /\ server = "stopping"
  /\ server' = "stopped"
  /\ UNCHANGED <<pending, task, attempts, answers, wire, streamer>>

-----------------------------------------------------------------------------
(* The streamer: all_handler calls the command_handler of the application, *)
(* which may raise while it executes a new command, and only then does     *)
(* Client.command_handler acknowledge.                                     *)

Receive_AckFirst(c) ==
  /\ CommandMessage(c) \in wire
  /\ wire' = wire \cup {CommandAck(c)}
  /\ \/ /\ received' = received \cup {c}
        /\ executed' = [executed EXCEPT ![c] = IF c \in received THEN @ ELSE @ + 1]
     \/ UNCHANGED streamer
  /\ UNCHANGED viewer

Receive_MarkedLater(c) ==
  /\ CommandMessage(c) \in wire
  /\ executed' = [executed EXCEPT ![c] = IF c \in received THEN @ ELSE @ + 1]
  /\ \/ received' = received \cup {c} /\ wire' = wire \cup {CommandAck(c)}
     \/ c \notin received /\ UNCHANGED <<received, wire>>
  /\ UNCHANGED viewer

Receive(c) ==
  /\ CommandMessage(c) \in wire
  /\ received' = received \cup {c}
  /\ executed' = [executed EXCEPT ![c] = IF c \in received THEN @ ELSE @ + 1]
  /\ \/ wire' = wire \cup {CommandAck(c)}
     \/ c \notin received /\ UNCHANGED wire
  /\ UNCHANGED viewer

Lose(m) ==
  /\ m \in wire
  /\ wire' = wire \ {m}
  /\ UNCHANGED <<viewer, streamer>>

-----------------------------------------------------------------------------
Task(c) ==
  Submit(c) \/ Start(c) \/ Check(c) \/ Send(c) \/ SendRaises(c) \/ Expire(c) \/ Fail(c)

Next ==
  \/ \E c \in Command : SendCommand(c) \/ Task(c) \/ Acknowledge(c) \/ Receive(c)
  \/ StopNotify \/ StopShutdown
  \/ \E m \in Message : Lose(m)

Spec == Init /\ [][Next]_vars

(* The threads of the viewer run; the network and the user owe nothing.  A *)
(* free thread of the pool takes the oldest task of its queue, so that no  *)
(* task is passed over for ever.                                           *)
FairSpec ==
  /\ Spec
  /\ \A c \in Command : WF_vars(Task(c))

-----------------------------------------------------------------------------
(* Properties *)

(* A retry that times out races the late acknowledgement, and both race    *)
(* stop: while the server runs no caller is told twice (retry_task), and   *)
(* never is one told that its command both succeeded and failed.  Two      *)
(* failures are possible when stop comes between registering a command and *)
(* submitting it, or between a check and a send that raises.               *)
AnsweredConsistently ==
  \A c \in Command :
    \/ Len(answers[c]) <= 1
    \/ answers[c] = <<"failed", "failed">> /\ server # "running"

(* A caller that is told of success has its command on the streamer        *)
(* (command_ack_handler, Client.command_handler).                          *)
SuccessMeansReceived ==
  \A c \in Command : \A n \in DOMAIN answers[c] : answers[c][n] = "acked" => c \in received

(* Retries, duplicates and acknowledgements that are lost never make the   *)
(* streamer execute a command twice, not even one that raised (streamer.py *)
(* command_handler).                                                       *)
ExecutedOnce == \A c \in Command : executed[c] <= 1

(* Every caller is told in the end, whatever the network does and whenever *)
(* the server is stopped (send_command, retry_task, stop).                 *)
Answered == \A c \in Command : task[c] # "none" ~> answers[c] # << >>

=============================================================================
