-------------------------------- MODULE MCControl --------------------------------
(* What the viewer and the streamer tell each other: commands with their   *)
(* answers, and the state of the connection.  Commands are sent whatever   *)
(* that state is, and do not change it, so that each has a specification   *)
(* and a run of its own, in which the other is at rest.                    *)
EXTENDS CommandDelivery

CONSTANTS Worker, ClientTimeout, ServerTimeout, Prompt   \* ControlChannel

ASSUME ChannelAssumption ==
  /\ Worker # {} /\ Prompt \in BOOLEAN
  /\ ClientTimeout \in Nat /\ ServerTimeout \in Nat /\ ClientTimeout < ServerTimeout

VARIABLES client, clientAge, step, worker, current, pwm, side, serverAge, known, air, link

channelVars == <<client, clientAge, step, worker, current, pwm, side, serverAge, known, air, link>>
controlVars == <<vars, channelVars>>

MCUnsendable == {"odd"}

(* Its server and its wire go by other names here. *)
Channel == INSTANCE ControlChannel WITH server <- side, wire <- air

ControlInit == Init /\ Channel!Init

CommandSpec == ControlInit /\ [][Next /\ UNCHANGED channelVars]_controlVars
ChannelSpec == ControlInit /\ [][Channel!Next /\ UNCHANGED vars]_controlVars

(* The fairness is that of each component. *)
FairCommandSpec == CommandSpec /\ \A c \in Command : WF_vars(Task(c))
FairChannelSpec == ChannelSpec /\ Channel!Fairness

-----------------------------------------------------------------------------
(* AnsweredConsistently, SuccessMeansReceived, ExecutedOnce and Answered   *)
(* are those of CommandDelivery.                                           *)

(* The client goes through its states in order: that of ControlChannel,    *)
(* about run and ack_handler of Client.py.                                 *)
Sequential == Channel!Sequential

(* The client connects again, and notices when it is cut off: those of     *)
(* ControlChannel, about run and check_timeout of Client.py.               *)
ClientRecovers == Channel!ClientRecovers
CutNoticed == Channel!CutNoticed
=============================================================================
