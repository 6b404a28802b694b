-------------------------------- MODULE MCLinks --------------------------------
(* The two transports between streamer and viewer, of which a connection   *)
(* uses one: datagrams, or a tunnel over TCP.  Every behaviour of one is   *)
(* checked beside the initial state of the other.                          *)
EXTENDS UdpLink

CONSTANTS MaxConns, MaxUp, MaxDown, MaxFaults, Backlog

ASSUME TcpLinkAssumption == {MaxConns, MaxUp, MaxDown, MaxFaults, Backlog} \subseteq Nat

VARIABLES
  transport,  \* which of them runs: "udp" or "tcp"
  tunnel, conn, reader, hand, stopped, server, serving, backlog, writer, up, down, left, hungUp,
  cut, reset, faults, upSent, downSent, replyTo, heard, told, late

tcpVars == <<tunnel, conn, reader, hand, stopped, server, serving, backlog, writer, up, down, left,
             hungUp, cut, reset, faults, upSent, downSent, replyTo, heard, told, late>>
linkVars == <<transport, vars, tcpVars>>

Tcp == INSTANCE TcpLink

LinkInit == transport \in {"udp", "tcp"} /\ Init /\ Tcp!Init

LinkNext ==
  /\ UNCHANGED transport
  /\ \/ transport = "udp" /\ Next /\ UNCHANGED tcpVars
     \/ transport = "tcp" /\ Tcp!Next /\ UNCHANGED vars

(* The fairness of each transport, for as long as it is the one in use. *)
UdpFairness == WF_vars(transport = "udp" /\ Process)
TcpFairness ==
  /\ WF_tcpVars(transport = "tcp" /\ (Tcp!Connect \/ Tcp!StopBridge \/ Tcp!JoinReader
                                        \/ Tcp!StopConnecting))
  /\ WF_tcpVars(transport = "tcp" /\ Tcp!Server)
  /\ \A c \in 1 .. MaxConns : /\ WF_tcpVars(transport = "tcp" /\ Tcp!Reader(c))
                              /\ WF_tcpVars(transport = "tcp" /\ Tcp!Keepalive(c))

LinkSpec == LinkInit /\ [][LinkNext]_linkVars /\ UdpFairness /\ TcpFairness

-----------------------------------------------------------------------------
(* Controls are handled in order, and the buffer holds the newest:         *)
(* OrderedControls and FreshControls of UdpLink, about UDPTransmitter.py   *)
(* and UDPReceiver.py.                                                     *)
ControlsInOrder == []FreshControls /\ OrderedControls

(* Messages are heard in the order they were sent: InOrder of TcpLink,     *)
(* about _bridge of TcpTunnel.py and _run_channel of TcpServer.py.         *)
InOrder == Tcp!InOrder

(* Every connection is served, and both ends stop when they are told to:   *)
(* Accepted and ShutsDown of TcpLink, about the same.                      *)
ServedAndStopped == transport = "tcp" => Tcp!Accepted /\ Tcp!ShutsDown
=============================================================================
