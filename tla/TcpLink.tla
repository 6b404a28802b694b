-------------------------------- MODULE TcpLink --------------------------------
(***************************************************************************)
(* UDP over TCP in direct mode: the TcpTunnel of the streamer and one      *)
(* channel of the TcpServer of the viewer, both bidirectional, with the    *)
(* TCP connections between them and the UDP sockets towards the components *)
(* they stand in for.                                                      *)
(*                                                                         *)
(* Each side has a main thread and one more thread for each connection,    *)
(* which carries the other direction.  Connections are numbered as the     *)
(* tunnel makes them, messages as the components send them.                *)
(***************************************************************************)
EXTENDS Naturals, Sequences

CONSTANTS
  MaxConns,     \* bound: connections the tunnel makes
  MaxUp,        \* bound: messages from the streamer's component
  MaxDown,      \* bound: messages from the viewer's component
  MaxFaults,    \* bound: cuts, and sends that stall on a connection that works
  Backlog       \* connections that wait to be accepted

Conn == 1 .. MaxConns
Partial == 0    \* a message of which only a part was sent

VARIABLES
  tunnel,     \* where the main thread of the tunnel is
  conn,       \* connections it has made; it is on the last one
  reader,     \* where the inbound thread of each connection is
  hand,       \* the message it is about to pass on
  stopped,    \* who has been told to stop: "tunnel", "server"
  server,     \* where the thread of the channel is
  serving,    \* the connection it is on
  backlog,    \* connections that wait for it
  writer,     \* where the outbound thread of that connection is
  up, down,   \* what is under way on each connection
  left,       \* connections the tunnel has closed
  hungUp,     \* those that the server has closed
  cut,        \* those that no packet gets through any more
  reset,      \* those known to be broken at both ends
  faults,     \* cuts and stalls so far
  upSent,     \* messages of the streamer's component so far
  downSent,   \* messages of the viewer's component so far
  replyTo,    \* where the viewer's component heard the last message from
  heard,      \* the last message it heard
  told,       \* the last message the streamer's component was told
  late        \* history: the inbound thread of a connection has outlived it

tunnelVars == <<tunnel, conn>>
readerVars == <<reader, hand, told>>
serverVars == <<server, serving, backlog>>
viewerVars == <<downSent, replyTo, heard>>
network == <<up, down, left, hungUp, cut, reset, faults>>
vars == <<tunnelVars, readerVars, serverVars, writer, viewerVars, network, stopped, upSent, late>>

(* The types of the variables, and: a channel is on a connection, and has  *)
(* an outbound thread, exactly while it serves one.                        *)
TypeOK ==
  /\ tunnel \in {"connect", "bridge", "join", "done"}
  /\ conn \in 0 .. MaxConns
  /\ upSent \in 0 .. MaxUp
  /\ reader \in [Conn -> {"none", "read", "send", "stuck", "ended"}]
  /\ hand \in [Conn -> 0 .. MaxDown] /\ told \in 0 .. MaxDown
  /\ server \in {"accept", "serve", "join", "done"}
  /\ serving \in 0 .. conn
  /\ backlog \in Seq(Conn) /\ Len(backlog) <= Backlog
  /\ writer \in {"none", "write", "ended"} /\ downSent \in 0 .. MaxDown
  /\ replyTo \in 0 .. conn /\ heard \in 0 .. MaxUp
  /\ up \in [Conn -> Seq(0 .. MaxUp)] /\ down \in [Conn -> Seq(0 .. MaxDown)]
  /\ left \subseteq 1 .. conn /\ hungUp \subseteq 1 .. conn
  /\ cut \subseteq 1 .. conn /\ reset \subseteq 1 .. conn
  /\ stopped \subseteq {"tunnel", "server"}
  /\ late \in BOOLEAN /\ faults \in 0 .. MaxFaults
  /\ (serving # 0) = (server \in {"serve", "join"})
  /\ (serving # 0) = (writer # "none")

Init ==
  /\ tunnel = "connect" /\ conn = 0
  /\ reader = [c \in Conn |-> "none"] /\ hand = [c \in Conn |-> 0] /\ told = 0
  /\ server = "accept" /\ serving = 0 /\ backlog = <<>>
  /\ writer = "none" /\ downSent = 0 /\ replyTo = 0 /\ heard = 0
  /\ up = [c \in Conn |-> <<>>] /\ down = [c \in Conn |-> <<>>]
  /\ left = {} /\ hungUp = {} /\ cut = {} /\ reset = {} /\ faults = 0
  /\ stopped = {} /\ upSent = 0 /\ late = FALSE

-----------------------------------------------------------------------------
(* TCP.  What is sent to an end that has closed comes back as a reset, and *)
(* what is sent into a cut is lost.  A socket that is closed while a       *)
(* thread is in recv stays open until that returns.                        *)

Sent(c, way, closed, m) ==
  /\ c \notin reset
  /\ way' = IF c \in closed \cup cut THEN way ELSE [way EXCEPT ![c] = Append(@, m)]
  /\ reset' = IF c \in closed \ cut THEN reset \cup {c} ELSE reset
  /\ UNCHANGED faults

(* A send fails on a broken connection, and on one that works when it      *)
(* stalls for 200 ms, with a part of the message sent or none of it.       *)
SendFails(c, way, closed) ==
  /\ \/ c \in reset \cup closed \cup cut /\ UNCHANGED <<way, faults>>
     \/ /\ c \notin reset \cup closed \cup cut
        /\ faults < MaxFaults /\ faults' = faults + 1
        /\ way' \in {way, [way EXCEPT ![c] = Append(@, Partial)]}
  /\ UNCHANGED reset

EndOfUp(c) == c \in left \ cut /\ reader[c] # "stuck" /\ up[c] \in {<<>>, <<Partial>>}
EndOfDown(c) == c \in hungUp \ cut /\ down[c] = <<>>

Cut(c) ==
  /\ c = conn /\ c \notin cut
  /\ faults < MaxFaults /\ faults' = faults + 1
  /\ cut' = cut \cup {c}
  /\ UNCHANGED <<tunnelVars, readerVars, serverVars, writer, viewerVars, up, down, left, hungUp,
                 reset, stopped, upSent, late>>

Keepalive(c) ==
  /\ c \in cut \ reset
  /\ reset' = reset \cup {c}
  /\ UNCHANGED <<tunnelVars, readerVars, serverVars, writer, viewerVars, up, down, left, hungUp,
                 cut, faults, stopped, upSent, late>>

-----------------------------------------------------------------------------
(* The applications of both sides *)

Stop(who) ==
  /\ who \notin stopped
  /\ stopped' = stopped \cup {who}
  /\ UNCHANGED <<tunnelVars, readerVars, serverVars, writer, viewerVars, network, upSent, late>>

-----------------------------------------------------------------------------
(* TcpTunnel, main thread: _run, _connect_with_retry and _bridge *)

Connect ==
  /\ tunnel = "connect" /\ "tunnel" \notin stopped
  /\ conn < MaxConns /\ server # "done" /\ Len(backlog) < Backlog
  /\ conn' = conn + 1
  /\ backlog' = Append(backlog, conn')
  /\ reader' = [reader EXCEPT ![conn'] = "read"]
  /\ tunnel' = "bridge"
  /\ UNCHANGED <<hand, told, server, serving, writer, viewerVars, network, stopped,
                 upSent, late>>

Leave_Open ==
  /\ tunnel' = "join"
  /\ UNCHANGED left

Leave ==
  /\ tunnel' = "join"
  /\ left' = left \cup {conn}

(* Without the inbound thread noticing, only a send that fails ends the    *)
(* bridge.  A message has waited in the UDP socket until now, and counts   *)
(* when it was sent.                                                       *)
Forward ==
  /\ tunnel = "bridge"
  /\ \/ /\ upSent < MaxUp
        /\ upSent' = upSent + 1
        /\ Sent(conn, up, hungUp, upSent')
        /\ UNCHANGED <<tunnel, left>>
     \/ /\ SendFails(conn, up, hungUp)
        /\ Leave
        /\ UNCHANGED upSent
  /\ UNCHANGED <<conn, readerVars, serverVars, writer, viewerVars, down, hungUp, cut, stopped, late>>

StopBridge ==
  /\ tunnel = "bridge" /\ "tunnel" \in stopped
  /\ Leave
  /\ UNCHANGED <<conn, readerVars, serverVars, writer, viewerVars, up, down, hungUp,
                 cut, reset, faults, stopped, upSent, late>>

JoinReader_NoWait ==
  /\ tunnel = "join"
  /\ tunnel' = IF "tunnel" \in stopped THEN "done" ELSE "connect"
  /\ UNCHANGED <<conn, readerVars, serverVars, writer, viewerVars, network, stopped,
                 upSent, late>>

(* For two seconds. *)
JoinReader ==
  /\ tunnel = "join"
  /\ late' = (late \/ reader[conn] # "ended")
  /\ tunnel' = IF "tunnel" \in stopped THEN "done" ELSE "connect"
  /\ UNCHANGED <<conn, readerVars, serverVars, writer, viewerVars, network, stopped,
                 upSent>>

StopConnecting ==
  /\ tunnel = "connect" /\ "tunnel" \in stopped
  /\ tunnel' = "done"
  /\ UNCHANGED <<conn, readerVars, serverVars, writer, viewerVars, network, stopped,
                 upSent, late>>

Tunnel == Connect \/ Forward \/ StopBridge \/ JoinReader \/ StopConnecting

-----------------------------------------------------------------------------
(* TcpTunnel, _inbound_loop *)

(* recv_message waits for the rest of a message. *)
Read(c) ==
  /\ reader[c] = "read" /\ c \notin left /\ down[c] # <<>>
  /\ down' = [down EXCEPT ![c] = Tail(@)]
  /\ hand' = [hand EXCEPT ![c] = Head(down[c])]
  /\ reader' = [reader EXCEPT ![c] = IF Head(down[c]) = Partial THEN "stuck" ELSE "send"]
  /\ UNCHANGED <<tunnelVars, told, serverVars, writer, viewerVars, up, left, hungUp, cut, reset, faults,
                 stopped, upSent, late>>

Deliver(c) ==
  /\ reader[c] = "send"
  /\ \/ /\ tunnel # "done"
        /\ told' = hand[c]
        /\ reader' = [reader EXCEPT ![c] = "read"]
     \/ /\ tunnel = "done"
        /\ reader' = [reader EXCEPT ![c] = "ended"]
        /\ UNCHANGED told
  /\ UNCHANGED <<tunnelVars, hand, serverVars, writer, viewerVars, network, stopped, upSent, late>>

EndReader(c) ==
  /\ \/ reader[c] = "read" /\ (c \in left \cup reset \/ EndOfDown(c) \/ "tunnel" \in stopped)
     \/ reader[c] = "stuck" /\ (c \in reset \/ EndOfDown(c))
  /\ reader' = [reader EXCEPT ![c] = "ended"]
  /\ UNCHANGED <<tunnelVars, hand, told, serverVars, writer, viewerVars, network, stopped, upSent,
                 late>>

Reader(c) == Read(c) \/ Deliver(c) \/ EndReader(c)

-----------------------------------------------------------------------------
(* TcpServer: _run_channel and _handle_connection *)

Accept ==
  /\ server = "accept" /\ "server" \notin stopped /\ backlog # <<>>
  /\ serving' = Head(backlog) /\ backlog' = Tail(backlog)
  /\ writer' = "write"
  /\ server' = "serve"
  /\ UNCHANGED <<tunnelVars, readerVars, viewerVars, network, stopped, upSent, late>>

Take ==
  /\ server = "serve" /\ up[serving] \notin {<<>>, <<Partial>>}
  /\ heard' = Head(up[serving])
  /\ replyTo' = serving
  /\ up' = [up EXCEPT ![serving] = Tail(@)]
  /\ UNCHANGED <<tunnelVars, readerVars, serverVars, writer, downSent, down, left, hungUp,
                 cut, reset, faults, stopped, upSent, late>>

(* A stop is not seen while the rest of a message is awaited. *)
HangUp ==
  /\ server = "serve"
  /\ \/ EndOfUp(serving) \/ serving \in reset
     \/ "server" \in stopped /\ up[serving] # <<Partial>>
  /\ hungUp' = hungUp \cup {serving}
  /\ server' = "join"
  /\ UNCHANGED <<tunnelVars, readerVars, serving, backlog, writer, viewerVars, up, down, left, cut,
                 reset, faults, stopped, upSent, late>>

(* The outbound thread is joined for two seconds; the UDP socket is closed *)
(* after that, which ends it.                                              *)
JoinWriter ==
  /\ server = "join"
  /\ writer' = "none"
  /\ serving' = 0
  /\ server' = "accept"
  /\ UNCHANGED <<tunnelVars, readerVars, backlog, viewerVars, network, stopped, upSent, late>>

StopAccepting ==
  /\ server = "accept" /\ "server" \in stopped
  /\ server' = "done"
  /\ reset' = reset \cup {backlog[i] : i \in DOMAIN backlog}
  /\ backlog' = <<>>
  /\ UNCHANGED <<tunnelVars, readerVars, serving, writer, viewerVars, up, down, left, hungUp, cut, faults,
                 stopped, upSent, late>>

Server == Accept \/ Take \/ HangUp \/ JoinWriter \/ StopAccepting

(* _outbound_loop.  A reply goes to the UDP socket the component heard the *)
(* last message from, and is lost when that is closed; it has waited there *)
(* until now, and counts when it was sent.  A send that fails ends this    *)
(* thread and nothing else.                                                *)
Write ==
  /\ writer = "write" /\ replyTo = serving
  /\ \/ /\ downSent < MaxDown /\ serving \notin hungUp
        /\ downSent' = downSent + 1
        /\ Sent(serving, down, left, downSent')
        /\ UNCHANGED writer
     \/ /\ SendFails(serving, down, left \cup hungUp)
        /\ writer' = "ended"
        /\ UNCHANGED downSent
  /\ UNCHANGED <<tunnelVars, readerVars, serverVars, replyTo, heard, up, left, hungUp, cut, stopped,
                 upSent, late>>

EndWriter ==
  /\ writer = "write" /\ "server" \in stopped
  /\ writer' = "ended"
  /\ UNCHANGED <<tunnelVars, readerVars, serverVars, viewerVars, network, stopped, upSent, late>>

-----------------------------------------------------------------------------
Next ==
  \/ \E who \in {"tunnel", "server"} : Stop(who)
  \/ Tunnel \/ Server \/ Write \/ EndWriter
  \/ \E c \in Conn : Reader(c) \/ Cut(c) \/ Keepalive(c)

Spec == Init /\ [][Next]_vars

(* All threads run, and a cut does not stay unnoticed.  Nobody has to send. *)
FairSpec ==
  /\ Spec
  /\ WF_vars(Connect \/ StopBridge \/ JoinReader \/ StopConnecting) /\ WF_vars(Server)
  /\ \A c \in Conn : WF_vars(Reader(c)) /\ WF_vars(Keepalive(c))

-----------------------------------------------------------------------------
(* Properties *)

(* Over any number of reconnections the viewer's component hears messages  *)
(* in the order they were sent, and so does the streamer's, unless an      *)
(* inbound thread outlived the two seconds its bridge waits for it: one    *)
(* connection is served to its end before the next is accepted, and one    *)
(* bridge has ended before the next connection is made.  Each direction    *)
(* implements the link a component is promised.                            *)
UpLink == INSTANCE OrderedLink WITH sent <- upSent, heard <- heard, disturbed <- FALSE
DownLink == INSTANCE OrderedLink WITH sent <- downSent, heard <- told, disturbed <- late
InOrder == UpLink!Spec /\ DownLink!Spec

(* Unless one outlived that wait, the only inbound thread of a tunnel is   *)
(* the one of its present connection, and none is left when it has ended.  *)
OneReader ==
  ~late => \A c \in Conn : reader[c] \in {"read", "send", "stuck"} => c = conn /\ tunnel # "done"

Waiting(c) == \E i \in DOMAIN backlog : backlog[i] = c

(* A thread that awaits the rest of a message keeps a socket open that its *)
(* bridge has closed: the other end does not learn of it.                  *)
Stuck == \E c \in Conn : reader[c] = "stuck"

(* A channel serves one connection at a time, and a tunnel that has lost   *)
(* one makes the next at once.  That one does not wait for ever: the end   *)
(* of the old one is noticed, be it closed, reset or cut off, unless a     *)
(* thread is stuck in it.                                                  *)
Accepted == \A c \in Conn : Waiting(c) ~> ~Waiting(c) \/ Stuck

(* stop() ends the main thread of the tunnel and that of the channel,      *)
(* whatever they were doing.                                               *)
ShutsDown ==
  /\ "tunnel" \in stopped ~> tunnel = "done"
  /\ "server" \in stopped ~> server = "done" \/ Stuck

(* _bridge: "in unidirectional mode, also watch tcp_sock for disconnect    *)
(* detection (in bidirectional mode, the inbound thread handles that)":    *)
(* the end of the inbound thread ends the bridge, which reconnects.        *)
EndNoticed == tunnel = "bridge" /\ reader[conn] = "ended" ~> tunnel # "bridge"

=============================================================================
