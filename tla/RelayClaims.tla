------------------------------ MODULE RelayClaims ------------------------------
(***************************************************************************)
(* What the documentation and the comments of the relay say and the code   *)
(* does not keep: TLC refutes each of these on a small instance.           *)
(***************************************************************************)
EXTENDS RelayForwarding

(* A spectator whose two TCP connections are up receives the stream once   *)
(* the session is ready (README.md: "Spectators can join before the        *)
(* session is ready and will start receiving data once both streamer and   *)
(* viewer connect"); it announces itself once per connection.              *)
TcpSpectatorsServed ==
  \A s \in DOMAIN sessions, i \in Ip :
    LET connected == {m \in admitted :
          /\ m.role = "spectator" /\ m.sid = s /\ IpOf[m.addr] = i
          /\ ActiveTcp(m.addr)
          /\ \A h \in handshakes : h.addr # m.addr}
        reached(m) == LET streamer == sessions[s].roles["streamer"][m.port]
                      IN streamer \in DOMAIN mappings /\ m.addr \in mappings[streamer].targets
    IN IsReady(sessions[s]) /\ {m.port : m \in connected} = PortType
         => \A m \in connected : reached(m)

(* A packet for a TCP peer is never sent as a datagram (README.md, Packet  *)
(* forwarding: "Dead TCP targets: Silently skipped (no UDP fallback)").    *)
NoUdpFallback == UdpDestinations \cap TcpAddr = {}

(* A mapping belongs to a peer of some session: "data structures that need *)
(* to be kept in sync with each other" (PacketRelay.py:34).                *)
MappingsBelongToSessions ==
  \A a \in DOMAIN mappings : \E s \in DOMAIN sessions : a \in PeerAddresses(sessions[s])

(* A spectator sends nothing back: none of its addresses is the source of  *)
(* a mapping (README.md, Spectator mode).                                  *)
SpectatorsOnlyReceive ==
  \A s \in DOMAIN sessions, i \in Ip :
    Addresses(sessions[s].spectators[i].ports) \cap DOMAIN mappings = {}

(* A mapping in use is never removed by the cleanup (README.md, Session    *)
(* cleanup: "Expired roles where no port has seen activity").              *)
ActiveMappingKept ==
  [][CleanupSessions => \A a \in DOMAIN mappings \ DOMAIN mappings' :
                          mappings[a].age >= Timeout]_vars

(* "Preserve timestamps for unchanged mappings so re-announcements don't   *)
(* reset the timeout for inactive peers" (PacketRelay.py:412): a peer that *)
(* announces what it already announced leaves every age alone.             *)
ReannouncementKeepsTimeout ==
  [][\A m \in Announcement :
       Announce(m) /\ m.role \in PeerRole /\ m.sid \in DOMAIN sessions
         /\ sessions'[m.sid].roles = sessions[m.sid].roles
       => \A a \in DOMAIN mappings \cap DOMAIN mappings' :
            mappings'[a].age >= mappings[a].age]_vars

(* A spectator that sends heartbeats is not taken for an inactive one: its  *)
(* addresses are in the index (README.md, Session cleanup: "Inactive        *)
(* spectators with no heartbeat for 30 seconds").                           *)
HeartbeatsCount ==
  \A s \in DOMAIN sessions, i \in Ip :
    Addresses(sessions[s].spectators[i].ports) \subseteq DOMAIN index

=============================================================================
