---------------------------- MODULE RelayForwarding ----------------------------
(***************************************************************************)
(* PacketRelay with the packets it relays: forward_packet looks the source *)
(* up under mapping_lock and sends after releasing it, so that the targets *)
(* may be out of date by then.  The history variable admitted collects the *)
(* announcements the relay has accepted, to say who may reach whom.        *)
(***************************************************************************)
EXTENDS PacketRelay

VARIABLES
  sending,     \* the packet the UDP thread is forwarding
  admitted     \* history: the announcements accepted so far

fvars == <<vars, sending, admitted>>

Idle == [from |-> None, targets |-> {}]

FTypeOK ==
  /\ TypeOK
  /\ sending \in [from : MaybeAddr, targets : SUBSET Addr]
  /\ admitted \subseteq Announcement

FInit == Init /\ sending = Idle /\ admitted = {}

Admit(m) == admitted' = IF store[m.sid] = "valid" THEN admitted \cup {m} ELSE admitted

FAnnounce(m) == Announce(m) /\ Admit(m) /\ UNCHANGED sending

FRegisterTcpPeer(m) == RegisterTcpPeer(m) /\ Admit(m) /\ UNCHANGED sending

(* The lookup, and the targets.  They are read after the lock is released; *)
(* as a writer replaces the set and never changes it in place, what is     *)
(* read is the set before or after any writer.                             *)
FForward(a) ==
  /\ sending = Idle
  /\ Forward(a)
  /\ sending' = [from |-> a, targets |-> mappings[a].targets]
  /\ UNCHANGED admitted

(* The addresses a datagram goes to; live TCP targets are handed to the    *)
(* tcp_executor and dead ones are skipped.                                 *)
UdpDestinations == {t \in sending.targets : t \notin DOMAIN tcp_targets}

Send ==
  /\ sending # Idle
  /\ sending' = Idle
  /\ UNCHANGED <<vars, admitted>>

Other ==
  /\ \/ \E m \in Announcement : Connect(m)
     \/ \E a \in Addr : Heartbeat(a) \/ Disconnect(a)
     \/ Bot \/ Cleanup \/ Tick
  /\ UNCHANGED <<sending, admitted>>

FNext ==
  \/ \E m \in Announcement : FAnnounce(m) \/ FRegisterTcpPeer(m)
  \/ \E a \in Addr : FForward(a)
  \/ Send
  \/ Other

FSpec == FInit /\ [][FNext]_fvars

-----------------------------------------------------------------------------
(* Properties *)

(* May a packet from a reach t?  Both have announced the same port of one  *)
(* session, a as its streamer, or a as its viewer and t as its streamer.   *)
MayRelay(accepted, a, t) ==
  \E m, n \in accepted :
    /\ m.addr = a /\ n.addr = t
    /\ m.sid = n.sid /\ m.port = n.port
    /\ \/ m.role = "streamer" /\ n.role \in {"viewer", "spectator"}
       \/ m.role = "viewer" /\ n.role = "streamer"

(* The relay forwards a packet only inside a session, between the two ends *)
(* of one port and never from a spectator, whatever the clients announce   *)
(* and in whatever order sessions overwrite each other, peers move and the *)
(* cleanup runs: the mappings (forward_packet) and the packet being sent.  *)
Isolation ==
  /\ \A a \in DOMAIN mappings : \A t \in mappings[a].targets : MayRelay(admitted, a, t)
  /\ \A t \in sending.targets : MayRelay(admitted, sending.from, t)

=============================================================================
