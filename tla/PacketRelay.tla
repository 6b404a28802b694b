------------------------------ MODULE PacketRelay ------------------------------
(***************************************************************************)
(* The session and mapping tables of the relay (v3xctrl_relay/             *)
(* PacketRelay.py, custom_types.py), written by the announcement handlers, *)
(* the TCP acceptor threads, the forwarding path and the cleanup thread.   *)
(*                                                                         *)
(* The three tables session_lock protects are transformed together, so the *)
(* helpers below map one record r = [sessions, mappings, index] to the     *)
(* next, in the order in which the code calls them.  index stands for      *)
(* spectator_by_address; an entry of it names the session whose spectator  *)
(* (at that source IP) it points to, or None when the SpectatorEntry it    *)
(* points to belongs to no session any more.                               *)
(*                                                                         *)
(* Timestamps are kept as ages: now - timestamp in ticks, which stop       *)
(* growing one past the timeout they are compared with.                    *)
(*                                                                         *)
(* A definition named X_Mistake is X with one plausible mistake in it; the *)
(* specification never uses it, and a run shows which property notices it. *)
(***************************************************************************)
EXTENDS Naturals, Functions

CONSTANTS
  Addr,               \* UDP or TCP source addresses (IP, port)
  Ip, IpOf,           \* source IPs, and the IP of each address
  Sid,                \* session ids; each comes with its own spectator id
  Announcement,       \* the PeerAnnouncements clients may send, see below
  TcpAddr,            \* the addresses that are ends of TCP connections
  Timeout,            \* RelayServer.TIMEOUT, in ticks
  SpectatorTimeout,   \* PacketRelay.SPECTATOR_TIMEOUT, in ticks
  None                \* no address, no session

PortType == {"video", "control"}
PeerRole == {"streamer", "viewer"}
Role == PeerRole \cup {"spectator"}

(* An announcement from addr.  A spectator sends the spectator id that the *)
(* store maps to sid, so both kinds of id are named by the session.        *)
Message == [role : Role, port : PortType, addr : Addr, sid : Sid]

ASSUME AddressAssumption ==
  /\ IpOf \in [Addr -> Ip]
  /\ None \notin Addr \cup Sid
  /\ Announcement \subseteq Message
  /\ TcpAddr \subseteq Addr

ASSUME TimeoutAssumption ==
  /\ Timeout \in Nat \ {0}
  /\ SpectatorTimeout \in 1 .. Timeout

MaybeAddr == Addr \cup {None}
Ports == [PortType -> MaybeAddr]
NoPorts == [p \in PortType |-> None]
Addresses(ports) == {ports[p] : p \in PortType} \ {None}

Age == 0 .. Timeout + 1
SpectatorAge == 0 .. SpectatorTimeout + 1

Spectator == [ports : Ports, age : SpectatorAge]
NoSpectator == [ports |-> NoPorts, age |-> 0]

Session == [roles : [PeerRole -> Ports],
            spectators : [Ip -> Spectator],
            addresses : SUBSET Addr,
            age : Age]

NewSession == [roles |-> [k \in PeerRole |-> NoPorts],
               spectators |-> [i \in Ip |-> NoSpectator],
               addresses |-> {},
               age |-> 0]

Mapping == [targets : SUBSET Addr, age : Age]

VARIABLES
  store,       \* the allowed_sessions table: the state of each session id
  sessions,    \* session id -> Session
  mappings,    \* source address -> Mapping
  index,       \* spectator_by_address
  tcp_targets, \* address -> is the TcpTarget alive
  handshakes,  \* announcements of TCP connections not yet registered
  cleaner,     \* which part of the cleanup runs next
  expired      \* expired_roles_by_session: what the cleanup is about to remove

tables == <<sessions, mappings, index>>
cleanup == <<cleaner, expired>>
vars == <<store, sessions, mappings, index, tcp_targets, handshakes, cleaner, expired>>

IsPartial(f, D, R) == DOMAIN f \subseteq D /\ f \in [DOMAIN f -> R]

TypeOK ==
  /\ store \in [Sid -> {"unused", "valid", "revoked"}]
  /\ IsPartial(sessions, Sid, Session)
  /\ IsPartial(mappings, Addr, Mapping)
  /\ IsPartial(index, Addr, Sid \cup {None})
  /\ IsPartial(tcp_targets, Addr, BOOLEAN)
  /\ handshakes \subseteq Announcement
  /\ cleaner \in {"tcp targets", "roles", "sessions"}
  /\ expired \in SUBSET (Sid \X PeerRole)

Init ==
  /\ store = [s \in Sid |-> "unused"]
  /\ sessions = << >>
  /\ mappings = << >>
  /\ index = << >>
  /\ tcp_targets = << >>
  /\ handshakes = {}
  /\ cleaner = "tcp targets"
  /\ expired = {}

-----------------------------------------------------------------------------
(* dict operations *)
Put(f, k, v) == [x \in DOMAIN f \cup {k} |-> IF x = k THEN v ELSE f[x]]
Pop(f, S) == Restrict(f, DOMAIN f \ S)

RoleReady(ses, role) == \A p \in PortType : ses.roles[role][p] # None
IsReady(ses) == \A role \in PeerRole : RoleReady(ses, role)
IsComplete(spec) == \A p \in PortType : spec.ports[p] # None
IsEmpty(ses) == \A role \in PeerRole : Addresses(ses.roles[role]) = {}

StreamerAddresses(ses) == Addresses(ses.roles["streamer"])
PeerAddresses(ses) == UNION {Addresses(ses.roles[role]) : role \in PeerRole}

-----------------------------------------------------------------------------
(* Remove the spectators gone[s] (a set of IPs) from every session s: from *)
(* the session, its addresses, the index, and the targets of the addresses *)
(* its streamer has now.                                                   *)
RemoveSpectators(r, gone) ==
  LET lost == [s \in DOMAIN r.sessions |->
                 UNION {Addresses(r.sessions[s].spectators[i].ports) : i \in gone[s]}]
      unmapped(a) == UNION {lost[s] : s \in
                       {s \in DOMAIN r.sessions : a \in StreamerAddresses(r.sessions[s])}}
  IN [sessions |-> [s \in DOMAIN r.sessions |->
        [r.sessions[s] EXCEPT
           !.spectators = [i \in Ip |-> IF i \in gone[s] THEN NoSpectator ELSE @[i]],
           !.addresses = @ \ lost[s]]],
      mappings |-> [a \in DOMAIN r.mappings |->
        [r.mappings[a] EXCEPT !.targets = @ \ unmapped(a)]],
      index |-> Pop(r.index, UNION {lost[s] : s \in DOMAIN r.sessions})]

(* _remove_spectator_from_all_sessions: the first session, in the order of *)
(* the dict, that has a spectator at addr.  Any of them may be the first.  *)
Spectating(r, a) ==
  {s \in DOMAIN r.sessions : a \in Addresses(r.sessions[s].spectators[IpOf[a]].ports)}

WithoutSpectator(r, a) ==
  IF Spectating(r, a) = {} THEN {r}
  ELSE {RemoveSpectators(r, [s \in DOMAIN r.sessions |->
                               IF s = first THEN {IpOf[a]} ELSE {}])
          : first \in Spectating(r, a)}

Opposite_Crossed(roles, a) ==
  LET port == IF \E role \in PeerRole : roles[role]["control"] = a
              THEN "video" ELSE "control"
  IN IF \E p \in PortType : roles["viewer"][p] = a THEN roles["streamer"][port]
                                                 ELSE roles["viewer"][port]

(* Opposite peer of an address, as left by the assignments to new_mappings *)
(* port by port, the viewer's after the streamer's.                        *)
Opposite(roles, a) ==
  LET port == IF \E role \in PeerRole : roles[role]["control"] = a
              THEN "control" ELSE "video"
  IN IF roles["viewer"][port] = a THEN roles["streamer"][port]
                                  ELSE roles["viewer"][port]

(* The other sessions that have an address of this one. *)
Overwritten(r, sid) ==
  {s \in DOMAIN r.sessions \ {sid} :
     r.sessions[s].addresses \cap r.sessions[sid].addresses # {}}

(* _update_mappings for a ready session: pair up the peers, keep the age   *)
(* of a mapping that stays the same, drop what the session's addresses     *)
(* mapped to before and every other session that has one of them.          *)
UpdateMappings(r, sid) ==
  LET ses == r.sessions[sid]
      peers == PeerAddresses(ses)
      overwritten == Overwritten(r, sid)
      unchanged(a) == a \in DOMAIN r.mappings /\ r.mappings[a].targets = {Opposite(ses.roles, a)}
  IN [sessions |-> Pop(r.sessions, overwritten),
      mappings |-> [a \in (DOMAIN r.mappings \ ses.addresses) \cup peers |->
        IF a \in peers
        THEN [targets |-> {Opposite(ses.roles, a)},
              age |-> IF unchanged(a) THEN r.mappings[a].age ELSE 0]
        ELSE r.mappings[a]],
      index |-> [a \in DOMAIN r.index |->
                   IF r.index[a] \in overwritten THEN None ELSE r.index[a]]]

(* _setup_spectator_mappings for the spectators at ips: the streamer's     *)
(* ports also go to the ports of every complete spectator.                 *)
SetupSpectators(r, sid, ips) ==
  LET ses == r.sessions[sid]
      complete == {i \in ips : IsComplete(ses.spectators[i])}
      watching(a) == {ses.spectators[i].ports[p] : i \in complete,
                        p \in {p \in PortType : ses.roles["streamer"][p] = a}}
  IN [r EXCEPT !.mappings =
        [a \in DOMAIN @ \cup {a \in StreamerAddresses(ses) : watching(a) # {}} |->
           IF watching(a) = {} THEN @[a]
           ELSE [targets |-> watching(a) \cup (IF a \in DOMAIN @ THEN @[a].targets ELSE {}),
                 age |-> 0]]]

SessionOf(r, sid) == IF sid \in DOMAIN r.sessions THEN r.sessions[sid] ELSE NewSession

PeerRegistered_NoSpectators(r, m) ==
  LET ses == [SessionOf(r, m.sid) EXCEPT
                !.roles[m.role][m.port] = m.addr,
                !.addresses = @ \cup {m.addr},
                !.age = 0]
      joined == [r EXCEPT !.sessions = Put(@, m.sid, ses)]
  IN IF IsReady(ses) THEN UpdateMappings(joined, m.sid) ELSE joined

(* register_peer for a streamer or a viewer whose session id is valid *)
PeerRegistered(r, m) ==
  LET ses == [SessionOf(r, m.sid) EXCEPT
                !.roles[m.role][m.port] = m.addr,
                !.addresses = @ \cup {m.addr},
                !.age = 0]
      joined == [r EXCEPT !.sessions = Put(@, m.sid, ses)]
  IN IF IsReady(ses)
     THEN SetupSpectators(UpdateMappings(joined, m.sid), m.sid, Ip)
     ELSE joined

(* The announced address takes the place of the one it replaces. *)
Indexed(idx, m, replaced) == Put(Pop(idx, replaced), m.addr, m.sid)

(* register_peer for a spectator whose spectator id is valid *)
SpectatorRegistered(r, m) ==
  LET i == IpOf[m.addr]
      before == SessionOf(r, m.sid)
      replaced == {before.spectators[i].ports[m.port]} \ {None, m.addr}
      ses == [before EXCEPT
                !.spectators[i] = [ports |-> [@.ports EXCEPT ![m.port] = m.addr], age |-> 0],
                !.addresses = (@ \cup {m.addr}) \ replaced]
      joined == [sessions |-> Put(r.sessions, m.sid, ses),
                 mappings |-> [a \in DOMAIN r.mappings |->
                   IF a \in StreamerAddresses(ses)
                   THEN [r.mappings[a] EXCEPT !.targets = @ \ replaced]
                   ELSE r.mappings[a]],
                 index |-> Indexed(r.index, m, replaced)]
  IN IF IsReady(ses) THEN SetupSpectators(joined, m.sid, {i}) ELSE joined

Relay == [sessions |-> sessions, mappings |-> mappings, index |-> index]

Become(r) ==
  /\ sessions' = r.sessions
  /\ mappings' = r.mappings
  /\ index' = r.index

(* The cleanup holds session_lock while it goes from the roles it found to *)
(* their removal; mapping_lock is free in between.                         *)
SessionLockFree == cleaner # "sessions"

(* register_peer: a peer leaves the spectators even when its session id is *)
(* then refused (Error 403); a refused spectator changes nothing.          *)
RegisterPeer(m) ==
  /\ SessionLockFree
  /\ \/ /\ m.role \in PeerRole
        /\ \E r \in WithoutSpectator(Relay, m.addr) :
             \E new \in {IF store[m.sid] = "valid" THEN PeerRegistered(r, m) ELSE r} :
               Become(new)
     \/ /\ m.role = "spectator"
        /\ \E new \in {IF store[m.sid] = "valid" THEN SpectatorRegistered(Relay, m)
                                               ELSE Relay} :
             Become(new)

-----------------------------------------------------------------------------
(* Clients *)

(* A PeerAnnouncement datagram, handled by a control_executor thread. *)
Announce(m) ==
  /\ m.addr \notin TcpAddr
  /\ RegisterPeer(m)
  /\ UNCHANGED <<store, tcp_targets, handshakes, cleanup>>

(* A TCP connection and its handshake: register_tcp_peer stores the target *)
(* under mapping_lock, releases it and then registers the peer.            *)
Connect(m) ==
  /\ m.addr \in TcpAddr
  /\ m.addr \in DOMAIN tcp_targets => ~tcp_targets[m.addr]
  /\ \A h \in handshakes : h.addr # m.addr
  /\ tcp_targets' = Put(tcp_targets, m.addr, TRUE)
  /\ handshakes' = handshakes \cup {m}
  /\ UNCHANGED <<store, tables, cleanup>>

RegisterTcpPeer(m) ==
  /\ m \in handshakes
  /\ RegisterPeer(m)
  /\ handshakes' = handshakes \ {m}
  /\ UNCHANGED <<store, tcp_targets, cleanup>>

(* The connection ends: a send failed, or its handler closed the target. *)
Disconnect(a) ==
  /\ a \in DOMAIN tcp_targets
  /\ tcp_targets[a]
  /\ tcp_targets' = [tcp_targets EXCEPT ![a] = FALSE]
  /\ UNCHANGED <<store, tables, handshakes, cleanup>>

(* The part of forward_packet under mapping_lock; RelayForwarding adds the *)
(* sending of the packet.                                                  *)
Forward(a) ==
  /\ a \in DOMAIN mappings
  /\ mappings' = [mappings EXCEPT ![a].age = 0]
  /\ UNCHANGED <<store, sessions, index, tcp_targets, handshakes, cleanup>>

(* A datagram that is no control message, from an address with no mapping: *)
(* update_spectator_heartbeat.                                             *)
Heartbeat(a) ==
  /\ SessionLockFree
  /\ a \notin DOMAIN mappings
  /\ a \in DOMAIN index
  /\ index[a] # None
  /\ sessions' = [sessions EXCEPT ![index[a]].spectators[IpOf[a]].age = 0]
  /\ UNCHANGED <<store, mappings, index, tcp_targets, handshakes, cleanup>>

-----------------------------------------------------------------------------
(* The Discord bot on the store: create, update (renew) and delete a row.  *)
(* Ids are random and unique among the rows; one that has been replaced is *)
(* never drawn again.                                                      *)
CreateSession(s) ==
  /\ store[s] = "unused"
  /\ store' = [store EXCEPT ![s] = "valid"]
  /\ UNCHANGED <<tables, tcp_targets, handshakes, cleanup>>

UpdateSession(old, new) ==
  /\ store[old] = "valid"
  /\ store[new] = "unused"
  /\ store' = [store EXCEPT ![old] = "revoked", ![new] = "valid"]
  /\ UNCHANGED <<tables, tcp_targets, handshakes, cleanup>>

DeleteSession(s) ==
  /\ store[s] = "valid"
  /\ store' = [store EXCEPT ![s] = "revoked"]
  /\ UNCHANGED <<tables, tcp_targets, handshakes, cleanup>>

-----------------------------------------------------------------------------
(* The cleanup thread: cleanup_expired_mappings *)

CleanupDeadTcpTargets ==
  /\ cleaner = "tcp targets"
  /\ tcp_targets' = Pop(tcp_targets,
       {a \in DOMAIN tcp_targets : ~tcp_targets[a] /\ a \notin DOMAIN mappings})
  /\ cleaner' = "roles"
  /\ UNCHANGED <<store, tables, handshakes, expired>>

RoleExpired_Mapped(s, role) ==
  /\ sessions[s].age > Timeout
  /\ Addresses(sessions[s].roles[role]) # {}
  /\ \A a \in Addresses(sessions[s].roles[role]) :
       a \in DOMAIN mappings /\ mappings[a].age >= Timeout

RoleExpired(s, role) ==
  /\ sessions[s].age > Timeout
  /\ Addresses(sessions[s].roles[role]) # {}
  /\ \A a \in Addresses(sessions[s].roles[role]) :
       a \in DOMAIN mappings => mappings[a].age >= Timeout

FindExpiredRoles ==
  /\ cleaner = "roles"
  /\ expired' = {x \in (DOMAIN sessions) \X PeerRole : RoleExpired(x[1], x[2])}
  /\ cleaner' = "sessions"
  /\ UNCHANGED <<store, tables, tcp_targets, handshakes>>

ExpireRoles_KeepRoles(r, gone) ==
  LET dropped(s) == UNION {Addresses(r.sessions[s].roles[role]) :
                             role \in {role \in PeerRole : <<s, role>> \in gone}}
  IN [r EXCEPT
        !.sessions = [s \in DOMAIN r.sessions |->
           [r.sessions[s] EXCEPT !.addresses = @ \ dropped(s)]],
        !.mappings = Pop(@, UNION {dropped(s) : s \in DOMAIN r.sessions})]

ExpireRoles(r, gone) ==
  LET dropped(s) == UNION {Addresses(r.sessions[s].roles[role]) :
                             role \in {role \in PeerRole : <<s, role>> \in gone}}
  IN [r EXCEPT
        !.sessions = [s \in DOMAIN r.sessions |->
           [r.sessions[s] EXCEPT
              !.roles = [role \in PeerRole |->
                           IF <<s, role>> \in gone THEN NoPorts ELSE @[role]],
              !.addresses = @ \ dropped(s)]],
        !.mappings = Pop(@, UNION {dropped(s) : s \in DOMAIN r.sessions})]

ActiveTcp(a) == a \in DOMAIN tcp_targets /\ tcp_targets[a]

ExpireSpectators(r) ==
  LET silent(s) == {i \in Ip : /\ ~IsEmpty(r.sessions[s])
                               /\ r.sessions[s].spectators[i].age > SpectatorTimeout}
      onTcp(s) == {i \in silent(s) :
                     \E a \in Addresses(r.sessions[s].spectators[i].ports) : ActiveTcp(a)}
      removed == RemoveSpectators(r, [s \in DOMAIN r.sessions |-> silent(s) \ onTcp(s)])
  IN [removed EXCEPT !.sessions = [s \in DOMAIN removed.sessions |->
        [removed.sessions[s] EXCEPT !.spectators = [i \in Ip |->
           IF i \in onTcp(s) THEN [@[i] EXCEPT !.age = 0] ELSE @[i]]]]]

DropEmptySessions(r) ==
  LET empty == {s \in DOMAIN r.sessions : IsEmpty(r.sessions[s])}
      watchers == UNION {Addresses(r.sessions[s].spectators[i].ports) : s \in empty, i \in Ip}
  IN [r EXCEPT !.sessions = Pop(@, empty), !.index = Pop(@, watchers)]

CleanupSessions ==
  /\ cleaner = "sessions"
  /\ \E r1 \in {ExpireRoles(Relay, expired)} :
       \E r2 \in {ExpireSpectators(r1)} :
         \E r3 \in {DropEmptySessions(r2)} : Become(r3)
  /\ cleaner' = "tcp targets"
  /\ expired' = {}
  /\ UNCHANGED <<store, tcp_targets, handshakes>>

(* One tick of time.time(); only spectators present have an age. *)
Older(age, bound) == IF age <= bound THEN age + 1 ELSE age
OlderSpectator(spec) ==
  IF spec = NoSpectator THEN spec ELSE [spec EXCEPT !.age = Older(@, SpectatorTimeout)]

Tick ==
  /\ sessions' = [s \in DOMAIN sessions |->
       [sessions[s] EXCEPT
          !.age = Older(@, Timeout),
          !.spectators = [i \in Ip |-> OlderSpectator(@[i])]]]
  /\ mappings' = [a \in DOMAIN mappings |-> [mappings[a] EXCEPT !.age = Older(@, Timeout)]]
  /\ UNCHANGED <<store, index, tcp_targets, handshakes, cleanup>>

-----------------------------------------------------------------------------
Client ==
  \/ \E m \in Announcement : Announce(m) \/ Connect(m) \/ RegisterTcpPeer(m)
  \/ \E a \in Addr : Forward(a) \/ Heartbeat(a) \/ Disconnect(a)

Bot ==
  \/ \E s \in Sid : CreateSession(s) \/ DeleteSession(s)
  \/ \E s, t \in Sid : UpdateSession(s, t)

Cleanup == CleanupDeadTcpTargets \/ FindExpiredRoles \/ CleanupSessions

Next == Client \/ Bot \/ Cleanup \/ Tick

Spec == Init /\ [][Next]_vars

(* The cleanup thread loops for as long as the relay runs, time passes  *)
(* and a handshake that was read is registered.                            *)
FairSpec ==
  /\ Spec
  /\ WF_vars(Cleanup)
  /\ WF_vars(Tick)
  /\ \A m \in Announcement : WF_vars(RegisterTcpPeer(m))

-----------------------------------------------------------------------------
(* Properties *)

(* The reverse index and the spectators agree: a heartbeat                 *)
(* (update_spectator_heartbeat) refreshes the entry of its sender and no   *)
(* other, and the heartbeats of every spectator find its entry, although   *)
(* entries are dropped by moves, timeouts and overwrites.                  *)
IndexInSync ==
  /\ \A a \in DOMAIN index :
       index[a] # None =>
         /\ index[a] \in DOMAIN sessions
         /\ a \in Addresses(sessions[index[a]].spectators[IpOf[a]].ports)
  /\ \A s \in DOMAIN sessions, i \in Ip :
       \A a \in Addresses(sessions[s].spectators[i].ports) :
         a \in DOMAIN index /\ index[a] = s

(* A ready session relays: every port of both peers is mapped to the other *)
(* peer, however the session came to be ready and whatever it overwrote.   *)
ReadyIsMapped ==
  \A s \in DOMAIN sessions :
    IsReady(sessions[s]) =>
      \A a \in PeerAddresses(sessions[s]) :
        /\ a \in DOMAIN mappings
        /\ Opposite(sessions[s].roles, a) \in mappings[a].targets

(* Both: the three tables of the relay never disagree about a peer.        *)
TablesAgree == IndexInSync /\ ReadyIsMapped

(* In a ready session the streamer's ports go to the same ports of every   *)
(* complete spectator, in whatever order the four clients announced.       *)
SpectatorsServed ==
  \A s \in DOMAIN sessions, i \in Ip, p \in PortType :
    IsReady(sessions[s]) /\ IsComplete(sessions[s].spectators[i]) =>
      LET streamer == sessions[s].roles["streamer"][p]
      IN /\ streamer \in DOMAIN mappings
         /\ sessions[s].spectators[i].ports[p] \in mappings[streamer].targets

(* When the clients fall silent (nothing but time, the cleanup and the bot *)
(* moves) every session is removed in the end, with its spectators and the *)
(* index (cleanup_expired_mappings).                                       *)
SilentSessionsRemoved ==
  <>[][Tick \/ cleaner' # cleaner \/ store' # store]_vars
    => <>[](DOMAIN sessions = {} /\ DOMAIN index = {})

=============================================================================
