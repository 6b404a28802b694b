------------------------------ MODULE RelayProofs ------------------------------
(***************************************************************************)
(* Proofs about PacketRelay and about RelayForwarding, which composes it   *)
(* with the packets, for every set of clients, addresses and session ids   *)
(* and every pair of timeouts.                                             *)
(***************************************************************************)
EXTENDS RelayForwarding, TLAPS

(* The tables as the helpers of PacketRelay pass them on. *)
RelayOK(r) ==
  /\ r = [sessions |-> r.sessions, mappings |-> r.mappings, index |-> r.index]
  /\ IsPartial(r.sessions, Sid, Session)
  /\ IsPartial(r.mappings, Addr, Mapping)
  /\ IsPartial(r.index, Addr, Sid \cup {None})

-----------------------------------------------------------------------------
(* dict operations and the parts of a session *)

(* Storing and removing entries keeps a table a table. *)
LEMMA PutType ==
  ASSUME NEW D, NEW R, NEW f, IsPartial(f, D, R), NEW k \in D, NEW v \in R
  PROVE  IsPartial(Put(f, k, v), D, R)
BY DEF IsPartial, Put

LEMMA PopType ==
  ASSUME NEW D, NEW R, NEW f, IsPartial(f, D, R), NEW S
  PROVE  IsPartial(Pop(f, S), D, R)
BY DEF IsPartial, Pop, Restrict

(* The addresses of an entry's ports are addresses. *)
LEMMA AddressesType ==
  ASSUME NEW ports \in Ports
  PROVE  Addresses(ports) \subseteq Addr
BY DEF Ports, Addresses, MaybeAddr

(* The entries new in a session are of their types. *)
LEMMA NoPortsType == NoPorts \in Ports
BY DEF NoPorts, Ports, MaybeAddr

LEMMA NoSpectatorType == NoSpectator \in Spectator
BY NoPortsType, TimeoutAssumption DEF NoSpectator, Spectator, SpectatorAge

LEMMA NewSessionType == NewSession \in Session
BY NoPortsType, NoSpectatorType, TimeoutAssumption DEF NewSession, Session, Age

LEMMA SessionOfType ==
  ASSUME NEW r, RelayOK(r), NEW s \in Sid
  PROVE  SessionOf(r, s) \in Session
BY NewSessionType DEF SessionOf, RelayOK, IsPartial

(* The addresses of the peers of a session are addresses. *)
LEMMA PeerAddressesType ==
  ASSUME NEW ses \in Session
  PROVE  /\ StreamerAddresses(ses) \subseteq Addr
         /\ PeerAddresses(ses) \subseteq Addr
BY AddressesType DEF Session, StreamerAddresses, PeerAddresses, PeerRole

-----------------------------------------------------------------------------
(* Each helper maps tables to tables. *)

LEMMA RemoveSpectatorsType ==
  ASSUME NEW r, RelayOK(r), NEW gone
  PROVE  RelayOK(RemoveSpectators(r, gone))
<1> DEFINE lost == [s \in DOMAIN r.sessions |->
               UNION {Addresses(r.sessions[s].spectators[i].ports) : i \in gone[s]}]
           unmapped(a) == UNION {lost[s] : s \in
               {s \in DOMAIN r.sessions : a \in StreamerAddresses(r.sessions[s])}}
           kept(s) == [r.sessions[s] EXCEPT
             !.spectators = [i \in Ip |-> IF i \in gone[s] THEN NoSpectator ELSE @[i]],
             !.addresses = @ \ lost[s]]
           sess == [s \in DOMAIN r.sessions |-> kept(s)]
           maps == [a \in DOMAIN r.mappings |->
                      [r.mappings[a] EXCEPT !.targets = @ \ unmapped(a)]]
           idx == Pop(r.index, UNION {lost[s] : s \in DOMAIN r.sessions})
<1>1. ASSUME NEW s \in DOMAIN r.sessions
      PROVE  kept(s) \in Session
  <2>1. r.sessions[s] \in Session
    BY DEF RelayOK, IsPartial
  <2>2. [i \in Ip |-> IF i \in gone[s] THEN NoSpectator ELSE r.sessions[s].spectators[i]]
          \in [Ip -> Spectator]
    BY <2>1, NoSpectatorType DEF Session
  <2>3. r.sessions[s].addresses \ lost[s] \in SUBSET Addr
    BY <2>1 DEF Session
  <2> HIDE DEF lost
  <2> QED
    BY <2>1, <2>2, <2>3 DEF Session
<1>2. IsPartial(sess, Sid, Session)
  BY <1>1 DEF RelayOK, IsPartial
<1>3. IsPartial(maps, Addr, Mapping)
  <2> HIDE DEF unmapped
  <2>1. ASSUME NEW a \in DOMAIN r.mappings
        PROVE  [r.mappings[a] EXCEPT !.targets = @ \ unmapped(a)] \in Mapping
    BY DEF RelayOK, IsPartial, Mapping
  <2> QED
    BY <2>1 DEF RelayOK, IsPartial
<1>4. IsPartial(idx, Addr, Sid \cup {None})
  BY PopType DEF RelayOK
<1>5. RemoveSpectators(r, gone) = [sessions |-> sess, mappings |-> maps, index |-> idx]
  BY DEF RemoveSpectators
<1> HIDE DEF sess, maps, idx
<1> QED
  BY <1>2, <1>3, <1>4, <1>5 DEF RelayOK

(* A peer opposite a peer of a ready session is an address. *)
LEMMA OppositeType ==
  ASSUME NEW ses \in Session, IsReady(ses), NEW a
  PROVE  Opposite(ses.roles, a) \in Addr
BY DEF Session, Ports, MaybeAddr, IsReady, RoleReady, PeerRole, PortType, Opposite

LEMMA UpdateMappingsType ==
  ASSUME NEW r, RelayOK(r), NEW s \in DOMAIN r.sessions, IsReady(r.sessions[s])
  PROVE  RelayOK(UpdateMappings(r, s))
<1> DEFINE ses == r.sessions[s]
           peers == PeerAddresses(ses)
           overwritten == Overwritten(r, s)
           unchanged(a) == a \in DOMAIN r.mappings /\ r.mappings[a].targets = {Opposite(ses.roles, a)}
           fresh(a) == [targets |-> {Opposite(ses.roles, a)},
                        age |-> IF unchanged(a) THEN r.mappings[a].age ELSE 0]
           maps == [a \in (DOMAIN r.mappings \ ses.addresses) \cup peers |->
                      IF a \in peers THEN fresh(a) ELSE r.mappings[a]]
           idx == [a \in DOMAIN r.index |->
                     IF r.index[a] \in overwritten THEN None ELSE r.index[a]]
<1>1. ses \in Session /\ peers \subseteq Addr
  BY PeerAddressesType DEF RelayOK, IsPartial
<1>2. IsPartial(Pop(r.sessions, overwritten), Sid, Session)
  BY PopType DEF RelayOK
<1>3. ASSUME NEW a \in peers
      PROVE  fresh(a) \in Mapping
  <2>1. {Opposite(ses.roles, a)} \in SUBSET Addr
    BY <1>1, OppositeType
  <2>2. (IF unchanged(a) THEN r.mappings[a].age ELSE 0) \in Age
    BY TimeoutAssumption DEF RelayOK, IsPartial, Mapping, Age
  <2> HIDE DEF unchanged, ses
  <2> QED
    BY <2>1, <2>2 DEF Mapping
<1>4. IsPartial(maps, Addr, Mapping)
  <2> HIDE DEF fresh, peers
  <2> QED
    BY <1>1, <1>3 DEF RelayOK, IsPartial
<1>5. IsPartial(idx, Addr, Sid \cup {None})
  BY DEF RelayOK, IsPartial
<1>6. UpdateMappings(r, s) = [sessions |-> Pop(r.sessions, overwritten),
                              mappings |-> maps, index |-> idx]
  BY DEF UpdateMappings
<1> HIDE DEF maps, idx, overwritten
<1> QED
  BY <1>2, <1>4, <1>5, <1>6 DEF RelayOK

LEMMA SetupSpectatorsType ==
  ASSUME NEW r, RelayOK(r), NEW s \in DOMAIN r.sessions, NEW ips \in SUBSET Ip
  PROVE  RelayOK(SetupSpectators(r, s, ips))
<1> DEFINE ses == r.sessions[s]
           complete == {i \in ips : IsComplete(ses.spectators[i])}
           watching(a) == {ses.spectators[i].ports[p] : i \in complete,
                             p \in {p \in PortType : ses.roles["streamer"][p] = a}}
           dom == DOMAIN r.mappings \cup {a \in StreamerAddresses(ses) : watching(a) # {}}
           new(a) == IF watching(a) = {} THEN r.mappings[a]
                     ELSE [targets |-> watching(a) \cup
                             (IF a \in DOMAIN r.mappings THEN r.mappings[a].targets ELSE {}),
                           age |-> 0]
           maps == [a \in dom |-> new(a)]
<1>1. ses \in Session /\ StreamerAddresses(ses) \subseteq Addr
  BY PeerAddressesType DEF RelayOK, IsPartial
<1>2. ASSUME NEW a
      PROVE  watching(a) \in SUBSET Addr
  BY <1>1 DEF Session, Spectator, Ports, MaybeAddr, IsComplete
<1>3. ASSUME NEW a \in dom
      PROVE  new(a) \in Mapping
  <2> HIDE DEF watching, ses
  <2>1. a \in DOMAIN r.mappings => r.mappings[a] \in Mapping
    BY DEF RelayOK, IsPartial
  <2>2. CASE watching(a) = {}
    BY <2>1, <2>2
  <2>3. CASE watching(a) # {}
    BY <1>2, <2>1, <2>3, TimeoutAssumption DEF Mapping, Age
  <2> QED
    BY <2>2, <2>3
<1>4. dom \subseteq Addr
  BY <1>1 DEF RelayOK, IsPartial
<1>5. IsPartial(maps, Addr, Mapping)
  <2> HIDE DEF new, dom
  <2> QED
    BY <1>3, <1>4 DEF IsPartial
<1>6. SetupSpectators(r, s, ips) = [r EXCEPT !.mappings = maps]
  BY DEF SetupSpectators
<1> HIDE DEF maps
<1> QED
  BY <1>5, <1>6 DEF RelayOK

LEMMA ExpireRolesType ==
  ASSUME NEW r, RelayOK(r), NEW gone
  PROVE  RelayOK(ExpireRoles(r, gone))
<1> DEFINE dropped(s) == UNION {Addresses(r.sessions[s].roles[role]) :
                                  role \in {role \in PeerRole : <<s, role>> \in gone}}
           kept(s) == [r.sessions[s] EXCEPT
              !.roles = [role \in PeerRole |->
                           IF <<s, role>> \in gone THEN NoPorts ELSE @[role]],
              !.addresses = @ \ dropped(s)]
           sess == [s \in DOMAIN r.sessions |-> kept(s)]
           maps == Pop(r.mappings, UNION {dropped(s) : s \in DOMAIN r.sessions})
<1>1. ASSUME NEW s \in DOMAIN r.sessions
      PROVE  kept(s) \in Session
  <2>1. r.sessions[s] \in Session
    BY DEF RelayOK, IsPartial
  <2>2. [role \in PeerRole |-> IF <<s, role>> \in gone THEN NoPorts
                                ELSE r.sessions[s].roles[role]] \in [PeerRole -> Ports]
    BY <2>1, NoPortsType DEF Session
  <2>3. r.sessions[s].addresses \ dropped(s) \in SUBSET Addr
    BY <2>1 DEF Session
  <2> HIDE DEF dropped
  <2> QED
    BY <2>1, <2>2, <2>3 DEF Session
<1>2. IsPartial(sess, Sid, Session)
  BY <1>1 DEF RelayOK, IsPartial
<1>3. IsPartial(maps, Addr, Mapping)
  BY PopType DEF RelayOK
<1>4. ExpireRoles(r, gone) = [r EXCEPT !.sessions = sess, !.mappings = maps]
  BY DEF ExpireRoles
<1> HIDE DEF sess, maps
<1> QED
  BY <1>2, <1>3, <1>4 DEF RelayOK

LEMMA ExpireSpectatorsType ==
  ASSUME NEW r, RelayOK(r)
  PROVE  RelayOK(ExpireSpectators(r))
<1> DEFINE silent(s) == {i \in Ip : /\ ~IsEmpty(r.sessions[s])
                                   /\ r.sessions[s].spectators[i].age > SpectatorTimeout}
           onTcp(s) == {i \in silent(s) :
                 \E a \in Addresses(r.sessions[s].spectators[i].ports) : ActiveTcp(a)}
           gone == [s \in DOMAIN r.sessions |-> silent(s) \ onTcp(s)]
           removed == RemoveSpectators(r, gone)
           kept(s) == [removed.sessions[s] EXCEPT !.spectators = [i \in Ip |->
                         IF i \in onTcp(s) THEN [@[i] EXCEPT !.age = 0] ELSE @[i]]]
           sess == [s \in DOMAIN removed.sessions |-> kept(s)]
<1>1. RelayOK(removed)
  <2> HIDE DEF gone
  <2> QED
    BY RemoveSpectatorsType
<1>2. ExpireSpectators(r) = [removed EXCEPT !.sessions = sess]
  BY DEF ExpireSpectators
<1> HIDE DEF removed, onTcp
<1>3. ASSUME NEW s \in DOMAIN removed.sessions
      PROVE  kept(s) \in Session
  <2>1. removed.sessions[s] \in Session
    BY <1>1 DEF RelayOK, IsPartial
  <2> DEFINE spec == removed.sessions[s].spectators
             fresh(i) == IF i \in onTcp(s) THEN [spec[i] EXCEPT !.age = 0] ELSE spec[i]
  <2>2. ASSUME NEW i \in Ip
        PROVE  fresh(i) \in Spectator
    BY <2>1, TimeoutAssumption DEF Session, Spectator, SpectatorAge
  <2>3. kept(s) = [removed.sessions[s] EXCEPT !.spectators = [i \in Ip |-> fresh(i)]]
    OBVIOUS
  <2> HIDE DEF fresh, kept
  <2> QED
    BY <2>1, <2>2, <2>3 DEF Session
<1>4. IsPartial(sess, Sid, Session)
  <2> HIDE DEF kept
  <2> QED
    BY <1>1, <1>3 DEF RelayOK, IsPartial
<1> HIDE DEF sess
<1> QED
  BY <1>1, <1>2, <1>4 DEF RelayOK

LEMMA DropEmptySessionsType ==
  ASSUME NEW r, RelayOK(r)
  PROVE  RelayOK(DropEmptySessions(r))
<1> DEFINE empty == {s \in DOMAIN r.sessions : IsEmpty(r.sessions[s])}
           watchers == UNION {Addresses(r.sessions[s].spectators[i].ports) : s \in empty, i \in Ip}
<1>1. DropEmptySessions(r) = [r EXCEPT !.sessions = Pop(r.sessions, empty),
                                       !.index = Pop(r.index, watchers)]
  BY DEF DropEmptySessions
<1> HIDE DEF empty, watchers
<1>2. IsPartial(Pop(r.sessions, empty), Sid, Session)
  BY PopType DEF RelayOK
<1>3. IsPartial(Pop(r.index, watchers), Addr, Sid \cup {None})
  BY PopType DEF RelayOK
<1> QED
  BY <1>1, <1>2, <1>3 DEF RelayOK

LEMMA WithoutSpectatorType ==
  ASSUME NEW r, RelayOK(r), NEW a, NEW q \in WithoutSpectator(r, a)
  PROVE  RelayOK(q)
<1>1. CASE Spectating(r, a) = {}
  BY <1>1 DEF WithoutSpectator
<1>2. CASE Spectating(r, a) # {}
  <2>1. PICK first : q = RemoveSpectators(r, [s \in DOMAIN r.sessions |->
                                                IF s = first THEN {IpOf[a]} ELSE {}])
    BY <1>2 DEF WithoutSpectator
  <2> QED
    BY <2>1, RemoveSpectatorsType
<1> QED
  BY <1>1, <1>2

(* The session of a peer that announces a port, which stays a session. *)
WithPeer(old, m) == [old EXCEPT !.roles[m.role][m.port] = m.addr,
                                !.addresses = @ \cup {m.addr},
                                !.age = 0]

LEMMA SessionWithRole ==
  ASSUME NEW old \in Session, NEW m \in Message, m.role \in PeerRole
  PROVE  WithPeer(old, m) \in Session
<1> DEFINE roles == [old.roles EXCEPT ![m.role][m.port] = m.addr]
<1>1. m.port \in PortType /\ m.addr \in Addr
  BY DEF Message
<1>2. old.roles[m.role] \in Ports
  BY DEF Session
<1>3. [old.roles[m.role] EXCEPT ![m.port] = m.addr] \in Ports
  BY <1>1, <1>2 DEF Ports, MaybeAddr
<1>4. roles \in [PeerRole -> Ports]
  BY <1>3 DEF Session
<1>5. 0 \in Age
  BY TimeoutAssumption DEF Age
<1>6. old.addresses \cup {m.addr} \in SUBSET Addr
  BY <1>1 DEF Session
<1> HIDE DEF roles
<1>7. [old EXCEPT !.roles = roles, !.addresses = old.addresses \cup {m.addr}, !.age = 0] \in Session
  BY <1>4, <1>5, <1>6 DEF Session
<1> QED
  BY <1>7 DEF roles, WithPeer

LEMMA PeerRegisteredType ==
  ASSUME NEW r, RelayOK(r), NEW m \in Message, m.role \in PeerRole
  PROVE  RelayOK(PeerRegistered(r, m))
<1> DEFINE old == SessionOf(r, m.sid)
           ses == WithPeer(old, m)
           joined == [r EXCEPT !.sessions = Put(r.sessions, m.sid, ses)]
<1>1. ses \in Session
  <2>1. old \in Session
    BY SessionOfType DEF Message
  <2> HIDE DEF old
  <2> QED
    BY <2>1, SessionWithRole
<1>2. PeerRegistered(r, m) =
        IF IsReady(ses) THEN SetupSpectators(UpdateMappings(joined, m.sid), m.sid, Ip)
                        ELSE joined
  BY DEF PeerRegistered, WithPeer
<1> HIDE DEF ses
<1>3. RelayOK(joined)
  <2>1. IsPartial(Put(r.sessions, m.sid, ses), Sid, Session)
    BY <1>1, PutType DEF RelayOK, Message
  <2> QED
    BY <2>1 DEF RelayOK
<1>4. m.sid \in DOMAIN joined.sessions /\ joined.sessions[m.sid] = ses
  BY DEF RelayOK, Put
<1> HIDE DEF joined
<1>5. ASSUME IsReady(ses)
      PROVE  /\ RelayOK(UpdateMappings(joined, m.sid))
             /\ m.sid \in DOMAIN UpdateMappings(joined, m.sid).sessions
  <2>1. UpdateMappings(joined, m.sid).sessions = Pop(joined.sessions, Overwritten(joined, m.sid))
    BY DEF UpdateMappings
  <2>2. m.sid \notin Overwritten(joined, m.sid)
    BY DEF Overwritten
  <2> QED
    BY <1>3, <1>4, <1>5, <2>1, <2>2, UpdateMappingsType DEF Pop, Restrict
<1> QED
  BY <1>2, <1>3, <1>5, SetupSpectatorsType

(* The address a spectator's announcement replaces, its session, and the  *)
(* tables before its targets are set up.                                   *)
Replaced(r, m) == {SessionOf(r, m.sid).spectators[IpOf[m.addr]].ports[m.port]} \ {None, m.addr}

WithSpectator(r, m) ==
  [SessionOf(r, m.sid) EXCEPT
     !.spectators[IpOf[m.addr]] = [ports |-> [@.ports EXCEPT ![m.port] = m.addr], age |-> 0],
     !.addresses = (@ \cup {m.addr}) \ Replaced(r, m)]

SpectatorTables(r, m) ==
  [sessions |-> Put(r.sessions, m.sid, WithSpectator(r, m)),
   mappings |-> [a \in DOMAIN r.mappings |->
     IF a \in StreamerAddresses(WithSpectator(r, m))
     THEN [r.mappings[a] EXCEPT !.targets = @ \ Replaced(r, m)]
     ELSE r.mappings[a]],
   index |-> Indexed(r.index, m, Replaced(r, m))]

LEMMA SpectatorSteps ==
  ASSUME NEW r, NEW m
  PROVE  SpectatorRegistered(r, m) =
           IF IsReady(WithSpectator(r, m))
           THEN SetupSpectators(SpectatorTables(r, m), m.sid, {IpOf[m.addr]})
           ELSE SpectatorTables(r, m)
BY DEF SpectatorRegistered, SpectatorTables, WithSpectator, Replaced

LEMMA SpectatorTablesType ==
  ASSUME NEW r, RelayOK(r), NEW m \in Message
  PROVE  RelayOK(SpectatorTables(r, m))
<1> DEFINE i == IpOf[m.addr]
           before == SessionOf(r, m.sid)
           ses == WithSpectator(r, m)
           maps == [a \in DOMAIN r.mappings |->
                      IF a \in StreamerAddresses(ses)
                      THEN [r.mappings[a] EXCEPT !.targets = @ \ Replaced(r, m)]
                      ELSE r.mappings[a]]
<1>1. i \in Ip /\ m.addr \in Addr /\ m.sid \in Sid /\ m.port \in PortType
  BY AddressAssumption DEF Message
<1>2. before \in Session
  BY <1>1, SessionOfType
<1>3. ses \in Session
  <2>1. [ports |-> [before.spectators[i].ports EXCEPT ![m.port] = m.addr], age |-> 0] \in Spectator
    BY <1>1, <1>2, TimeoutAssumption DEF Session, Spectator, SpectatorAge, Ports, MaybeAddr
  <2>2. (before.addresses \cup {m.addr}) \ Replaced(r, m) \in SUBSET Addr
    BY <1>1, <1>2 DEF Session
  <2>3. ses = [before EXCEPT
                 !.spectators[i] =
                    [ports |-> [before.spectators[i].ports EXCEPT ![m.port] = m.addr], age |-> 0],
                 !.addresses = (before.addresses \cup {m.addr}) \ Replaced(r, m)]
    BY <1>2 DEF WithSpectator, Session
  <2> HIDE DEF ses, before, i
  <2> QED
    BY <1>1, <1>2, <2>1, <2>2, <2>3 DEF Session
<1> HIDE DEF ses
<1>4. IsPartial(Put(r.sessions, m.sid, ses), Sid, Session)
  BY <1>1, <1>3, PutType DEF RelayOK
<1>5. IsPartial(maps, Addr, Mapping)
  BY DEF RelayOK, IsPartial, Mapping
<1>6. IsPartial(Indexed(r.index, m, Replaced(r, m)), Addr, Sid \cup {None})
  BY <1>1, PutType, PopType DEF RelayOK, Indexed
<1>7. SpectatorTables(r, m) = [sessions |-> Put(r.sessions, m.sid, ses), mappings |-> maps,
                               index |-> Indexed(r.index, m, Replaced(r, m))]
  BY DEF SpectatorTables, ses
<1> HIDE DEF maps
<1> QED
  BY <1>4, <1>5, <1>6, <1>7 DEF RelayOK

LEMMA SpectatorRegisteredType ==
  ASSUME NEW r, RelayOK(r), NEW m \in Message
  PROVE  RelayOK(SpectatorRegistered(r, m))
<1>1. RelayOK(SpectatorTables(r, m)) /\ {IpOf[m.addr]} \in SUBSET Ip
  BY SpectatorTablesType, AddressAssumption DEF Message
<1>2. m.sid \in DOMAIN SpectatorTables(r, m).sessions
  BY DEF SpectatorTables, Put
<1> QED
  BY <1>1, <1>2, SpectatorSteps, SetupSpectatorsType

-----------------------------------------------------------------------------
(* Type correctness *)

(* The registration of an announcement keeps the tables typed. *)
LEMMA RegisterPeerType ==
  ASSUME TypeOK, NEW m \in Announcement, RegisterPeer(m)
  PROVE  /\ IsPartial(sessions', Sid, Session)
         /\ IsPartial(mappings', Addr, Mapping)
         /\ IsPartial(index', Addr, Sid \cup {None})
<1>1. m \in Message
  BY AddressAssumption
<1>2. RelayOK(Relay)
  BY DEF TypeOK, RelayOK, Relay
<1>3. CASE m.role \in PeerRole
  <2>1. PICK r \in WithoutSpectator(Relay, m.addr) :
          \E new \in {IF store[m.sid] = "valid" THEN PeerRegistered(r, m) ELSE r} : Become(new)
    BY <1>3 DEF RegisterPeer, PeerRole
  <2>2. RelayOK(r) /\ RelayOK(PeerRegistered(r, m))
    BY <1>1, <1>2, <1>3, WithoutSpectatorType, PeerRegisteredType
  <2> QED
    BY <2>1, <2>2 DEF Become, RelayOK
<1>4. CASE m.role = "spectator"
  <2>1. RelayOK(SpectatorRegistered(Relay, m))
    BY <1>1, <1>2, SpectatorRegisteredType
  <2> QED
    BY <1>2, <1>4, <2>1 DEF RegisterPeer, Become, RelayOK, PeerRole
<1> QED
  BY <1>1, <1>3, <1>4 DEF Message, Role

(* So does the cleanup. *)
LEMMA CleanupSessionsType ==
  ASSUME TypeOK, CleanupSessions
  PROVE  /\ IsPartial(sessions', Sid, Session)
         /\ IsPartial(mappings', Addr, Mapping)
         /\ IsPartial(index', Addr, Sid \cup {None})
<1>1. RelayOK(Relay)
  BY DEF TypeOK, RelayOK, Relay
<1>2. RelayOK(DropEmptySessions(ExpireSpectators(ExpireRoles(Relay, expired))))
  BY <1>1, ExpireRolesType, ExpireSpectatorsType, DropEmptySessionsType
<1> QED
  BY <1>2 DEF CleanupSessions, Become, RelayOK

(* Ages keep within their bounds. *)
LEMMA TickType ==
  ASSUME TypeOK, Tick
  PROVE  /\ IsPartial(sessions', Sid, Session)
         /\ IsPartial(mappings', Addr, Mapping)
<1>1. ASSUME NEW n \in Nat, NEW age \in 0 .. n + 1
      PROVE  Older(age, n) \in 0 .. n + 1
  BY DEF Older
<1>2. SpectatorTimeout \in Nat /\ Timeout \in Nat
  BY TimeoutAssumption
<1>3. ASSUME NEW s \in DOMAIN sessions
      PROVE  sessions'[s] \in Session
  <2> DEFINE spec == sessions[s].spectators
             older(i) == OlderSpectator(spec[i])
  <2>1. sessions[s] \in Session
    BY DEF TypeOK, IsPartial
  <2>2. ASSUME NEW i \in Ip
        PROVE  older(i) \in Spectator
    <3>1. spec[i] \in Spectator
      BY <2>1 DEF Session
    <3> HIDE DEF spec
    <3>2. Older(spec[i].age, SpectatorTimeout) \in SpectatorAge
      BY <1>1, <1>2, <3>1 DEF Spectator, SpectatorAge
    <3> QED
      BY <3>1, <3>2 DEF Spectator, OlderSpectator
  <2>3. Older(sessions[s].age, Timeout) \in Age
    BY <1>1, <1>2, <2>1 DEF Session, Age
  <2>4. sessions'[s] = [sessions[s] EXCEPT !.age = Older(sessions[s].age, Timeout),
                                            !.spectators = [i \in Ip |-> older(i)]]
    BY DEF Tick
  <2> HIDE DEF older, spec
  <2>5. [i \in Ip |-> older(i)] \in [Ip -> Spectator]
    BY <2>2
  <2> QED
    BY <2>1, <2>3, <2>4, <2>5 DEF Session
<1>4. ASSUME NEW a \in DOMAIN mappings
      PROVE  [mappings[a] EXCEPT !.age = Older(@, Timeout)] \in Mapping
  BY <1>1, <1>2 DEF TypeOK, IsPartial, Mapping, Age
<1>5. DOMAIN sessions' = DOMAIN sessions /\ sessions' = [s \in DOMAIN sessions |-> sessions'[s]]
  BY DEF Tick
<1>6. mappings' = [a \in DOMAIN mappings |-> [mappings[a] EXCEPT !.age = Older(@, Timeout)]]
  BY DEF Tick
<1>7. IsPartial(sessions', Sid, Session)
  BY <1>3, <1>5 DEF TypeOK, IsPartial
<1>8. IsPartial(mappings', Addr, Mapping)
  BY <1>4, <1>6 DEF TypeOK, IsPartial
<1> QED
  BY <1>7, <1>8

LEMMA TypeStep == TypeOK /\ [Next]_vars => TypeOK'
<1> SUFFICES ASSUME TypeOK, [Next]_vars
             PROVE  TypeOK'
  OBVIOUS
<1>1. ASSUME NEW m \in Announcement, Announce(m)
      PROVE  TypeOK'
  BY <1>1, RegisterPeerType DEF Announce, TypeOK, cleanup
<1>2. ASSUME NEW m \in Announcement, Connect(m)
      PROVE  TypeOK'
  <2>1. m.addr \in Addr
    BY AddressAssumption DEF Message
  <2>2. IsPartial(Put(tcp_targets, m.addr, TRUE), Addr, BOOLEAN)
    BY <2>1, PutType DEF TypeOK
  <2> QED
    BY <1>2, <2>2 DEF Connect, TypeOK, tables, cleanup
<1>3. ASSUME NEW m \in Announcement, RegisterTcpPeer(m)
      PROVE  TypeOK'
  BY <1>3, RegisterPeerType DEF RegisterTcpPeer, TypeOK, cleanup
<1>4. ASSUME NEW a \in Addr, Forward(a)
      PROVE  TypeOK'
  <2>1. a \in DOMAIN mappings /\ mappings[a] \in Mapping
    BY <1>4 DEF Forward, TypeOK, IsPartial
  <2>2. [mappings[a] EXCEPT !.age = 0] \in Mapping
    BY <2>1, TimeoutAssumption DEF Mapping, Age
  <2>3. IsPartial(mappings', Addr, Mapping)
    BY <1>4, <2>1, <2>2 DEF Forward, TypeOK, IsPartial
  <2> QED
    BY <1>4, <2>3 DEF Forward, TypeOK, cleanup
<1>5. ASSUME NEW a \in Addr, Heartbeat(a)
      PROVE  TypeOK'
  <2> DEFINE s == index[a]
             spec == sessions[s].spectators
  <2>1. CASE s \in DOMAIN sessions
    <3>1. sessions[s] \in Session /\ IpOf[a] \in Ip
      BY <2>1, AddressAssumption DEF TypeOK, IsPartial
    <3>2. [spec[IpOf[a]] EXCEPT !.age = 0] \in Spectator
      BY <3>1, TimeoutAssumption DEF Session, Spectator, SpectatorAge
    <3>3. [sessions[s] EXCEPT !.spectators[IpOf[a]].age = 0] \in Session
      BY <3>1, <3>2 DEF Session
    <3>4. IsPartial(sessions', Sid, Session)
      BY <1>5, <3>3 DEF Heartbeat, TypeOK, IsPartial
    <3> QED
      BY <1>5, <3>4 DEF Heartbeat, TypeOK, cleanup
  <2>2. CASE s \notin DOMAIN sessions
    <3>1. sessions' = sessions
      BY <1>5, <2>2 DEF Heartbeat, TypeOK, IsPartial
    <3> QED
      BY <1>5, <3>1 DEF Heartbeat, TypeOK, cleanup
  <2> QED
    BY <2>1, <2>2
<1>6. ASSUME NEW a \in Addr, Disconnect(a)
      PROVE  TypeOK'
  <2>1. IsPartial(tcp_targets', Addr, BOOLEAN)
    BY <1>6 DEF Disconnect, TypeOK, IsPartial
  <2> QED
    BY <1>6, <2>1 DEF Disconnect, TypeOK, tables, cleanup
<1>7. ASSUME Bot
      PROVE  TypeOK'
  BY <1>7 DEF Bot, CreateSession, UpdateSession, DeleteSession, TypeOK, tables, cleanup
<1>8. ASSUME CleanupDeadTcpTargets
      PROVE  TypeOK'
  <2>1. IsPartial(tcp_targets', Addr, BOOLEAN)
    BY <1>8, PopType DEF CleanupDeadTcpTargets, TypeOK
  <2> QED
    BY <1>8, <2>1 DEF CleanupDeadTcpTargets, TypeOK, tables
<1>9. ASSUME FindExpiredRoles
      PROVE  TypeOK'
  BY <1>9 DEF FindExpiredRoles, TypeOK, tables, IsPartial
<1>10. ASSUME CleanupSessions
       PROVE  TypeOK'
  BY <1>10, CleanupSessionsType DEF CleanupSessions, TypeOK
<1>11. ASSUME Tick
       PROVE  TypeOK'
  BY <1>11, TickType DEF Tick, TypeOK, cleanup
<1>12. CASE UNCHANGED vars
  BY <1>12 DEF vars, TypeOK
<1> QED
  BY <1>1, <1>2, <1>3, <1>4, <1>5, <1>6, <1>7, <1>8, <1>9, <1>10, <1>11, <1>12
  DEF Next, Client, Cleanup

LEMMA TypeInit == Init => TypeOK
<1>1. ASSUME NEW D, NEW R
      PROVE  IsPartial(<< >>, D, R)
  <2>1. DOMAIN << >> = {} /\ << >> = [x \in {} |-> x]
    OBVIOUS
  <2> QED
    BY <2>1 DEF IsPartial
<1> QED
  BY <1>1 DEF Init, TypeOK

(* The tables keep their types: in particular a mapping of a ready session *)
(* never has None for a target (_update_mappings pairs up four ports).     *)
THEOREM TypeCorrect == Spec => []TypeOK
<1> QED
  BY TypeInit, TypeStep, PTL DEF Spec

-----------------------------------------------------------------------------
(* TablesAgree and SpectatorsServed hold as long as clients are Settled:   *)
(* each address announces itself in one role, at one port, for one         *)
(* session.  A client may still move to other addresses, announce itself   *)
(* at any time and any number of times, and time out.  An address that     *)
(* goes from one session to another violates TablesAgree.                  *)
Settled == \A m, n \in Announcement : m.addr = n.addr => m = n

Sayable(role, p, a, s) ==
  [role |-> role, port |-> p, addr |-> a, sid |-> s] \in Announcement

(* All addresses in a session were announced for it. *)
Announced(ses, s) ==
  /\ \A role \in PeerRole, p \in PortType :
       ses.roles[role][p] # None => Sayable(role, p, ses.roles[role][p], s)
  /\ \A i \in Ip, p \in PortType :
       ses.spectators[i].ports[p] # None =>
         /\ Sayable("spectator", p, ses.spectators[i].ports[p], s)
         /\ IpOf[ses.spectators[i].ports[p]] = i
  /\ \A a \in ses.addresses : \E role \in Role, p \in PortType : Sayable(role, p, a, s)

SessionsAnnounced(r) == \A s \in DOMAIN r.sessions : Announced(r.sessions[s], s)

IndexAgrees(r) ==
  /\ \A a \in DOMAIN r.index :
       r.index[a] # None =>
         /\ r.index[a] \in DOMAIN r.sessions
         /\ a \in Addresses(r.sessions[r.index[a]].spectators[IpOf[a]].ports)
  /\ \A s \in DOMAIN r.sessions, i \in Ip :
       \A a \in Addresses(r.sessions[s].spectators[i].ports) :
         a \in DOMAIN r.index /\ r.index[a] = s

PeersMapped(r, s) ==
  IsReady(r.sessions[s]) =>
    \A a \in PeerAddresses(r.sessions[s]) :
      a \in DOMAIN r.mappings /\ Opposite(r.sessions[s].roles, a) \in r.mappings[a].targets

SpectatorsMapped(r, s, i) ==
  IsReady(r.sessions[s]) /\ IsComplete(r.sessions[s].spectators[i]) =>
    \A p \in PortType :
      LET streamer == r.sessions[s].roles["streamer"][p]
      IN  /\ streamer \in DOMAIN r.mappings
          /\ r.sessions[s].spectators[i].ports[p] \in r.mappings[streamer].targets

SessionMapped(r, s) == PeersMapped(r, s) /\ \A i \in Ip : SpectatorsMapped(r, s, i)

(* The tables agree, and do so because of what was announced. *)
Agreeing(r) ==
  /\ RelayOK(r)
  /\ SessionsAnnounced(r)
  /\ IndexAgrees(r)
  /\ \A s \in DOMAIN r.sessions : SessionMapped(r, s)

(* An address is that of one client, at one port of one session. *)
LEMMA OneUse ==
  ASSUME Settled, NEW k1, NEW p1, NEW a, NEW s1, NEW k2, NEW p2, NEW s2,
         Sayable(k1, p1, a, s1), Sayable(k2, p2, a, s2)
  PROVE  k1 = k2 /\ p1 = p2 /\ s1 = s2
<1> DEFINE m == [role |-> k1, port |-> p1, addr |-> a, sid |-> s1]
           n == [role |-> k2, port |-> p2, addr |-> a, sid |-> s2]
<1>1. m = n
  BY DEF Settled, Sayable
<1>2. m.role = n.role /\ m.port = n.port /\ m.sid = n.sid
  BY <1>1
<1> QED
  BY <1>2

(* The addresses a session maps: its peers' and those of its spectators.   *)
LEMMA MappedAddresses ==
  ASSUME NEW ses \in Session, NEW s, Announced(ses, s), IsReady(ses)
  PROVE  /\ \A a \in PeerAddresses(ses) :
              /\ \E k \in PeerRole, p \in PortType : a = ses.roles[k][p] /\ Sayable(k, p, a, s)
              /\ \E k \in PeerRole, p \in PortType : Sayable(k, p, Opposite(ses.roles, a), s)
         /\ \A p \in PortType : Sayable("streamer", p, ses.roles["streamer"][p], s)
<1>1. \A k \in PeerRole, p \in PortType : ses.roles[k][p] # None /\ Sayable(k, p, ses.roles[k][p], s)
  BY DEF IsReady, RoleReady, Announced
<1>2. ASSUME NEW a \in PeerAddresses(ses)
      PROVE  \E k \in PeerRole, p \in PortType : a = ses.roles[k][p]
  BY <1>2 DEF PeerAddresses, Addresses
<1>3. ASSUME NEW a
      PROVE  \E k \in PeerRole, p \in PortType : Opposite(ses.roles, a) = ses.roles[k][p]
  BY DEF Opposite, PeerRole, PortType
<1> QED
  BY <1>1, <1>2, <1>3 DEF PeerRole

(* A session stays mapped while its own roles and spectators are the same, *)
(* or have lost some, and its mappings lose nothing announced for it.      *)
LEMMA StaysMapped ==
  ASSUME NEW r, NEW q, NEW s, SessionMapped(r, s), r.sessions[s] \in Session,
         Announced(r.sessions[s], s), q.sessions[s] \in Session,
         IsReady(q.sessions[s]) => q.sessions[s].roles = r.sessions[s].roles,
         \A i \in Ip : IsComplete(q.sessions[s].spectators[i]) =>
           q.sessions[s].spectators[i].ports = r.sessions[s].spectators[i].ports,
         IsReady(q.sessions[s]) =>
           \A a \in PeerAddresses(r.sessions[s]) :
             a \in DOMAIN r.mappings =>
               /\ a \in DOMAIN q.mappings
               /\ \A k \in PeerRole, p \in PortType :
                    \A b \in r.mappings[a].targets :
                      Sayable(k, p, b, s) => b \in q.mappings[a].targets
               /\ \A i \in Ip, p \in PortType :
                    IsComplete(q.sessions[s].spectators[i])
                      /\ q.sessions[s].spectators[i].ports[p] \in r.mappings[a].targets
                      => q.sessions[s].spectators[i].ports[p] \in q.mappings[a].targets
  PROVE  SessionMapped(q, s)
<1> DEFINE ses == r.sessions[s]
           new == q.sessions[s]
<1> SUFFICES ASSUME IsReady(new)
             PROVE  SessionMapped(q, s)
  BY DEF SessionMapped, PeersMapped, SpectatorsMapped
<1>1. new.roles = ses.roles /\ IsReady(ses) /\ PeerAddresses(new) = PeerAddresses(ses)
  BY DEF IsReady, RoleReady, PeerAddresses
<1>2. PeersMapped(q, s)
  <2> SUFFICES ASSUME NEW a \in PeerAddresses(new)
               PROVE  /\ a \in DOMAIN q.mappings
                      /\ Opposite(new.roles, a) \in q.mappings[a].targets
    BY DEF PeersMapped
  <2>1. a \in DOMAIN r.mappings /\ Opposite(ses.roles, a) \in r.mappings[a].targets
    BY <1>1 DEF SessionMapped, PeersMapped
  <2>2. \E k \in PeerRole, p \in PortType : Sayable(k, p, Opposite(ses.roles, a), s)
    BY <1>1, MappedAddresses
  <2> QED
    BY <1>1, <2>1, <2>2
<1>3. ASSUME NEW i \in Ip
      PROVE  SpectatorsMapped(q, s, i)
  <2> SUFFICES ASSUME IsComplete(new.spectators[i]), NEW p \in PortType
               PROVE  /\ new.roles["streamer"][p] \in DOMAIN q.mappings
                      /\ new.spectators[i].ports[p] \in q.mappings[new.roles["streamer"][p]].targets
    BY DEF SpectatorsMapped
  <2>1. IsComplete(ses.spectators[i]) /\ new.spectators[i].ports = ses.spectators[i].ports
    BY DEF IsComplete
  <2>2. SpectatorsMapped(r, s, i)
    BY DEF SessionMapped
  <2>3. /\ ses.roles["streamer"][p] \in DOMAIN r.mappings
        /\ ses.spectators[i].ports[p] \in r.mappings[ses.roles["streamer"][p]].targets
    BY <1>1, <2>1, <2>2 DEF SpectatorsMapped
  <2>4. ses.roles["streamer"][p] \in PeerAddresses(ses)
    BY <1>1 DEF PeerAddresses, Addresses, IsReady, RoleReady, PeerRole
  <2> QED
    BY <1>1, <2>1, <2>3, <2>4
<1> QED
  BY <1>2, <1>3 DEF SessionMapped

(* What only changes ages changes nothing here. *)
LEMMA AgesOnly ==
  ASSUME NEW r, NEW q, Agreeing(r), RelayOK(q), q.index = r.index,
         DOMAIN q.sessions = DOMAIN r.sessions,
         \A s \in DOMAIN r.sessions :
           /\ q.sessions[s].roles = r.sessions[s].roles
           /\ q.sessions[s].addresses = r.sessions[s].addresses
           /\ \A i \in Ip : q.sessions[s].spectators[i].ports = r.sessions[s].spectators[i].ports,
         DOMAIN q.mappings = DOMAIN r.mappings,
         \A a \in DOMAIN r.mappings : q.mappings[a].targets = r.mappings[a].targets
  PROVE  Agreeing(q)
<1>1. SessionsAnnounced(q)
  BY DEF Agreeing, SessionsAnnounced, Announced
<1>2. IndexAgrees(q)
  <2>1. \A a \in DOMAIN r.index : IpOf[a] \in Ip
    BY AddressAssumption DEF Agreeing, RelayOK, IsPartial
  <2> QED
    BY <2>1 DEF Agreeing, IndexAgrees
<1>3. ASSUME NEW s \in DOMAIN q.sessions
      PROVE  SessionMapped(q, s)
  <2>1. SessionMapped(r, s) /\ Announced(r.sessions[s], s)
    BY DEF Agreeing, SessionsAnnounced
  <2>2. r.sessions[s] \in Session /\ q.sessions[s] \in Session
    BY DEF Agreeing, RelayOK, IsPartial
  <2> QED
    BY <2>1, <2>2, StaysMapped
<1> QED
  BY <1>1, <1>2, <1>3 DEF Agreeing

(* Setting up spectators only adds targets: each complete spectator's      *)
(* ports to those of the streamer.                                         *)
LEMMA SpectatorsSetUp ==
  ASSUME NEW r, RelayOK(r), NEW s \in DOMAIN r.sessions, NEW ips \in SUBSET Ip,
         IsReady(r.sessions[s]), NEW q, q = SetupSpectators(r, s, ips)
  PROVE  /\ q.sessions = r.sessions /\ q.index = r.index
         /\ \A a \in DOMAIN r.mappings :
              a \in DOMAIN q.mappings /\ r.mappings[a].targets \subseteq q.mappings[a].targets
         /\ \A i \in ips : SpectatorsMapped(q, s, i)
<1> DEFINE ses == r.sessions[s]
           complete == {i \in ips : IsComplete(ses.spectators[i])}
           watching(a) == {ses.spectators[i].ports[p] : i \in complete,
                             p \in {p \in PortType : ses.roles["streamer"][p] = a}}
           dom == DOMAIN r.mappings \cup {a \in StreamerAddresses(ses) : watching(a) # {}}
           target(a) == IF a \in DOMAIN r.mappings THEN r.mappings[a].targets ELSE {}
           new(a) == IF watching(a) = {} THEN r.mappings[a]
                     ELSE [targets |-> watching(a) \cup
                             (IF a \in DOMAIN r.mappings THEN r.mappings[a].targets ELSE {}),
                           age |-> 0]
           maps == [a \in dom |-> new(a)]
<1>1. q = [r EXCEPT !.mappings = maps]
  BY DEF SetupSpectators
<1>2. q.sessions = r.sessions /\ q.index = r.index /\ q.mappings = maps
  <2> HIDE DEF maps
  <2> QED
    BY <1>1 DEF RelayOK
<1>3. ASSUME NEW a
      PROVE  watching(a) \cup target(a) \subseteq new(a).targets
  <2> HIDE DEF watching
  <2> QED
    OBVIOUS
<1>4. DOMAIN maps = dom /\ \A a \in dom : maps[a] = new(a)
  <2> HIDE DEF new, dom
  <2> QED
    OBVIOUS
<1>5. ASSUME NEW a \in DOMAIN r.mappings
      PROVE  a \in DOMAIN maps /\ r.mappings[a].targets \subseteq maps[a].targets
  <2>1. a \in dom
    OBVIOUS
  <2>2. r.mappings[a].targets = target(a)
    OBVIOUS
  <2> HIDE DEF new, target, maps, watching, dom
  <2> QED
    BY <1>3, <1>4, <2>1, <2>2
<1>6. ASSUME NEW i \in ips
      PROVE  SpectatorsMapped(q, s, i)
  <2> SUFFICES ASSUME IsComplete(ses.spectators[i]), NEW p \in PortType
               PROVE  /\ ses.roles["streamer"][p] \in DOMAIN maps
                      /\ ses.spectators[i].ports[p] \in maps[ses.roles["streamer"][p]].targets
    <3> HIDE DEF maps
    <3> QED
      BY <1>2 DEF SpectatorsMapped
  <2> DEFINE a == ses.roles["streamer"][p]
  <2>1. ses.spectators[i].ports[p] \in watching(a)
    OBVIOUS
  <2>2. a \in StreamerAddresses(ses)
    BY DEF StreamerAddresses, Addresses, IsReady, RoleReady, PeerRole
  <2>3. a \in dom
    <3> HIDE DEF watching, a
    <3> QED
      BY <2>1, <2>2
  <2> HIDE DEF new, target, maps, watching, dom
  <2> QED
    BY <1>3, <1>4, <2>1, <2>3
<1> HIDE DEF maps
<1> QED
  BY <1>2, <1>5, <1>6

(* An address of one session is no address of another.                     *)
LEMMA ApartAddresses ==
  ASSUME Settled, NEW ses, NEW s, Announced(ses, s), NEW other, NEW t, Announced(other, t),
         s # t
  PROVE  ses.addresses \cap other.addresses = {}
<1> SUFFICES ASSUME NEW a \in ses.addresses, a \in other.addresses
             PROVE  FALSE
  OBVIOUS
<1>1. /\ \E k \in Role, p \in PortType : Sayable(k, p, a, s)
      /\ \E k \in Role, p \in PortType : Sayable(k, p, a, t)
  BY DEF Announced
<1> QED
  BY <1>1, OneUse

(* _update_mappings and _setup_spectator_mappings map a ready session, and *)
(* leave every other session as it is.                                     *)
LEMMA ReadyMapped ==
  ASSUME Settled, NEW r, RelayOK(r), SessionsAnnounced(r), IndexAgrees(r),
         NEW s \in DOMAIN r.sessions, IsReady(r.sessions[s]),
         \A t \in DOMAIN r.sessions \ {s} : SessionMapped(r, t)
  PROVE  Agreeing(SetupSpectators(UpdateMappings(r, s), s, Ip))
<1> DEFINE ses == r.sessions[s]
           u == UpdateMappings(r, s)
           q == SetupSpectators(u, s, Ip)
<1>1. Overwritten(r, s) = {}
  BY ApartAddresses DEF Overwritten, SessionsAnnounced
<1>2. u.sessions = r.sessions /\ u.index = r.index
  <2>1. Pop(r.sessions, {}) = r.sessions
    BY DEF Pop, Restrict, RelayOK, IsPartial
  <2>2. [a \in DOMAIN r.index |-> IF r.index[a] \in {} THEN None ELSE r.index[a]] = r.index
    BY DEF RelayOK, IsPartial
  <2> QED
    BY <1>1, <2>1, <2>2 DEF UpdateMappings
<1>3. /\ \A a \in PeerAddresses(ses) :
           a \in DOMAIN u.mappings /\ u.mappings[a].targets = {Opposite(ses.roles, a)}
      /\ \A a \in DOMAIN r.mappings :
           a \notin ses.addresses \cup PeerAddresses(ses) =>
             a \in DOMAIN u.mappings /\ u.mappings[a] = r.mappings[a]
  <2> DEFINE peers == PeerAddresses(ses)
             opp(a) == Opposite(ses.roles, a)
             age(a) == IF a \in DOMAIN r.mappings /\ r.mappings[a].targets = {opp(a)}
                       THEN r.mappings[a].age ELSE 0
             maps == [a \in (DOMAIN r.mappings \ ses.addresses) \cup peers |->
                       IF a \in peers THEN [targets |-> {opp(a)}, age |-> age(a)]
                       ELSE r.mappings[a]]
  <2>1. u.mappings = maps
    BY DEF UpdateMappings
  <2> HIDE DEF peers, opp, age, u
  <2>2. /\ \A a \in peers : a \in DOMAIN u.mappings /\ u.mappings[a].targets = {opp(a)}
        /\ \A a \in DOMAIN r.mappings : a \notin ses.addresses \cup peers =>
             a \in DOMAIN u.mappings /\ u.mappings[a] = r.mappings[a]
    BY <2>1
  <2> QED
    BY <2>2 DEF peers, opp
<1>4. RelayOK(u)
  BY UpdateMappingsType
<1>5. /\ q.sessions = r.sessions /\ q.index = r.index
      /\ \A a \in DOMAIN u.mappings :
           a \in DOMAIN q.mappings /\ u.mappings[a].targets \subseteq q.mappings[a].targets
      /\ \A i \in Ip : SpectatorsMapped(q, s, i)
  <2> HIDE DEF u
  <2> QED
    BY <1>2, <1>4, SpectatorsSetUp
<1>6. RelayOK(q)
  <2> HIDE DEF u
  <2> QED
    BY <1>2, <1>4, SetupSpectatorsType
<1> HIDE DEF u, q
<1>7. SessionMapped(q, s)
  BY <1>3, <1>5 DEF SessionMapped, PeersMapped
<1>8. ASSUME NEW t \in DOMAIN q.sessions, t # s
      PROVE  SessionMapped(q, t)
  <2> DEFINE other == r.sessions[t]
  <2>1. SessionMapped(r, t) /\ Announced(other, t) /\ Announced(ses, s)
    BY <1>5, <1>8 DEF SessionsAnnounced
  <2>2. other \in Session /\ q.sessions[t] = other /\ ses \in Session
    BY <1>5 DEF RelayOK, IsPartial
  <2>3. ASSUME IsReady(other), NEW a \in PeerAddresses(other)
        PROVE  a \notin ses.addresses \cup PeerAddresses(ses)
    <3>1. \E k \in PeerRole, p \in PortType : Sayable(k, p, a, t)
      BY <2>1, <2>2, <2>3, MappedAddresses
    <3>2. ASSUME NEW b \in ses.addresses \cup PeerAddresses(ses)
          PROVE  \E k \in Role, p \in PortType : Sayable(k, p, b, s)
      <4>1. CASE b \in ses.addresses
        BY <2>1, <4>1 DEF Announced
      <4>2. CASE b \in PeerAddresses(ses)
        BY <2>1, <2>2, <4>2, MappedAddresses DEF Role
      <4> QED
        BY <4>1, <4>2
    <3> QED
      BY <1>8, <3>1, <3>2, OneUse DEF Role
  <2>4. IsReady(other) => \A a \in PeerAddresses(other) : a \in DOMAIN r.mappings =>
          a \in DOMAIN q.mappings /\ r.mappings[a].targets \subseteq q.mappings[a].targets
    BY <1>3, <1>5, <2>3
  <2> HIDE DEF other
  <2> QED
    BY <2>1, <2>2, <2>4, StaysMapped DEF other
<1>9. SessionsAnnounced(q) /\ IndexAgrees(q)
  BY <1>5 DEF SessionsAnnounced, IndexAgrees
<1>10. Agreeing(q)
  BY <1>5, <1>6, <1>7, <1>8, <1>9 DEF Agreeing
<1> QED
  BY <1>10 DEF q, u

(* A new session was announced by nobody. *)
LEMMA SessionOfAnnounced ==
  ASSUME NEW r, SessionsAnnounced(r), NEW s
  PROVE  Announced(SessionOf(r, s), s)
BY DEF SessionsAnnounced, SessionOf, NewSession, Announced, NoPorts, NoSpectator

(* A registered peer leaves the tables in agreement (register_peer). *)
LEMMA PeerRegisteredAgrees ==
  ASSUME Settled, NEW r, Agreeing(r), NEW m \in Announcement, m.role \in PeerRole
  PROVE  Agreeing(PeerRegistered(r, m))
<1> DEFINE old == SessionOf(r, m.sid)
           ses == WithPeer(old, m)
           joined == [r EXCEPT !.sessions = Put(r.sessions, m.sid, ses)]
<1>1. m \in Message /\ m.sid \in Sid
  BY AddressAssumption DEF Message
<1>2. RelayOK(r) /\ old \in Session /\ Announced(old, m.sid)
  BY <1>1, SessionOfType, SessionOfAnnounced DEF Agreeing
<1>3. /\ ses \in Session /\ ses.spectators = old.spectators
      /\ ses.addresses = old.addresses \cup {m.addr}
      /\ \A k \in PeerRole, p \in PortType :
           ses.roles[k][p] = IF k = m.role /\ p = m.port THEN m.addr ELSE old.roles[k][p]
  <2>1. ses \in Session
    BY <1>1, <1>2, SessionWithRole
  <2> HIDE DEF old
  <2>2. m.role \in PeerRole /\ m.port \in PortType
    BY <1>1 DEF Message
  <2>3. old.roles \in [PeerRole -> Ports] /\ \A k \in PeerRole : DOMAIN old.roles[k] = PortType
    BY <1>2 DEF Session, Ports
  <2>4. \A k \in PeerRole, p \in PortType :
          ses.roles[k][p] = IF k = m.role /\ p = m.port THEN m.addr ELSE old.roles[k][p]
    BY <1>2, <2>2, <2>3 DEF Session, WithPeer
  <2> QED
    BY <1>2, <2>1, <2>4 DEF Session, WithPeer
<1>4. PeerRegistered(r, m) =
        IF IsReady(ses) THEN SetupSpectators(UpdateMappings(joined, m.sid), m.sid, Ip)
                        ELSE joined
  BY DEF PeerRegistered, WithPeer
<1> HIDE DEF ses
<1>5. /\ joined.sessions = Put(r.sessions, m.sid, ses)
      /\ joined.mappings = r.mappings /\ joined.index = r.index /\ RelayOK(joined)
  BY <1>1, <1>2, <1>3, PutType DEF RelayOK
<1>6. /\ DOMAIN joined.sessions = DOMAIN r.sessions \cup {m.sid}
      /\ joined.sessions[m.sid] = ses
      /\ \A t \in DOMAIN r.sessions : t # m.sid => joined.sessions[t] = r.sessions[t]
  BY <1>5 DEF Put
<1> HIDE DEF joined
<1>7. Announced(ses, m.sid)
  <2>1. Sayable(m.role, m.port, m.addr, m.sid) /\ m.port \in PortType /\ m.role \in Role
    BY <1>1 DEF Sayable, Message
  <2> HIDE DEF old
  <2> QED
    BY <1>2, <1>3, <2>1 DEF Announced
<1>8. SessionsAnnounced(joined)
  BY <1>6, <1>7 DEF Agreeing, SessionsAnnounced
<1>9. \A s \in DOMAIN joined.sessions, i \in Ip :
        joined.sessions[s].spectators[i].ports =
          IF s \in DOMAIN r.sessions THEN r.sessions[s].spectators[i].ports ELSE NoPorts
  BY <1>3, <1>6 DEF SessionOf, NewSession, NoSpectator
<1>10. IndexAgrees(joined)
  <2>1. \A a \in DOMAIN r.index : IpOf[a] \in Ip
    BY <1>2, AddressAssumption DEF RelayOK, IsPartial
  <2>2. Addresses(NoPorts) = {}
    BY DEF Addresses, NoPorts
  <2> QED
    BY <1>5, <1>6, <1>9, <2>1, <2>2 DEF Agreeing, IndexAgrees
<1>11. \A t \in DOMAIN joined.sessions \ {m.sid} : SessionMapped(joined, t)
  BY <1>5, <1>6 DEF Agreeing, SessionMapped, PeersMapped, SpectatorsMapped
<1>12. CASE IsReady(ses)
  BY <1>4, <1>5, <1>6, <1>8, <1>10, <1>11, <1>12, ReadyMapped
<1>13. CASE ~IsReady(ses)
  <2>1. SessionMapped(joined, m.sid)
    BY <1>6, <1>13 DEF SessionMapped, PeersMapped, SpectatorsMapped
  <2> QED
    BY <1>4, <1>5, <1>8, <1>10, <1>11, <1>13, <2>1 DEF Agreeing
<1> QED
  BY <1>12, <1>13

(* The address of a peer is that of no spectator.                          *)
LEMMA PeerSpectatesNowhere ==
  ASSUME Settled, NEW r, Agreeing(r), NEW m \in Announcement, m.role \in PeerRole
  PROVE  WithoutSpectator(r, m.addr) = {r}
<1>1. m \in Message /\ IpOf[m.addr] \in Ip
  BY AddressAssumption DEF Message
<1>2. ASSUME NEW s \in Spectating(r, m.addr)
      PROVE  FALSE
  <2>1. Announced(r.sessions[s], s)
    BY DEF Agreeing, SessionsAnnounced, Spectating
  <2>2. \E p \in PortType : Sayable("spectator", p, m.addr, s)
    BY <1>1, <2>1 DEF Spectating, Addresses, Announced
  <2>3. Sayable(m.role, m.port, m.addr, m.sid)
    BY <1>1 DEF Sayable, Message
  <2> QED
    BY <2>2, <2>3, OneUse DEF PeerRole
<1> QED
  BY <1>2 DEF WithoutSpectator

(* More targets unmap nothing. *)
LEMMA MoreTargets ==
  ASSUME NEW r, NEW q, NEW s, q.sessions = r.sessions,
         \A a \in DOMAIN r.mappings :
           a \in DOMAIN q.mappings /\ r.mappings[a].targets \subseteq q.mappings[a].targets
  PROVE  /\ PeersMapped(r, s) => PeersMapped(q, s)
         /\ \A i \in Ip : SpectatorsMapped(r, s, i) => SpectatorsMapped(q, s, i)
BY DEF PeersMapped, SpectatorsMapped

(* A registered spectator leaves the tables in agreement, also one that    *)
(* announces itself from another address than before (register_peer).      *)
LEMMA SpectatorRegisteredAgrees ==
  ASSUME Settled, NEW r, Agreeing(r), NEW m \in Announcement, m.role = "spectator"
  PROVE  Agreeing(SpectatorRegistered(r, m))
<1> DEFINE i == IpOf[m.addr]
           before == SessionOf(r, m.sid)
           replaced == Replaced(r, m)
           ses == WithSpectator(r, m)
           joined == SpectatorTables(r, m)
<1>1. /\ m \in Message /\ m.sid \in Sid /\ m.port \in PortType /\ m.addr # None /\ i \in Ip
      /\ Sayable("spectator", m.port, m.addr, m.sid)
  BY AddressAssumption DEF Message, Sayable
<1>2. RelayOK(r) /\ before \in Session /\ Announced(before, m.sid)
  BY <1>1, SessionOfType, SessionOfAnnounced DEF Agreeing
<1>3. /\ ses.roles = before.roles /\ ses.addresses = (before.addresses \cup {m.addr}) \ replaced
      /\ \A j \in Ip, p \in PortType :
           ses.spectators[j].ports[p] =
             IF j = i /\ p = m.port THEN m.addr ELSE before.spectators[j].ports[p]
  <2>1. before.spectators \in [Ip -> Spectator]
        /\ \A j \in Ip : DOMAIN before.spectators[j].ports = PortType
    BY <1>2 DEF Session, Spectator, Ports
  <2> HIDE DEF before, i
  <2> QED
    BY <1>1, <1>2, <2>1 DEF Session, WithSpectator, before, i
<1>4. \A b \in replaced : /\ Sayable("spectator", m.port, b, m.sid) /\ IpOf[b] = i
                          /\ b # m.addr /\ b # None
  BY <1>1, <1>2 DEF Announced, Replaced
<1>5. RelayOK(joined)
  BY <1>1, <1>2, SpectatorTablesType
<1>6. SpectatorRegistered(r, m) =
        IF IsReady(ses) THEN SetupSpectators(joined, m.sid, {i}) ELSE joined
  BY SpectatorSteps
<1>7. /\ DOMAIN joined.sessions = DOMAIN r.sessions \cup {m.sid}
      /\ joined.sessions[m.sid] = ses
      /\ \A t \in DOMAIN r.sessions : t # m.sid => joined.sessions[t] = r.sessions[t]
  BY DEF SpectatorTables, Put
<1>8. ASSUME NEW a \in DOMAIN r.mappings
      PROVE  /\ a \in DOMAIN joined.mappings
             /\ r.mappings[a].targets \ replaced \subseteq joined.mappings[a].targets
  <2>1. r.mappings[a] \in Mapping
    BY <1>2 DEF RelayOK, IsPartial
  <2> QED
    BY <2>1 DEF Mapping, SpectatorTables
<1>9. /\ DOMAIN joined.index = (DOMAIN r.index \ replaced) \cup {m.addr}
      /\ joined.index[m.addr] = m.sid
      /\ \A a \in DOMAIN r.index \ replaced : a # m.addr => joined.index[a] = r.index[a]
  BY <1>2 DEF RelayOK, IsPartial, SpectatorTables, Indexed, Put, Pop, Restrict
<1>ports. \A s \in DOMAIN joined.sessions, j \in Ip, p \in PortType :
        joined.sessions[s].spectators[j].ports[p] =
          IF s = m.sid /\ j = i /\ p = m.port THEN m.addr
          ELSE IF s \in DOMAIN r.sessions THEN r.sessions[s].spectators[j].ports[p] ELSE None
  <2>1. \A j \in Ip, p \in PortType : before.spectators[j].ports[p] =
          IF m.sid \in DOMAIN r.sessions THEN r.sessions[m.sid].spectators[j].ports[p] ELSE None
    BY DEF SessionOf, NewSession, NoSpectator, NoPorts
  <2> HIDE DEF before, joined, ses, i
  <2> QED
    BY <1>3, <1>7, <2>1
<1> HIDE DEF joined, ses, i, replaced
<1>10. Announced(ses, m.sid)
  <2> HIDE DEF before
  <2>1. \A k \in PeerRole, p \in PortType :
          ses.roles[k][p] # None => Sayable(k, p, ses.roles[k][p], m.sid)
    BY <1>2, <1>3 DEF Announced
  <2>2. \A j \in Ip, p \in PortType : ses.spectators[j].ports[p] # None =>
          /\ Sayable("spectator", p, ses.spectators[j].ports[p], m.sid)
          /\ IpOf[ses.spectators[j].ports[p]] = j
    BY <1>1, <1>2, <1>3 DEF Announced, i
  <2>3. \A a \in ses.addresses : \E k \in Role, p \in PortType : Sayable(k, p, a, m.sid)
    BY <1>1, <1>2, <1>3 DEF Announced, Role
  <2> QED
    BY <2>1, <2>2, <2>3 DEF Announced
<1>11. SessionsAnnounced(joined)
  BY <1>7, <1>10 DEF Agreeing, SessionsAnnounced
<1>12. ASSUME NEW a \in DOMAIN joined.index, joined.index[a] # None
       PROVE  /\ joined.index[a] \in DOMAIN joined.sessions
              /\ a \in Addresses(joined.sessions[joined.index[a]].spectators[IpOf[a]].ports)
  <2>1. CASE a = m.addr
    <3>1. ses.spectators[i].ports[m.port] = m.addr
      BY <1>1, <1>3
    <3>2. m.addr \in Addresses(ses.spectators[i].ports)
      BY <1>1, <3>1 DEF Addresses
    <3> QED
      BY <1>7, <1>9, <2>1, <3>2 DEF i
  <2>2. CASE a # m.addr
    <3> DEFINE t == r.index[a]
    <3>1. a \in DOMAIN r.index \ replaced /\ joined.index[a] = t /\ t # None
      BY <1>9, <1>12, <2>2
    <3>2. t \in DOMAIN r.sessions /\ a \in Addresses(r.sessions[t].spectators[IpOf[a]].ports)
      BY <3>1 DEF Agreeing, IndexAgrees
    <3>3. CASE t # m.sid
      BY <1>7, <3>1, <3>2, <3>3
    <3>4. CASE t = m.sid
      <4>1. PICK p \in PortType : a = before.spectators[IpOf[a]].ports[p] /\ a # None
        BY <3>2, <3>4 DEF Addresses, SessionOf
      <4>2. IpOf[a] \in Ip
        BY <1>2, <3>1, AddressAssumption DEF RelayOK, IsPartial
      <4>3. ~(IpOf[a] = i /\ p = m.port)
        BY <2>2, <3>1, <4>1 DEF replaced, Replaced, i
      <4>4. ses.spectators[IpOf[a]].ports[p] = a
        BY <1>3, <4>1, <4>2, <4>3
      <4> QED
        BY <1>7, <3>1, <3>4, <4>1, <4>4 DEF Addresses
    <3> QED
      BY <3>3, <3>4
  <2> QED
    BY <2>1, <2>2
<1>13. ASSUME NEW s \in DOMAIN joined.sessions, NEW j \in Ip,
              NEW a \in Addresses(joined.sessions[s].spectators[j].ports)
       PROVE  a \in DOMAIN joined.index /\ joined.index[a] = s
  <2>1. PICK p \in PortType : a = joined.sessions[s].spectators[j].ports[p] /\ a # None
    BY DEF Addresses
  <2>2. Sayable("spectator", p, a, s) /\ IpOf[a] = j
    BY <1>11, <2>1 DEF SessionsAnnounced, Announced
  <2>3. a # m.addr => a \notin replaced
    <3> SUFFICES ASSUME a \in replaced
                 PROVE  FALSE
      OBVIOUS
    <3>1. p = m.port /\ s = m.sid /\ j = i /\ a # m.addr
      BY <1>4, <2>2, OneUse
    <3> QED
      BY <1>1, <1>ports, <2>1, <3>1
  <2>4. a = m.addr => s = m.sid
    BY <1>1, <2>2, OneUse
  <2>5. CASE a # m.addr
    <3>1. s \in DOMAIN r.sessions
      BY <1>ports, <2>1, <2>5
    <3>2. a \in Addresses(r.sessions[s].spectators[j].ports)
      <4>1. r.sessions[s].spectators[j].ports[p] = a
        BY <1>ports, <2>1, <2>5, <3>1
      <4> DEFINE old == r.sessions[s].spectators[j].ports
      <4>2. old[p] = a
        BY <4>1
      <4> HIDE DEF old
      <4>3. a \in Addresses(old)
        BY <2>1, <4>2 DEF Addresses
      <4> QED
        BY <4>3 DEF old
    <3>3. a \in DOMAIN r.index /\ r.index[a] = s
      BY <3>1, <3>2 DEF Agreeing, IndexAgrees
    <3> QED
      BY <1>9, <2>3, <2>5, <3>3
  <2> QED
    BY <1>9, <2>4, <2>5
<1>14. IndexAgrees(joined)
  BY <1>12, <1>13 DEF IndexAgrees
<1>15. ASSUME NEW t \in DOMAIN joined.sessions, t # m.sid
       PROVE  SessionMapped(joined, t)
  <2>1. /\ t \in DOMAIN r.sessions /\ joined.sessions[t] = r.sessions[t]
        /\ SessionMapped(r, t) /\ Announced(r.sessions[t], t)
    BY <1>7, <1>15 DEF Agreeing, SessionsAnnounced
  <2>2. r.sessions[t] \in Session
    BY <1>2, <2>1 DEF RelayOK, IsPartial
  <2>3. \A k \in Role, p \in PortType : \A b : Sayable(k, p, b, t) => b \notin replaced
    BY <1>4, <1>15, OneUse
  <2>4. ASSUME NEW a \in DOMAIN r.mappings
        PROVE  /\ \A k \in PeerRole, p \in PortType : \A b \in r.mappings[a].targets :
                    Sayable(k, p, b, t) => b \in joined.mappings[a].targets
               /\ \A j \in Ip, p \in PortType :
                    IsComplete(r.sessions[t].spectators[j])
                      /\ r.sessions[t].spectators[j].ports[p] \in r.mappings[a].targets
                      => r.sessions[t].spectators[j].ports[p] \in joined.mappings[a].targets
    <3>1. \A j \in Ip, p \in PortType : IsComplete(r.sessions[t].spectators[j]) =>
            Sayable("spectator", p, r.sessions[t].spectators[j].ports[p], t)
      BY <2>1 DEF Announced, IsComplete
    <3> QED
      BY <1>8, <2>3, <3>1 DEF Role
  <2>5. \A a \in DOMAIN r.mappings : a \in DOMAIN joined.mappings
    BY <1>8
  <2> QED
    BY <2>1, <2>2, <2>4, <2>5, StaysMapped
<1>16. CASE ~IsReady(ses)
  <2>1. SessionMapped(joined, m.sid)
    BY <1>7, <1>16 DEF SessionMapped, PeersMapped, SpectatorsMapped
  <2> QED
    BY <1>5, <1>6, <1>11, <1>14, <1>15, <1>16, <2>1 DEF Agreeing
<1>17. CASE IsReady(ses)
  <2> DEFINE q == SetupSpectators(joined, m.sid, {i})
  <2>1. m.sid \in DOMAIN r.sessions /\ before = r.sessions[m.sid]
    <3>1. ~IsReady(NewSession)
      BY DEF NewSession, NoPorts, IsReady, RoleReady, PeerRole, PortType
    <3>2. before.roles = NewSession.roles => ~IsReady(ses)
      BY <1>3, <3>1 DEF IsReady, RoleReady
    <3> QED
      BY <1>17, <3>2 DEF SessionOf
  <2>2. /\ IsReady(before) /\ PeerAddresses(ses) = PeerAddresses(before)
        /\ SessionMapped(r, m.sid)
    BY <1>3, <1>17, <2>1 DEF IsReady, RoleReady, PeerAddresses, Agreeing
  <2>3. PeersMapped(joined, m.sid)
    <3> SUFFICES ASSUME NEW a \in PeerAddresses(ses)
                 PROVE  /\ a \in DOMAIN joined.mappings
                        /\ Opposite(ses.roles, a) \in joined.mappings[a].targets
      BY <1>7 DEF PeersMapped
    <3>1. a \in DOMAIN r.mappings /\ Opposite(ses.roles, a) \in r.mappings[a].targets
      BY <1>3, <2>1, <2>2 DEF SessionMapped, PeersMapped
    <3>2. \E k \in PeerRole, p \in PortType : Sayable(k, p, Opposite(ses.roles, a), m.sid)
      BY <1>2, <1>3, <2>2, MappedAddresses
    <3>3. Opposite(ses.roles, a) \notin replaced
      BY <1>4, <3>2, OneUse DEF PeerRole
    <3> QED
      BY <1>8, <3>1, <3>3
  <2>4. ASSUME NEW j \in Ip, j # i
        PROVE  SpectatorsMapped(joined, m.sid, j)
    <3> SUFFICES ASSUME IsComplete(ses.spectators[j]), NEW p \in PortType
                 PROVE  /\ ses.roles["streamer"][p] \in DOMAIN joined.mappings
                        /\ ses.spectators[j].ports[p]
                             \in joined.mappings[ses.roles["streamer"][p]].targets
      BY <1>7 DEF SpectatorsMapped
    <3>1. ses.spectators[j].ports[p] = before.spectators[j].ports[p]
      BY <1>3, <2>4
    <3>2. IsComplete(before.spectators[j])
      BY <1>3, <2>4 DEF IsComplete
    <3>3. /\ ses.roles["streamer"][p] \in DOMAIN r.mappings
          /\ before.spectators[j].ports[p] \in r.mappings[ses.roles["streamer"][p]].targets
      <4>1. SpectatorsMapped(r, m.sid, j)
        BY <2>2 DEF SessionMapped
      <4> HIDE DEF before
      <4> QED
        BY <1>3, <2>1, <2>2, <3>2, <4>1 DEF SpectatorsMapped
    <3>4. before.spectators[j].ports[p] \notin replaced
      <4>1. IpOf[before.spectators[j].ports[p]] = j
        BY <1>2, <3>2 DEF Announced, IsComplete
      <4> QED
        BY <1>4, <2>4, <4>1
    <3> QED
      BY <1>8, <3>1, <3>3, <3>4
  <2>5. /\ q.sessions = joined.sessions /\ q.index = joined.index /\ SpectatorsMapped(q, m.sid, i)
        /\ \A a \in DOMAIN joined.mappings :
             a \in DOMAIN q.mappings /\ joined.mappings[a].targets \subseteq q.mappings[a].targets
    BY <1>1, <1>5, <1>7, <1>17, SpectatorsSetUp
  <2>6. RelayOK(q)
    BY <1>1, <1>5, <1>7, SetupSpectatorsType
  <2> HIDE DEF q
  <2>7. SessionMapped(q, m.sid)
    BY <2>3, <2>4, <2>5, MoreTargets DEF SessionMapped
  <2>8. \A t \in DOMAIN q.sessions : SessionMapped(q, t)
    BY <1>15, <2>5, <2>7, MoreTargets DEF SessionMapped
  <2>9. SessionsAnnounced(q) /\ IndexAgrees(q)
    BY <1>11, <1>14, <2>5 DEF SessionsAnnounced, IndexAgrees
  <2> QED
    BY <1>6, <1>17, <2>6, <2>8, <2>9 DEF Agreeing, q
<1> QED
  BY <1>16, <1>17

(* A role that expires takes its session's mappings with it, and no others *)
(* (cleanup_expired_mappings).                                             *)
LEMMA ExpireRolesAgrees ==
  ASSUME Settled, NEW r, Agreeing(r), NEW gone
  PROVE  Agreeing(ExpireRoles(r, gone))
<1> DEFINE dropped(s) == UNION {Addresses(r.sessions[s].roles[role]) :
                                  role \in {role \in PeerRole : <<s, role>> \in gone}}
           roles(s) == [role \in PeerRole |->
                          IF <<s, role>> \in gone THEN NoPorts ELSE r.sessions[s].roles[role]]
           kept(s) == [r.sessions[s] EXCEPT
                         !.roles = roles(s),
                         !.addresses = r.sessions[s].addresses \ dropped(s)]
           sess == [s \in DOMAIN r.sessions |-> kept(s)]
           all == UNION {dropped(s) : s \in DOMAIN r.sessions}
           q == ExpireRoles(r, gone)
<1>1. RelayOK(r) /\ RelayOK(q)
  BY ExpireRolesType DEF Agreeing
<1>2. q.sessions = sess /\ q.mappings = Pop(r.mappings, all) /\ q.index = r.index
  <2>1. q = [r EXCEPT !.sessions = sess, !.mappings = Pop(r.mappings, all)]
    BY DEF ExpireRoles
  <2> HIDE DEF sess, all, q
  <2> QED
    BY <1>1, <2>1 DEF RelayOK
<1>3. ASSUME NEW s \in DOMAIN r.sessions
      PROVE  /\ \A k \in PeerRole : q.sessions[s].roles[k] =
                  IF <<s, k>> \in gone THEN NoPorts ELSE r.sessions[s].roles[k]
             /\ q.sessions[s].spectators = r.sessions[s].spectators
             /\ q.sessions[s].addresses \subseteq r.sessions[s].addresses
  <2>1. r.sessions[s] \in Session
    BY <1>1 DEF RelayOK, IsPartial
  <2>2. q.sessions[s] = kept(s)
    <3> HIDE DEF kept, q
    <3> QED
      BY <1>2
  <2>3. \A k \in PeerRole : roles(s)[k] =
          IF <<s, k>> \in gone THEN NoPorts ELSE r.sessions[s].roles[k]
    OBVIOUS
  <2> HIDE DEF dropped, roles, q
  <2> QED
    BY <2>1, <2>2, <2>3 DEF Session
<1>4. DOMAIN q.sessions = DOMAIN r.sessions
  <2> HIDE DEF kept, q
  <2> QED
    BY <1>2
<1> HIDE DEF q, kept
<1>5. ASSUME NEW s \in DOMAIN r.sessions, NEW a \in dropped(s)
      PROVE  \E k \in PeerRole, p \in PortType : Sayable(k, p, a, s) /\ <<s, k>> \in gone
  <2>1. PICK k \in PeerRole : <<s, k>> \in gone /\ a \in Addresses(r.sessions[s].roles[k])
    OBVIOUS
  <2>2. Announced(r.sessions[s], s)
    BY DEF Agreeing, SessionsAnnounced
  <2> QED
    BY <2>1, <2>2 DEF Announced, Addresses
<1>6. \A a \in DOMAIN r.mappings \ all : a \in DOMAIN q.mappings /\ q.mappings[a] = r.mappings[a]
  <2> HIDE DEF all
  <2> QED
    BY <1>2 DEF Pop, Restrict
<1> HIDE DEF sess, all
<1>7. SessionsAnnounced(q)
  <2> SUFFICES ASSUME NEW s \in DOMAIN r.sessions
               PROVE  Announced(q.sessions[s], s)
    BY <1>4 DEF SessionsAnnounced
  <2>1. Announced(r.sessions[s], s)
    BY DEF Agreeing, SessionsAnnounced
  <2>2. \A k \in PeerRole, p \in PortType : q.sessions[s].roles[k][p] # None =>
          Sayable(k, p, q.sessions[s].roles[k][p], s)
    <3> SUFFICES ASSUME NEW k \in PeerRole, NEW p \in PortType,
                        q.sessions[s].roles[k][p] # None
                 PROVE  Sayable(k, p, q.sessions[s].roles[k][p], s)
      OBVIOUS
    <3>1. NoPorts[p] = None
      BY DEF NoPorts
    <3>2. q.sessions[s].roles[k] = r.sessions[s].roles[k]
      BY <1>3, <3>1
    <3> QED
      BY <2>1, <3>2 DEF Announced
  <2> QED
    BY <1>3, <2>1, <2>2 DEF Announced
<1>8. IndexAgrees(q)
  BY <1>2, <1>3, <1>4 DEF Agreeing, IndexAgrees
<1>9. ASSUME NEW s \in DOMAIN q.sessions
      PROVE  SessionMapped(q, s)
  <2> SUFFICES ASSUME IsReady(q.sessions[s])
               PROVE  SessionMapped(q, s)
    BY DEF SessionMapped, PeersMapped, SpectatorsMapped
  <2> DEFINE ses == r.sessions[s]
  <2>1. ses \in Session /\ q.sessions[s] \in Session /\ Announced(ses, s) /\ SessionMapped(r, s)
    BY <1>1, <1>4 DEF Agreeing, SessionsAnnounced, RelayOK, IsPartial
  <2>2. \A k \in PeerRole : <<s, k>> \notin gone
    <3> SUFFICES ASSUME NEW k \in PeerRole, <<s, k>> \in gone
                 PROVE  FALSE
      OBVIOUS
    <3>1. q.sessions[s].roles[k] = NoPorts /\ "video" \in PortType
      BY <1>3, <1>4 DEF PortType
    <3>2. NoPorts["video"] = None
      BY <3>1 DEF NoPorts
    <3> QED
      BY <3>1, <3>2 DEF IsReady, RoleReady
  <2>3. q.sessions[s].roles = ses.roles
    <3>1. ses.roles \in [PeerRole -> Ports] /\ q.sessions[s].roles \in [PeerRole -> Ports]
      BY <2>1 DEF Session
    <3>2. \A k \in PeerRole : q.sessions[s].roles[k] = ses.roles[k]
      BY <1>3, <1>4, <2>2
    <3> HIDE DEF ses
    <3> QED
      BY <3>1, <3>2
  <2>4. IsReady(ses)
    BY <2>3 DEF IsReady, RoleReady
  <2>5. ASSUME NEW a \in PeerAddresses(ses)
        PROVE  a \notin all
    <3>1. \E k \in PeerRole, p \in PortType : Sayable(k, p, a, s)
      BY <2>1, <2>4, MappedAddresses
    <3>2. ASSUME NEW t \in DOMAIN r.sessions, a \in dropped(t)
          PROVE  FALSE
      <4>1. t = s
        <5>1. \E k \in PeerRole, p \in PortType : Sayable(k, p, a, t)
          BY <1>5, <3>2
        <5> QED
          BY <3>1, <5>1, OneUse
      <4> QED
        BY <1>5, <2>2, <3>2, <4>1
    <3> HIDE DEF dropped
    <3> QED
      BY <3>2 DEF all
  <2>6. \A a \in PeerAddresses(ses) : a \in DOMAIN r.mappings =>
          a \in DOMAIN q.mappings /\ q.mappings[a] = r.mappings[a]
    BY <1>6, <2>5
  <2> QED
    BY <1>3, <1>4, <2>1, <2>3, <2>6, StaysMapped
<1>10. Agreeing(q)
  BY <1>1, <1>7, <1>8, <1>9 DEF Agreeing
<1> QED
  BY <1>10 DEF q

(* Removed spectators go from the session, the index and the targets of    *)
(* its streamer, and everyone else stays.                                  *)
LEMMA RemoveSpectatorsAgrees ==
  ASSUME Settled, NEW r, Agreeing(r), NEW gone \in [DOMAIN r.sessions -> SUBSET Ip]
  PROVE  Agreeing(RemoveSpectators(r, gone))
<1> DEFINE lost == [s \in DOMAIN r.sessions |->
                 UNION {Addresses(r.sessions[s].spectators[i].ports) : i \in gone[s]}]
           all == UNION {lost[s] : s \in DOMAIN r.sessions}
           unmapped(a) == UNION {lost[s] : s \in
                       {s \in DOMAIN r.sessions : a \in StreamerAddresses(r.sessions[s])}}
           specs(s) == [i \in Ip |-> IF i \in gone[s] THEN NoSpectator
                                     ELSE r.sessions[s].spectators[i]]
           kept(s) == [r.sessions[s] EXCEPT
                         !.spectators = specs(s),
                         !.addresses = r.sessions[s].addresses \ lost[s]]
           sess == [s \in DOMAIN r.sessions |-> kept(s)]
           cut(a) == [r.mappings[a] EXCEPT !.targets = @ \ unmapped(a)]
           maps == [a \in DOMAIN r.mappings |-> cut(a)]
           q == RemoveSpectators(r, gone)
<1>1. RelayOK(r) /\ RelayOK(q)
  BY RemoveSpectatorsType DEF Agreeing
<1>2. q.sessions = sess /\ q.mappings = maps /\ q.index = Pop(r.index, all)
  BY DEF RemoveSpectators
<1>3. ASSUME NEW s \in DOMAIN r.sessions
      PROVE  /\ q.sessions[s].roles = r.sessions[s].roles
             /\ \A i \in Ip : q.sessions[s].spectators[i] =
                  IF i \in gone[s] THEN NoSpectator ELSE r.sessions[s].spectators[i]
             /\ q.sessions[s].addresses \subseteq r.sessions[s].addresses
  <2>1. r.sessions[s] \in Session
    BY <1>1 DEF RelayOK, IsPartial
  <2>2. q.sessions[s] = kept(s)
    <3> HIDE DEF kept, q
    <3> QED
      BY <1>2
  <2>3. \A i \in Ip : specs(s)[i] =
          IF i \in gone[s] THEN NoSpectator ELSE r.sessions[s].spectators[i]
    OBVIOUS
  <2> HIDE DEF lost, specs, q
  <2> QED
    BY <2>1, <2>2, <2>3 DEF Session
<1>4. DOMAIN q.sessions = DOMAIN r.sessions
  <2> HIDE DEF kept, q
  <2> QED
    BY <1>2
<1> HIDE DEF q, kept
<1>5. ASSUME NEW s \in DOMAIN r.sessions, NEW i \in gone[s],
             NEW a \in Addresses(r.sessions[s].spectators[i].ports)
      PROVE  a \in all
  <2>1. a \in lost[s]
    OBVIOUS
  <2> HIDE DEF lost
  <2> QED
    BY <2>1
<1>6. ASSUME NEW a \in all
      PROVE  \E s \in DOMAIN r.sessions, p \in PortType :
               Sayable("spectator", p, a, s) /\ IpOf[a] \in gone[s]
  <2>1. PICK s \in DOMAIN r.sessions : a \in lost[s]
    <3> HIDE DEF lost
    <3> QED
      OBVIOUS
  <2>2. PICK i \in gone[s] : a \in Addresses(r.sessions[s].spectators[i].ports)
    BY <2>1
  <2>3. i \in Ip /\ Announced(r.sessions[s], s)
    BY DEF Agreeing, SessionsAnnounced
  <2> QED
    BY <2>2, <2>3 DEF Announced, Addresses
<1>7. ASSUME NEW a \in DOMAIN r.mappings
      PROVE  a \in DOMAIN q.mappings /\ r.mappings[a].targets \ all \subseteq q.mappings[a].targets
  <2>1. unmapped(a) \subseteq all
    <3> HIDE DEF lost
    <3> QED
      OBVIOUS
  <2>2. r.mappings[a] \in Mapping
    BY <1>1 DEF RelayOK, IsPartial
  <2>3. a \in DOMAIN q.mappings /\ q.mappings[a] = cut(a)
    <3> HIDE DEF cut
    <3> QED
      BY <1>2
  <2> HIDE DEF unmapped, all
  <2> QED
    BY <2>1, <2>2, <2>3 DEF Mapping
<1> HIDE DEF maps, cut, unmapped
<1>8. /\ DOMAIN q.index = DOMAIN r.index \ all
      /\ \A a \in DOMAIN r.index \ all : q.index[a] = r.index[a]
  <2> HIDE DEF all
  <2> QED
    BY <1>2 DEF Pop, Restrict
<1> HIDE DEF all, sess
<1>9. SessionsAnnounced(q)
  <2> SUFFICES ASSUME NEW s \in DOMAIN r.sessions
               PROVE  Announced(q.sessions[s], s)
    BY <1>4 DEF SessionsAnnounced
  <2>1. Announced(r.sessions[s], s)
    BY DEF Agreeing, SessionsAnnounced
  <2>2. \A i \in Ip, p \in PortType : q.sessions[s].spectators[i].ports[p] # None =>
          q.sessions[s].spectators[i] = r.sessions[s].spectators[i]
    BY <1>3 DEF NoSpectator, NoPorts
  <2> QED
    BY <1>3, <2>1, <2>2 DEF Announced
<1>10. ASSUME NEW s \in DOMAIN r.sessions, NEW i \in Ip, NEW p \in PortType,
              q.sessions[s].spectators[i].ports[p] # None
       PROVE  /\ q.sessions[s].spectators[i] = r.sessions[s].spectators[i]
              /\ q.sessions[s].spectators[i].ports[p] \notin all
  <2> DEFINE a == q.sessions[s].spectators[i].ports[p]
  <2>1. i \notin gone[s] /\ q.sessions[s].spectators[i] = r.sessions[s].spectators[i]
    BY <1>3, <1>10 DEF NoSpectator, NoPorts
  <2>2. Sayable("spectator", p, a, s) /\ IpOf[a] = i
    BY <1>4, <1>9, <1>10 DEF SessionsAnnounced, Announced
  <2>3. a \notin all
    BY <1>6, <2>1, <2>2, OneUse
  <2> QED
    BY <2>1, <2>3
<1>11. IndexAgrees(q)
  <2>1. ASSUME NEW a \in DOMAIN q.index, q.index[a] # None
        PROVE  /\ q.index[a] \in DOMAIN q.sessions
               /\ a \in Addresses(q.sessions[q.index[a]].spectators[IpOf[a]].ports)
    <3> DEFINE s == r.index[a]
    <3>1. a \in DOMAIN r.index \ all /\ q.index[a] = s
      BY <1>8
    <3>2. s \in DOMAIN r.sessions /\ a \in Addresses(r.sessions[s].spectators[IpOf[a]].ports)
      BY <2>1, <3>1 DEF Agreeing, IndexAgrees
    <3>3. IpOf[a] \in Ip /\ IpOf[a] \notin gone[s]
      BY <1>1, <1>5, <3>1, <3>2, AddressAssumption DEF RelayOK, IsPartial
    <3> QED
      BY <1>3, <1>4, <3>1, <3>2, <3>3
  <2>2. ASSUME NEW s \in DOMAIN q.sessions, NEW i \in Ip,
               NEW a \in Addresses(q.sessions[s].spectators[i].ports)
        PROVE  a \in DOMAIN q.index /\ q.index[a] = s
    <3>1. PICK p \in PortType : a = q.sessions[s].spectators[i].ports[p] /\ a # None
      BY DEF Addresses
    <3>2. q.sessions[s].spectators[i] = r.sessions[s].spectators[i] /\ a \notin all
      BY <1>4, <1>10, <3>1
    <3>3. a \in DOMAIN r.index /\ r.index[a] = s
      BY <1>4, <3>2 DEF Agreeing, IndexAgrees
    <3> QED
      BY <1>8, <3>2, <3>3
  <2> QED
    BY <2>1, <2>2 DEF IndexAgrees
<1>12. ASSUME NEW s \in DOMAIN q.sessions
       PROVE  SessionMapped(q, s)
  <2>1. /\ r.sessions[s] \in Session /\ q.sessions[s] \in Session
        /\ Announced(r.sessions[s], s) /\ SessionMapped(r, s)
    BY <1>1, <1>4 DEF Agreeing, SessionsAnnounced, RelayOK, IsPartial
  <2>2. \A k \in PeerRole, p \in PortType : \A b : Sayable(k, p, b, s) => b \notin all
    BY <1>6, OneUse DEF PeerRole
  <2>3. \A i \in Ip, p \in PortType : IsComplete(q.sessions[s].spectators[i]) =>
          /\ q.sessions[s].spectators[i] = r.sessions[s].spectators[i]
          /\ q.sessions[s].spectators[i].ports[p] \notin all
    BY <1>4, <1>10 DEF IsComplete
  <2>4. \A i \in Ip : IsComplete(q.sessions[s].spectators[i]) =>
          q.sessions[s].spectators[i].ports = r.sessions[s].spectators[i].ports
    BY <2>3 DEF PortType
  <2>5. q.sessions[s].roles = r.sessions[s].roles
    BY <1>3, <1>4
  <2>6. \A a \in DOMAIN r.mappings :
          /\ a \in DOMAIN q.mappings
          /\ \A k \in PeerRole, p \in PortType : \A b \in r.mappings[a].targets :
               Sayable(k, p, b, s) => b \in q.mappings[a].targets
          /\ \A i \in Ip, p \in PortType :
               IsComplete(q.sessions[s].spectators[i])
                 /\ q.sessions[s].spectators[i].ports[p] \in r.mappings[a].targets
                 => q.sessions[s].spectators[i].ports[p] \in q.mappings[a].targets
    BY <1>7, <2>2, <2>3
  <2> QED
    BY <2>1, <2>4, <2>5, <2>6, StaysMapped
<1>13. Agreeing(q)
  BY <1>1, <1>9, <1>11, <1>12 DEF Agreeing
<1> QED
  BY <1>13 DEF q

(* A spectator that is silent for too long is removed, or kept as long as  *)
(* its TCP connection is up.                                               *)
LEMMA ExpireSpectatorsAgrees ==
  ASSUME Settled, NEW r, Agreeing(r)
  PROVE  Agreeing(ExpireSpectators(r))
<1> DEFINE silent(s) == {i \in Ip : /\ ~IsEmpty(r.sessions[s])
                                   /\ r.sessions[s].spectators[i].age > SpectatorTimeout}
           onTcp(s) == {i \in silent(s) :
                 \E a \in Addresses(r.sessions[s].spectators[i].ports) : ActiveTcp(a)}
           gone == [s \in DOMAIN r.sessions |-> silent(s) \ onTcp(s)]
           removed == RemoveSpectators(r, gone)
           sess == [s \in DOMAIN removed.sessions |->
             [removed.sessions[s] EXCEPT !.spectators = [i \in Ip |->
                IF i \in onTcp(s) THEN [@[i] EXCEPT !.age = 0] ELSE @[i]]]]
           q == ExpireSpectators(r)
<1>1. Agreeing(removed)
  <2>1. gone \in [DOMAIN r.sessions -> SUBSET Ip]
    OBVIOUS
  <2> HIDE DEF gone
  <2> QED
    BY <2>1, RemoveSpectatorsAgrees
<1>2. q = [removed EXCEPT !.sessions = sess]
  BY DEF ExpireSpectators
<1>3. RelayOK(q)
  BY ExpireSpectatorsType DEF Agreeing
<1> HIDE DEF removed, onTcp, q
<1>4. q.sessions = sess /\ q.mappings = removed.mappings /\ q.index = removed.index
  <2> HIDE DEF sess
  <2> QED
    BY <1>1, <1>2 DEF Agreeing, RelayOK
<1>5. ASSUME NEW s \in DOMAIN removed.sessions
      PROVE  /\ q.sessions[s].roles = removed.sessions[s].roles
             /\ q.sessions[s].addresses = removed.sessions[s].addresses
             /\ \A i \in Ip : q.sessions[s].spectators[i].ports
                                = removed.sessions[s].spectators[i].ports
  <2>1. removed.sessions[s] \in Session
    BY <1>1 DEF Agreeing, RelayOK, IsPartial
  <2> QED
    BY <1>4, <2>1 DEF Session, Spectator
<1>6. DOMAIN q.sessions = DOMAIN removed.sessions
  BY <1>4
<1>7. Agreeing(q)
  <2> HIDE DEF sess
  <2> QED
    BY <1>1, <1>3, <1>4, <1>5, <1>6, AgesOnly
<1> QED
  BY <1>7 DEF q

(* A session without peers takes the index entries of its spectators with  *)
(* it.                                                                     *)
LEMMA DropEmptySessionsAgrees ==
  ASSUME Settled, NEW r, Agreeing(r)
  PROVE  Agreeing(DropEmptySessions(r))
<1> DEFINE empty == {s \in DOMAIN r.sessions : IsEmpty(r.sessions[s])}
           watchers == UNION {Addresses(r.sessions[s].spectators[i].ports) : s \in empty, i \in Ip}
           q == DropEmptySessions(r)
<1>1. RelayOK(r) /\ RelayOK(q)
  BY DropEmptySessionsType DEF Agreeing
<1>2. ASSUME NEW a
      PROVE  a \in watchers <=>
               \E s \in empty, i \in Ip : a \in Addresses(r.sessions[s].spectators[i].ports)
  <2> HIDE DEF empty
  <2> QED
    OBVIOUS
<1>3. /\ q.sessions = Pop(r.sessions, empty) /\ q.mappings = r.mappings
      /\ q.index = Pop(r.index, watchers)
  <2>1. q = [r EXCEPT !.sessions = Pop(r.sessions, empty), !.index = Pop(r.index, watchers)]
    BY DEF DropEmptySessions
  <2> HIDE DEF q, empty, watchers
  <2> QED
    BY <1>1, <2>1 DEF RelayOK
<1> HIDE DEF q, watchers, empty
<1>4. /\ DOMAIN q.sessions = DOMAIN r.sessions \ empty
      /\ \A s \in DOMAIN q.sessions : q.sessions[s] = r.sessions[s]
      /\ DOMAIN q.index = DOMAIN r.index \ watchers
      /\ \A a \in DOMAIN q.index : q.index[a] = r.index[a]
  BY <1>3 DEF Pop, Restrict
<1>5. SessionsAnnounced(q)
  BY <1>4 DEF Agreeing, SessionsAnnounced
<1>6. IndexAgrees(q)
  <2>1. ASSUME NEW a \in DOMAIN q.index, q.index[a] # None
        PROVE  /\ q.index[a] \in DOMAIN q.sessions
               /\ a \in Addresses(q.sessions[q.index[a]].spectators[IpOf[a]].ports)
    <3>1. /\ r.index[a] \in DOMAIN r.sessions
          /\ a \in Addresses(r.sessions[r.index[a]].spectators[IpOf[a]].ports)
          /\ IpOf[a] \in Ip
      BY <1>1, <1>4, <2>1, AddressAssumption DEF Agreeing, IndexAgrees, RelayOK, IsPartial
    <3> QED
      BY <1>2, <1>4, <3>1
  <2>2. ASSUME NEW s \in DOMAIN q.sessions, NEW i \in Ip,
               NEW a \in Addresses(q.sessions[s].spectators[i].ports)
        PROVE  a \in DOMAIN q.index /\ q.index[a] = s
    <3>1. a \in DOMAIN r.index /\ r.index[a] = s
      BY <1>4 DEF Agreeing, IndexAgrees
    <3>2. a \notin watchers
      <4> SUFFICES ASSUME NEW t \in empty, NEW j \in Ip,
                          a \in Addresses(r.sessions[t].spectators[j].ports)
                   PROVE  FALSE
        BY <1>2
      <4>1. r.index[a] = t
        BY DEF Agreeing, IndexAgrees, empty
      <4> QED
        BY <1>4, <3>1, <4>1
    <3> QED
      BY <1>4, <3>1, <3>2
  <2> QED
    BY <2>1, <2>2 DEF IndexAgrees
<1>7. \A s \in DOMAIN q.sessions : SessionMapped(q, s)
  BY <1>3, <1>4 DEF Agreeing, SessionMapped, PeersMapped, SpectatorsMapped
<1>8. Agreeing(q)
  BY <1>1, <1>5, <1>6, <1>7 DEF Agreeing
<1> QED
  BY <1>8 DEF q

(* The tables after a step. *)
NewRelay == [sessions |-> sessions', mappings |-> mappings', index |-> index']

LEMMA NewRelayType ==
  ASSUME TypeOK'
  PROVE  RelayOK(NewRelay)
<1>1. /\ IsPartial(sessions', Sid, Session)
      /\ IsPartial(mappings', Addr, Mapping)
      /\ IsPartial(index', Addr, Sid \cup {None})
  BY Zenon DEF TypeOK
<1> QED
  BY <1>1 DEF RelayOK, NewRelay

(* Time passes without a change of what the tables say. *)
LEMMA TickAgrees ==
  ASSUME TypeOK, Agreeing(Relay), Tick
  PROVE  Agreeing(NewRelay)
<1> DEFINE kept(s) == [sessions[s] EXCEPT
                         !.age = Older(sessions[s].age, Timeout),
                         !.spectators = [i \in Ip |-> OlderSpectator(sessions[s].spectators[i])]]
<1>1. RelayOK(NewRelay)
  BY TypeStep, NewRelayType DEF Next
<1>2. /\ sessions' = [s \in DOMAIN sessions |-> kept(s)] /\ index' = index
      /\ mappings' = [a \in DOMAIN mappings |-> [mappings[a] EXCEPT !.age = Older(@, Timeout)]]
  BY Zenon DEF Tick
<1>3. ASSUME NEW s \in DOMAIN sessions
      PROVE  /\ kept(s).roles = sessions[s].roles
             /\ kept(s).addresses = sessions[s].addresses
             /\ \A i \in Ip : kept(s).spectators[i].ports = sessions[s].spectators[i].ports
  <2>1. sessions[s] \in Session
    BY DEF TypeOK, IsPartial
  <2>2. \A i \in Ip : OlderSpectator(sessions[s].spectators[i]).ports
                        = sessions[s].spectators[i].ports
    BY <2>1 DEF OlderSpectator, Session, Spectator
  <2> QED
    BY <2>1, <2>2 DEF Session
<1>4. ASSUME NEW a \in DOMAIN mappings
      PROVE  [mappings[a] EXCEPT !.age = Older(@, Timeout)].targets = mappings[a].targets
  BY DEF TypeOK, IsPartial, Mapping
<1> HIDE DEF kept
<1>5. /\ DOMAIN sessions' = DOMAIN sessions /\ DOMAIN mappings' = DOMAIN mappings
      /\ \A s \in DOMAIN sessions : sessions'[s] = kept(s)
      /\ \A a \in DOMAIN mappings : mappings'[a].targets = mappings[a].targets
  BY <1>2, <1>4
<1> QED
  BY <1>1, <1>2, <1>3, <1>5, AgesOnly DEF Relay, NewRelay

(* So do a forwarded packet and a heartbeat. *)
LEMMA ForwardAgrees ==
  ASSUME TypeOK, Agreeing(Relay), NEW a \in Addr, Forward(a)
  PROVE  Agreeing(NewRelay)
<1>1. RelayOK(NewRelay)
  BY TypeStep, NewRelayType DEF Next, Client
<1>2. /\ sessions' = sessions /\ index' = index /\ DOMAIN mappings' = DOMAIN mappings
      /\ \A b \in DOMAIN mappings : mappings'[b].targets = mappings[b].targets
  BY DEF Forward, TypeOK, IsPartial, Mapping
<1> QED
  BY <1>1, <1>2, AgesOnly DEF Relay, NewRelay

LEMMA HeartbeatAgrees ==
  ASSUME TypeOK, Agreeing(Relay), NEW a \in Addr, Heartbeat(a)
  PROVE  Agreeing(NewRelay)
<1>1. RelayOK(NewRelay)
  BY TypeStep, NewRelayType DEF Next, Client
<1>2. /\ mappings' = mappings /\ index' = index /\ DOMAIN sessions' = DOMAIN sessions
      /\ sessions' = [sessions EXCEPT ![index[a]].spectators[IpOf[a]].age = 0]
  BY DEF Heartbeat
<1>3. ASSUME NEW s \in DOMAIN sessions
      PROVE  /\ sessions'[s].roles = sessions[s].roles
             /\ sessions'[s].addresses = sessions[s].addresses
             /\ \A i \in Ip : sessions'[s].spectators[i].ports = sessions[s].spectators[i].ports
  <2>1. sessions[s] \in Session
    BY DEF TypeOK, IsPartial
  <2> QED
    BY <1>2, <2>1 DEF Session, Spectator
<1>4. NewRelay.index = Relay.index /\ NewRelay.mappings = Relay.mappings
      /\ NewRelay.sessions = sessions' /\ Relay.sessions = sessions
  BY <1>2 DEF Relay, NewRelay
<1>5. \A s \in DOMAIN Relay.sessions :
        /\ NewRelay.sessions[s].roles = Relay.sessions[s].roles
        /\ NewRelay.sessions[s].addresses = Relay.sessions[s].addresses
        /\ \A i \in Ip : NewRelay.sessions[s].spectators[i].ports
                           = Relay.sessions[s].spectators[i].ports
  BY <1>3, <1>4
<1>6. DOMAIN NewRelay.sessions = DOMAIN Relay.sessions
  BY <1>2, <1>4
<1> QED
  BY <1>1, <1>4, <1>5, <1>6, AgesOnly

(* An announcement keeps the agreement, whoever it is from. *)
LEMMA RegisterPeerAgrees ==
  ASSUME Settled, TypeOK, Agreeing(Relay), NEW m \in Announcement, RegisterPeer(m)
  PROVE  Agreeing(NewRelay)
<1>1. \A r : Agreeing(r) /\ Become(r) => Agreeing(NewRelay)
  BY DEF Become, NewRelay, Agreeing, RelayOK
<1>2. CASE m.role \in PeerRole
  <2>1. PICK r \in WithoutSpectator(Relay, m.addr) :
          \E new \in {IF store[m.sid] = "valid" THEN PeerRegistered(r, m) ELSE r} : Become(new)
    BY <1>2 DEF RegisterPeer, PeerRole
  <2>2. r = Relay
    BY <1>2, <2>1, PeerSpectatesNowhere
  <2>3. Agreeing(PeerRegistered(r, m))
    BY <1>2, <2>2, PeerRegisteredAgrees
  <2> QED
    BY <1>1, <2>1, <2>2, <2>3
<1>3. CASE m.role = "spectator"
  <2>1. \E new \in {IF store[m.sid] = "valid" THEN SpectatorRegistered(Relay, m) ELSE Relay} :
          Become(new)
    BY <1>3 DEF RegisterPeer, PeerRole
  <2>2. Agreeing(SpectatorRegistered(Relay, m))
    BY <1>3, SpectatorRegisteredAgrees
  <2> QED
    BY <1>1, <2>1, <2>2
<1> QED
  BY <1>2, <1>3, AddressAssumption DEF Message, Role

Agreement == TypeOK /\ Agreeing(Relay)

LEMMA AgreementInit == Init => Agreement
<1> SUFFICES ASSUME Init
             PROVE  Agreement
  OBVIOUS
<1>1. TypeOK
  BY TypeInit
<1>2. RelayOK(Relay)
  BY <1>1 DEF TypeOK, RelayOK, Relay
<1>3. DOMAIN sessions = {} /\ DOMAIN index = {}
  <2>1. DOMAIN << >> = {}
    OBVIOUS
  <2> QED
    BY <2>1, Zenon DEF Init
<1> QED
  BY <1>1, <1>2, <1>3 DEF Agreement, Agreeing, SessionsAnnounced, IndexAgrees, Relay

LEMMA AgreementStep ==
  ASSUME Settled
  PROVE  Agreement /\ [Next]_vars => Agreement'
<1> SUFFICES ASSUME Agreement, [Next]_vars
             PROVE  Agreeing(NewRelay)
  <2>1. Relay' = NewRelay
    BY DEF Relay, NewRelay
  <2> QED
    BY <2>1, TypeStep DEF Agreement
<1> USE DEF Agreement
<1>1. UNCHANGED tables => Agreeing(NewRelay)
  <2>1. UNCHANGED tables => NewRelay = Relay
    BY DEF tables, Relay, NewRelay
  <2> QED
    BY <2>1
<1>2. ASSUME NEW m \in Announcement, Announce(m) \/ RegisterTcpPeer(m)
      PROVE  Agreeing(NewRelay)
  BY <1>2, RegisterPeerAgrees DEF Announce, RegisterTcpPeer
<1>3. ASSUME NEW m \in Announcement, Connect(m)
      PROVE  Agreeing(NewRelay)
  BY <1>1, <1>3 DEF Connect
<1>4. ASSUME NEW a \in Addr, Forward(a) \/ Heartbeat(a)
      PROVE  Agreeing(NewRelay)
  BY <1>4, ForwardAgrees, HeartbeatAgrees
<1>5. ASSUME NEW a \in Addr, Disconnect(a)
      PROVE  Agreeing(NewRelay)
  BY <1>1, <1>5 DEF Disconnect
<1>6. ASSUME Bot
      PROVE  Agreeing(NewRelay)
  BY <1>1, <1>6 DEF Bot, CreateSession, UpdateSession, DeleteSession
<1>7. ASSUME CleanupDeadTcpTargets \/ FindExpiredRoles
      PROVE  Agreeing(NewRelay)
  BY <1>1, <1>7, Zenon DEF CleanupDeadTcpTargets, FindExpiredRoles
<1>8. ASSUME CleanupSessions
      PROVE  Agreeing(NewRelay)
  <2> DEFINE r == DropEmptySessions(ExpireSpectators(ExpireRoles(Relay, expired)))
  <2>1. Agreeing(r)
    BY ExpireRolesAgrees, ExpireSpectatorsAgrees, DropEmptySessionsAgrees
  <2>2. Become(r)
    BY <1>8 DEF CleanupSessions
  <2> QED
    BY <2>1, <2>2 DEF Become, NewRelay, Agreeing, RelayOK
<1>9. ASSUME Tick
      PROVE  Agreeing(NewRelay)
  BY <1>9, TickAgrees
<1>10. CASE UNCHANGED vars
  <2>1. UNCHANGED tables
    BY <1>10 DEF vars, tables
  <2> QED
    BY <1>1, <2>1
<1>11. CASE Client
  BY <1>2, <1>3, <1>4, <1>5, <1>11, Zenon DEF Client
<1>12. CASE Cleanup
  BY <1>7, <1>8, <1>12, Zenon DEF Cleanup
<1> QED
  BY <1>6, <1>9, <1>10, <1>11, <1>12, Zenon DEF Next

(* The index knows every spectator and no one else, and a ready session's  *)
(* peers are mapped to each other, whoever announces, moves or expires     *)
(* (register_peer, cleanup_expired_mappings), as long as no address goes   *)
(* from one session or role to another.                                    *)
THEOREM TablesNeverDisagree ==
  ASSUME Settled
  PROVE  Spec => []TablesAgree
<1>1. Agreement => TablesAgree
  BY DEF Agreement, Agreeing, IndexAgrees, SessionMapped, PeersMapped, TablesAgree,
         IndexInSync, ReadyIsMapped, Relay
<1> QED
  BY <1>1, AgreementInit, AgreementStep, PTL DEF Spec

(* Every complete spectator of a ready session gets what its streamer      *)
(* sends, in whatever order they announced themselves and also after the   *)
(* streamer or the spectator has moved (_setup_spectator_mappings).        *)
THEOREM EverySpectatorServed ==
  ASSUME Settled
  PROVE  Spec => []SpectatorsServed
<1>1. Agreement => SpectatorsServed
  BY DEF Agreement, Agreeing, SessionMapped, SpectatorsMapped, SpectatorsServed, Relay
<1> QED
  BY <1>1, AgreementInit, AgreementStep, PTL DEF Spec

-----------------------------------------------------------------------------
(* Isolation of RelayForwarding.  It is not inductive: a mapping is made   *)
(* from the roles and the spectators of a session, so the strengthening    *)
(* Admitted adds that each address stored in a session was announced for   *)
(* it.                                                                     *)

Said(accepted, role, port, addr, sid) ==
  \E m \in accepted : m.role = role /\ m.port = port /\ m.addr = addr /\ m.sid = sid

SessionAdmitted(ses, sid, accepted) ==
  \A p \in PortType :
    /\ \A role \in PeerRole :
         ses.roles[role][p] # None => Said(accepted, role, p, ses.roles[role][p], sid)
    /\ \A i \in Ip :
         ses.spectators[i].ports[p] # None =>
           Said(accepted, "spectator", p, ses.spectators[i].ports[p], sid)

SessionsAdmitted(r, accepted) ==
  \A s \in DOMAIN r.sessions : SessionAdmitted(r.sessions[s], s, accepted)

MappingsAdmitted(r, accepted) ==
  \A a \in DOMAIN r.mappings : \A t \in r.mappings[a].targets : MayRelay(accepted, a, t)

TablesAdmitted(r, accepted) ==
  RelayOK(r) /\ SessionsAdmitted(r, accepted) /\ MappingsAdmitted(r, accepted)

Admitted ==
  /\ FTypeOK
  /\ TablesAdmitted(Relay, admitted)
  /\ \A t \in sending.targets : MayRelay(admitted, sending.from, t)

-----------------------------------------------------------------------------
(* More announcements allow no less. *)
LEMMA Monotone ==
  ASSUME NEW A, NEW B, A \subseteq B
  PROVE  /\ \A r : TablesAdmitted(r, A) => TablesAdmitted(r, B)
         /\ \A a, t : MayRelay(A, a, t) => MayRelay(B, a, t)
<1>1. \A a, t : MayRelay(A, a, t) => MayRelay(B, a, t)
  BY DEF MayRelay
<1>2. \A role, p, a, s : Said(A, role, p, a, s) => Said(B, role, p, a, s)
  BY DEF Said
<1>3. \A ses, s : SessionAdmitted(ses, s, A) => SessionAdmitted(ses, s, B)
  BY <1>2 DEF SessionAdmitted
<1> QED
  BY <1>1, <1>3 DEF TablesAdmitted, SessionsAdmitted, MappingsAdmitted

(* A session without entries needs no announcement. *)
LEMMA SessionOfAdmitted ==
  ASSUME NEW A, NEW r, TablesAdmitted(r, A), NEW s
  PROVE  SessionAdmitted(SessionOf(r, s), s, A)
<1>1. SessionAdmitted(NewSession, s, A)
  BY DEF SessionAdmitted, NewSession, NoPorts, NoSpectator
<1> QED
  BY <1>1 DEF SessionOf, TablesAdmitted, SessionsAdmitted

(* Removing entries of sessions, mappings and targets admits nothing new. *)
LEMMA RemoveSpectatorsAdmitted ==
  ASSUME NEW A, NEW r, TablesAdmitted(r, A), NEW gone
  PROVE  TablesAdmitted(RemoveSpectators(r, gone), A)
<1> DEFINE q == RemoveSpectators(r, gone)
<1>1. RelayOK(q)
  BY RemoveSpectatorsType DEF TablesAdmitted
<1>2. ASSUME NEW s \in DOMAIN r.sessions
      PROVE  SessionAdmitted(q.sessions[s], s, A)
  <2> DEFINE old == r.sessions[s]
  <2>1. old \in Session /\ SessionAdmitted(old, s, A)
    BY DEF TablesAdmitted, RelayOK, IsPartial, SessionsAdmitted
  <2>2. /\ q.sessions[s].roles = old.roles
        /\ q.sessions[s].spectators =
             [i \in Ip |-> IF i \in gone[s] THEN NoSpectator ELSE old.spectators[i]]
    BY <2>1 DEF RemoveSpectators, Session
  <2> HIDE DEF old, q
  <2> QED
    BY <2>1, <2>2 DEF SessionAdmitted, NoSpectator, NoPorts
<1>3. DOMAIN q.sessions = DOMAIN r.sessions
  BY DEF RemoveSpectators
<1>4. ASSUME NEW a \in DOMAIN r.mappings
      PROVE  q.mappings[a].targets \subseteq r.mappings[a].targets
  BY DEF RemoveSpectators, TablesAdmitted, RelayOK, IsPartial, Mapping
<1>5. DOMAIN q.mappings = DOMAIN r.mappings
  BY DEF RemoveSpectators
<1> HIDE DEF q
<1>6. SessionsAdmitted(q, A)
  BY <1>2, <1>3 DEF SessionsAdmitted
<1>7. MappingsAdmitted(q, A)
  BY <1>4, <1>5 DEF TablesAdmitted, MappingsAdmitted
<1> QED
  BY <1>1, <1>6, <1>7 DEF TablesAdmitted, q

LEMMA WithoutSpectatorAdmitted ==
  ASSUME NEW A, NEW r, TablesAdmitted(r, A), NEW a, NEW q \in WithoutSpectator(r, a)
  PROVE  TablesAdmitted(q, A)
<1>1. CASE Spectating(r, a) = {}
  BY <1>1 DEF WithoutSpectator
<1>2. CASE Spectating(r, a) # {}
  <2>1. PICK first : q = RemoveSpectators(r, [s \in DOMAIN r.sessions |->
                                                IF s = first THEN {IpOf[a]} ELSE {}])
    BY <1>2 DEF WithoutSpectator
  <2> QED
    BY <2>1, RemoveSpectatorsAdmitted
<1> QED
  BY <1>1, <1>2

(* The two ends of a port of one session may talk to each other: the code  *)
(* finds the opposite of an address by its port before its role.           *)
LEMMA OppositeAdmitted ==
  ASSUME NEW A, NEW ses \in Session, NEW s, SessionAdmitted(ses, s, A), IsReady(ses),
         NEW a \in PeerAddresses(ses)
  PROVE  MayRelay(A, a, Opposite(ses.roles, a))
<1> DEFINE port == IF \E role \in PeerRole : ses.roles[role]["control"] = a
                   THEN "control" ELSE "video"
<1>1. port \in PortType
  BY DEF PortType
<1>2. \E role \in PeerRole : ses.roles[role][port] = a
  BY DEF PeerAddresses, Addresses, PeerRole, PortType
<1>3. Opposite(ses.roles, a) = IF ses.roles["viewer"][port] = a
                               THEN ses.roles["streamer"][port] ELSE ses.roles["viewer"][port]
  BY DEF Opposite
<1> HIDE DEF port
<1>4. /\ Said(A, "streamer", port, ses.roles["streamer"][port], s)
      /\ Said(A, "viewer", port, ses.roles["viewer"][port], s)
  BY <1>1 DEF IsReady, RoleReady, SessionAdmitted, PeerRole
<1>5. CASE ses.roles["viewer"][port] = a
  BY <1>3, <1>4, <1>5 DEF Said, MayRelay
<1>6. CASE ses.roles["viewer"][port] # a
  <2>1. ses.roles["streamer"][port] = a
    BY <1>2, <1>6 DEF PeerRole
  <2> QED
    BY <1>3, <1>4, <1>6, <2>1 DEF Said, MayRelay
<1> QED
  BY <1>5, <1>6

LEMMA UpdateMappingsAdmitted ==
  ASSUME NEW A, NEW r, TablesAdmitted(r, A), NEW s \in DOMAIN r.sessions, IsReady(r.sessions[s])
  PROVE  TablesAdmitted(UpdateMappings(r, s), A)
<1> DEFINE q == UpdateMappings(r, s)
           ses == r.sessions[s]
<1>1. RelayOK(q)
  BY UpdateMappingsType DEF TablesAdmitted
<1>2. ses \in Session /\ SessionAdmitted(ses, s, A)
  BY DEF TablesAdmitted, RelayOK, IsPartial, SessionsAdmitted
<1>3. SessionsAdmitted(q, A)
  BY DEF UpdateMappings, Pop, Restrict, TablesAdmitted, SessionsAdmitted
<1>4. ASSUME NEW a \in DOMAIN q.mappings, NEW t \in q.mappings[a].targets
      PROVE  MayRelay(A, a, t)
  <2>1. CASE a \in PeerAddresses(ses)
    <3>1. q.mappings[a].targets = {Opposite(ses.roles, a)}
      BY <2>1 DEF UpdateMappings
    <3> HIDE DEF q, ses
    <3>2. IsReady(ses)
      BY DEF ses
    <3> QED
      BY <1>2, <1>4, <2>1, <3>1, <3>2, OppositeAdmitted
  <2>2. CASE a \notin PeerAddresses(ses)
    <3>1. a \in DOMAIN r.mappings /\ q.mappings[a] = r.mappings[a]
      BY <2>2 DEF UpdateMappings
    <3> QED
      BY <1>4, <3>1 DEF TablesAdmitted, MappingsAdmitted
  <2> QED
    BY <2>1, <2>2
<1> HIDE DEF q
<1>5. MappingsAdmitted(q, A)
  BY <1>4 DEF MappingsAdmitted
<1> QED
  BY <1>1, <1>3, <1>5 DEF TablesAdmitted, q

LEMMA SetupSpectatorsAdmitted ==
  ASSUME NEW A, NEW r, TablesAdmitted(r, A), NEW s \in DOMAIN r.sessions, NEW ips \in SUBSET Ip,
         IsReady(r.sessions[s])
  PROVE  TablesAdmitted(SetupSpectators(r, s, ips), A)
<1> DEFINE q == SetupSpectators(r, s, ips)
           ses == r.sessions[s]
           complete == {i \in ips : IsComplete(ses.spectators[i])}
           watching(a) == {ses.spectators[i].ports[p] : i \in complete,
                             p \in {p \in PortType : ses.roles["streamer"][p] = a}}
           dom == DOMAIN r.mappings \cup {a \in StreamerAddresses(ses) : watching(a) # {}}
           new(a) == IF watching(a) = {} THEN r.mappings[a]
                     ELSE [targets |-> watching(a) \cup
                             (IF a \in DOMAIN r.mappings THEN r.mappings[a].targets ELSE {}),
                           age |-> 0]
           maps == [a \in dom |-> new(a)]
<1>0. q = [r EXCEPT !.mappings = maps]
  BY DEF SetupSpectators
<1>1. RelayOK(q)
  BY SetupSpectatorsType DEF TablesAdmitted
<1>2. ses \in Session /\ SessionAdmitted(ses, s, A)
  BY DEF TablesAdmitted, RelayOK, IsPartial, SessionsAdmitted
<1>3. q.sessions = r.sessions
  BY DEF SetupSpectators, TablesAdmitted, RelayOK
<1>4. ASSUME NEW a, NEW t \in watching(a)
      PROVE  MayRelay(A, a, t)
  <2>1. PICK i \in complete, p \in PortType :
          ses.roles["streamer"][p] = a /\ t = ses.spectators[i].ports[p]
    BY <1>4
  <2>2. i \in Ip /\ ses.spectators[i].ports[p] # None
    BY <2>1 DEF IsComplete
  <2>3. ses.roles["streamer"][p] # None
    BY DEF IsReady, RoleReady, PeerRole
  <2>4. Said(A, "streamer", p, a, s) /\ Said(A, "spectator", p, t, s)
    BY <1>2, <2>1, <2>2, <2>3 DEF SessionAdmitted, PeerRole
  <2> QED
    BY <2>4 DEF Said, MayRelay
<1>5. ASSUME NEW a \in DOMAIN q.mappings, NEW t \in q.mappings[a].targets
      PROVE  t \in watching(a) \/ (a \in DOMAIN r.mappings /\ t \in r.mappings[a].targets)
  <2>1. q.mappings = maps
    <3> HIDE DEF q, maps
    <3> QED
      BY <1>0 DEF TablesAdmitted, RelayOK
  <2> HIDE DEF q, watching
  <2> QED
    BY <1>5, <2>1
<1> HIDE DEF q, watching, ses
<1>6. SessionsAdmitted(q, A)
  BY <1>3 DEF TablesAdmitted, SessionsAdmitted
<1>7. MappingsAdmitted(q, A)
  BY <1>4, <1>5 DEF TablesAdmitted, MappingsAdmitted
<1> QED
  BY <1>1, <1>6, <1>7 DEF TablesAdmitted, q

LEMMA PeerRegisteredAdmitted ==
  ASSUME NEW A, NEW r, TablesAdmitted(r, A), NEW m \in Message, m.role \in PeerRole, m \in A
  PROVE  TablesAdmitted(PeerRegistered(r, m), A)
<1> DEFINE old == SessionOf(r, m.sid)
           ses == WithPeer(old, m)
           joined == [r EXCEPT !.sessions = Put(r.sessions, m.sid, ses)]
<1>1. PeerRegistered(r, m) =
        IF IsReady(ses) THEN SetupSpectators(UpdateMappings(joined, m.sid), m.sid, Ip)
                        ELSE joined
  BY DEF PeerRegistered, WithPeer
<1>2. old \in Session /\ SessionAdmitted(old, m.sid, A)
  BY SessionOfType, SessionOfAdmitted DEF Message, TablesAdmitted
<1>3. ses \in Session
  BY <1>2, SessionWithRole
<1>4. SessionAdmitted(ses, m.sid, A)
  <2>1. /\ ses.spectators = old.spectators
        /\ \A role \in PeerRole, p \in PortType :
             ses.roles[role][p] = IF role = m.role /\ p = m.port THEN m.addr
                                                                 ELSE old.roles[role][p]
    BY <1>2 DEF Session, Ports, WithPeer
  <2>2. Said(A, m.role, m.port, m.addr, m.sid)
    BY DEF Said
  <2> HIDE DEF ses, old
  <2> QED
    BY <1>2, <2>1, <2>2 DEF SessionAdmitted
<1> HIDE DEF ses
<1>5. /\ joined.sessions = Put(r.sessions, m.sid, ses)
      /\ joined.mappings = r.mappings
      /\ joined.index = r.index
      /\ joined = [sessions |-> joined.sessions, mappings |-> joined.mappings,
                   index |-> joined.index]
  BY DEF TablesAdmitted, RelayOK
<1> HIDE DEF joined
<1>6. RelayOK(joined)
  BY <1>3, <1>5, PutType DEF TablesAdmitted, RelayOK, Message
<1>7. TablesAdmitted(joined, A)
  BY <1>4, <1>5, <1>6 DEF TablesAdmitted, SessionsAdmitted, MappingsAdmitted, Put
<1>8. m.sid \in DOMAIN joined.sessions /\ joined.sessions[m.sid] = ses
  BY <1>5 DEF Put
<1>9. ASSUME IsReady(ses)
      PROVE  LET q == UpdateMappings(joined, m.sid)
             IN TablesAdmitted(q, A) /\ m.sid \in DOMAIN q.sessions /\ q.sessions[m.sid] = ses
  <2>1. TablesAdmitted(UpdateMappings(joined, m.sid), A)
    BY <1>7, <1>8, <1>9, UpdateMappingsAdmitted
  <2>2. UpdateMappings(joined, m.sid).sessions = Pop(joined.sessions, Overwritten(joined, m.sid))
    BY DEF UpdateMappings
  <2>3. m.sid \notin Overwritten(joined, m.sid)
    BY DEF Overwritten
  <2> QED
    BY <1>8, <2>1, <2>2, <2>3 DEF Pop, Restrict
<1> QED
  BY <1>1, <1>7, <1>9, SetupSpectatorsAdmitted

LEMMA SpectatorRegisteredAdmitted ==
  ASSUME NEW A, NEW r, TablesAdmitted(r, A), NEW m \in Message, m.role = "spectator", m \in A
  PROVE  TablesAdmitted(SpectatorRegistered(r, m), A)
<1> DEFINE i == IpOf[m.addr]
           before == SessionOf(r, m.sid)
           ses == WithSpectator(r, m)
           joined == SpectatorTables(r, m)
<1>1. i \in Ip /\ before \in Session /\ SessionAdmitted(before, m.sid, A)
  BY AddressAssumption, SessionOfType, SessionOfAdmitted DEF Message, TablesAdmitted
<1>2. RelayOK(joined)
  BY SpectatorTablesType DEF TablesAdmitted
<1>3. SessionAdmitted(ses, m.sid, A)
  <2>1. ses = [before EXCEPT
                 !.spectators[i] = [ports |-> [@.ports EXCEPT ![m.port] = m.addr], age |-> 0],
                 !.addresses = (@ \cup {m.addr}) \ Replaced(r, m)]
    BY DEF WithSpectator
  <2>2. Said(A, "spectator", m.port, m.addr, m.sid)
    BY DEF Said
  <2> HIDE DEF ses, before, i
  <2>3. before.spectators[i] \in Spectator
    BY <1>1 DEF Session
  <2>4. /\ ses.roles = before.roles
        /\ \A j \in Ip, p \in PortType :
             ses.spectators[j].ports[p] = IF j = i /\ p = m.port THEN m.addr
                                                            ELSE before.spectators[j].ports[p]
    BY <1>1, <2>1, <2>3 DEF Session, Spectator, Ports
  <2> QED
    BY <1>1, <2>2, <2>4 DEF SessionAdmitted
<1>4. SessionsAdmitted(joined, A)
  <2>1. joined.sessions = Put(r.sessions, m.sid, ses)
    BY DEF SpectatorTables
  <2> HIDE DEF joined, ses
  <2> QED
    BY <1>3, <2>1 DEF TablesAdmitted, SessionsAdmitted, Put
<1>5. MappingsAdmitted(joined, A)
  <2>1. ASSUME NEW a \in DOMAIN r.mappings
        PROVE  joined.mappings[a].targets \subseteq r.mappings[a].targets
    BY DEF SpectatorTables, TablesAdmitted, RelayOK, IsPartial, Mapping
  <2>2. DOMAIN joined.mappings = DOMAIN r.mappings
    BY DEF SpectatorTables
  <2> HIDE DEF joined
  <2> QED
    BY <2>1, <2>2 DEF TablesAdmitted, MappingsAdmitted
<1>6. m.sid \in DOMAIN joined.sessions /\ joined.sessions[m.sid] = ses
  BY DEF SpectatorTables, Put
<1>7. TablesAdmitted(joined, A)
  BY <1>2, <1>4, <1>5 DEF TablesAdmitted
<1> HIDE DEF joined, ses
<1>8. {i} \in SUBSET Ip
  BY <1>1
<1> QED
  BY <1>6, <1>7, <1>8, SpectatorSteps, SetupSpectatorsAdmitted DEF joined, ses

LEMMA ExpireRolesAdmitted ==
  ASSUME NEW A, NEW r, TablesAdmitted(r, A), NEW gone
  PROVE  TablesAdmitted(ExpireRoles(r, gone), A)
<1> DEFINE q == ExpireRoles(r, gone)
<1>1. RelayOK(q)
  BY ExpireRolesType DEF TablesAdmitted
<1>2. RelayOK(r)
  BY DEF TablesAdmitted
<1>3. ASSUME NEW s \in DOMAIN r.sessions
      PROVE  SessionAdmitted(q.sessions[s], s, A)
  <2> DEFINE old == r.sessions[s]
  <2>1. old \in Session /\ SessionAdmitted(old, s, A)
    BY <1>2 DEF TablesAdmitted, RelayOK, IsPartial, SessionsAdmitted
  <2>2. /\ q.sessions[s].spectators = old.spectators
        /\ q.sessions[s].roles =
             [role \in PeerRole |-> IF <<s, role>> \in gone THEN NoPorts ELSE old.roles[role]]
    BY <1>2, <2>1 DEF ExpireRoles, Session, RelayOK
  <2> HIDE DEF old, q
  <2> QED
    BY <2>1, <2>2 DEF SessionAdmitted, NoPorts
<1>4. DOMAIN q.sessions = DOMAIN r.sessions
  BY <1>2 DEF ExpireRoles, RelayOK
<1>5. \A a \in DOMAIN q.mappings : a \in DOMAIN r.mappings /\ q.mappings[a] = r.mappings[a]
  BY <1>2 DEF ExpireRoles, RelayOK, Pop, Restrict
<1> HIDE DEF q
<1>6. SessionsAdmitted(q, A)
  BY <1>3, <1>4 DEF SessionsAdmitted
<1>7. MappingsAdmitted(q, A)
  BY <1>5 DEF TablesAdmitted, MappingsAdmitted
<1> QED
  BY <1>1, <1>6, <1>7 DEF TablesAdmitted, q

LEMMA ExpireSpectatorsAdmitted ==
  ASSUME NEW A, NEW r, TablesAdmitted(r, A)
  PROVE  TablesAdmitted(ExpireSpectators(r), A)
<1> DEFINE silent(s) == {i \in Ip : /\ ~IsEmpty(r.sessions[s])
                                   /\ r.sessions[s].spectators[i].age > SpectatorTimeout}
           onTcp(s) == {i \in silent(s) :
                 \E a \in Addresses(r.sessions[s].spectators[i].ports) : ActiveTcp(a)}
           gone == [s \in DOMAIN r.sessions |-> silent(s) \ onTcp(s)]
           removed == RemoveSpectators(r, gone)
           kept(s) == [removed.sessions[s] EXCEPT !.spectators = [i \in Ip |->
                         IF i \in onTcp(s) THEN [@[i] EXCEPT !.age = 0] ELSE @[i]]]
           sess == [s \in DOMAIN removed.sessions |-> kept(s)]
           q == ExpireSpectators(r)
<1>1. q = [removed EXCEPT !.sessions = sess]
  BY DEF ExpireSpectators
<1>2. TablesAdmitted(removed, A)
  <2> HIDE DEF gone
  <2> QED
    BY RemoveSpectatorsAdmitted
<1>3. RelayOK(q)
  BY ExpireSpectatorsType DEF TablesAdmitted
<1> HIDE DEF removed, onTcp
<1>4. ASSUME NEW s \in DOMAIN removed.sessions
      PROVE  SessionAdmitted(kept(s), s, A)
  <2> DEFINE old == removed.sessions[s]
  <2>1. old \in Session /\ SessionAdmitted(old, s, A)
    BY <1>2 DEF TablesAdmitted, RelayOK, IsPartial, SessionsAdmitted
  <2>2. kept(s).roles = old.roles
    BY <2>1 DEF Session
  <2>3. \A i \in Ip : kept(s).spectators[i].ports = old.spectators[i].ports
    BY <2>1 DEF Session, Spectator
  <2> HIDE DEF old, kept
  <2> QED
    BY <2>1, <2>2, <2>3 DEF SessionAdmitted
<1>5. q.sessions = sess /\ q.mappings = removed.mappings
  <2> HIDE DEF q, sess
  <2> QED
    BY <1>1, <1>2 DEF TablesAdmitted, RelayOK
<1> HIDE DEF q
<1>6. SessionsAdmitted(q, A)
  <2> HIDE DEF kept
  <2> QED
    BY <1>4, <1>5 DEF SessionsAdmitted
<1>7. MappingsAdmitted(q, A)
  BY <1>2, <1>5 DEF TablesAdmitted, MappingsAdmitted
<1> QED
  BY <1>3, <1>6, <1>7 DEF TablesAdmitted, q

LEMMA DropEmptySessionsAdmitted ==
  ASSUME NEW A, NEW r, TablesAdmitted(r, A)
  PROVE  TablesAdmitted(DropEmptySessions(r), A)
<1> DEFINE q == DropEmptySessions(r)
<1>1. RelayOK(q)
  BY DropEmptySessionsType DEF TablesAdmitted
<1>2. /\ \A s \in DOMAIN q.sessions : s \in DOMAIN r.sessions /\ q.sessions[s] = r.sessions[s]
      /\ q.mappings = r.mappings
  BY DEF DropEmptySessions, TablesAdmitted, RelayOK, Pop, Restrict
<1> HIDE DEF q
<1> QED
  BY <1>1, <1>2 DEF TablesAdmitted, SessionsAdmitted, MappingsAdmitted, q

-----------------------------------------------------------------------------
(* The steps of the relay *)

(* A registration is admitted before it is registered. *)
LEMMA RegisterPeerAdmitted ==
  ASSUME TypeOK, NEW A, TablesAdmitted(Relay, A), NEW m \in Announcement,
         RegisterPeer(m), store[m.sid] = "valid" => m \in A
  PROVE  TablesAdmitted(Relay', A)
<1>1. m \in Message
  BY AddressAssumption
<1>2. ASSUME NEW r, TablesAdmitted(r, A), Become(r)
      PROVE  TablesAdmitted(Relay', A)
  <2>1. Relay' = r
    BY <1>2 DEF Become, Relay, TablesAdmitted, RelayOK
  <2> QED
    BY <1>2, <2>1
<1>3. CASE m.role \in PeerRole
  <2>1. PICK r \in WithoutSpectator(Relay, m.addr) :
          Become(IF store[m.sid] = "valid" THEN PeerRegistered(r, m) ELSE r)
    BY <1>3 DEF RegisterPeer, PeerRole
  <2>2. TablesAdmitted(r, A)
    BY WithoutSpectatorAdmitted
  <2>3. store[m.sid] = "valid" => TablesAdmitted(PeerRegistered(r, m), A)
    BY <1>1, <1>3, <2>2, PeerRegisteredAdmitted
  <2> QED
    BY <1>2, <2>1, <2>2, <2>3
<1>4. CASE m.role = "spectator"
  <2>1. store[m.sid] = "valid" => TablesAdmitted(SpectatorRegistered(Relay, m), A)
    BY <1>1, <1>4, SpectatorRegisteredAdmitted
  <2>2. Become(IF store[m.sid] = "valid" THEN SpectatorRegistered(Relay, m) ELSE Relay)
    BY <1>4 DEF RegisterPeer, PeerRole
  <2> QED
    BY <1>2, <2>1, <2>2
<1> QED
  BY <1>1, <1>3, <1>4 DEF Message, Role

(* Time and heartbeats change no address. *)
LEMMA TickAdmitted ==
  ASSUME TypeOK, NEW A, TablesAdmitted(Relay, A), Tick
  PROVE  TablesAdmitted(Relay', A)
<1>1. RelayOK(Relay')
  BY TickType DEF RelayOK, Relay, Tick, TypeOK
<1>2. ASSUME NEW s \in DOMAIN sessions
      PROVE  SessionAdmitted(sessions'[s], s, A)
  <2> DEFINE old == sessions[s]
  <2>1. old \in Session /\ SessionAdmitted(old, s, A)
    BY DEF TablesAdmitted, TypeOK, IsPartial, SessionsAdmitted, Relay
  <2>2. /\ sessions'[s].roles = old.roles
        /\ sessions'[s].spectators = [i \in Ip |-> OlderSpectator(old.spectators[i])]
    BY <2>1 DEF Tick, Session
  <2>3. ASSUME NEW spec \in Spectator
        PROVE  OlderSpectator(spec).ports = spec.ports
    BY DEF OlderSpectator, Spectator
  <2>4. \A i \in Ip : sessions'[s].spectators[i].ports = old.spectators[i].ports
    BY <2>1, <2>2, <2>3 DEF Session
  <2> HIDE DEF old
  <2> QED
    BY <2>1, <2>2, <2>4 DEF SessionAdmitted
<1>3. DOMAIN sessions' = DOMAIN sessions
  BY DEF Tick
<1>4. /\ DOMAIN mappings' = DOMAIN mappings
      /\ \A a \in DOMAIN mappings : mappings'[a].targets = mappings[a].targets
  BY DEF Tick, TypeOK, IsPartial, Mapping
<1>5. SessionsAdmitted(Relay', A)
  BY <1>2, <1>3 DEF SessionsAdmitted, Relay
<1>6. MappingsAdmitted(Relay', A)
  BY <1>4 DEF TablesAdmitted, MappingsAdmitted, Relay
<1> QED
  BY <1>1, <1>5, <1>6 DEF TablesAdmitted

LEMMA HeartbeatAdmitted ==
  ASSUME TypeOK, TypeOK', NEW A, TablesAdmitted(Relay, A), NEW a \in Addr, Heartbeat(a)
  PROVE  TablesAdmitted(Relay', A)
<1>1. RelayOK(Relay')
  BY DEF RelayOK, Relay, TypeOK
<1>2. ASSUME NEW s \in DOMAIN sessions
      PROVE  SessionAdmitted(sessions'[s], s, A)
  <2> DEFINE old == sessions[s]
  <2>1. old \in Session /\ SessionAdmitted(old, s, A)
    BY DEF TablesAdmitted, TypeOK, IsPartial, SessionsAdmitted, Relay
  <2>2. sessions'[s] = IF s = index[a] THEN [old EXCEPT !.spectators[IpOf[a]].age = 0] ELSE old
    BY DEF Heartbeat, TypeOK, IsPartial
  <2>3. /\ sessions'[s].roles = old.roles
        /\ \A i \in Ip : sessions'[s].spectators[i].ports = old.spectators[i].ports
    BY <2>1, <2>2 DEF Session, Spectator
  <2> HIDE DEF old
  <2> QED
    BY <2>1, <2>3 DEF SessionAdmitted
<1>3. DOMAIN sessions' = DOMAIN sessions /\ mappings' = mappings
  BY DEF Heartbeat, TypeOK, IsPartial
<1> QED
  BY <1>1, <1>2, <1>3 DEF TablesAdmitted, SessionsAdmitted, MappingsAdmitted, Relay

(* A lookup changes the age of a mapping, not its targets. *)
LEMMA ForwardAdmitted ==
  ASSUME TypeOK, TypeOK', NEW A, TablesAdmitted(Relay, A), NEW a \in Addr, Forward(a)
  PROVE  /\ TablesAdmitted(Relay', A)
         /\ \A t \in mappings[a].targets : MayRelay(A, a, t)
<1>1. RelayOK(Relay')
  BY DEF RelayOK, Relay, TypeOK
<1>2. /\ DOMAIN mappings' = DOMAIN mappings
      /\ \A b \in DOMAIN mappings : mappings'[b].targets = mappings[b].targets
  BY DEF Forward, TypeOK, IsPartial, Mapping
<1>3. a \in DOMAIN mappings /\ sessions' = sessions
  BY DEF Forward
<1> QED
  BY <1>1, <1>2, <1>3 DEF TablesAdmitted, SessionsAdmitted, MappingsAdmitted, Relay

(* Every step of RelayForwarding is one of PacketRelay, or none. *)
LEMMA FStepIsStep == FNext => [Next]_vars
BY DEF FNext, FAnnounce, FRegisterTcpPeer, FForward, Send, Other, Next, Client

LEMMA AdmittedInit == FInit => Admitted
<1> SUFFICES ASSUME FInit
             PROVE  Admitted
  OBVIOUS
<1>1. TypeOK
  BY TypeInit DEF FInit
<1>2. FTypeOK
  BY <1>1 DEF FTypeOK, FInit, Idle, MaybeAddr
<1>3. sessions = << >> /\ mappings = << >> /\ sending.targets = {}
  BY DEF FInit, Init, Idle
<1>4. DOMAIN << >> = {}
  OBVIOUS
<1>5. TablesAdmitted(Relay, admitted)
  BY <1>1, <1>3, <1>4
  DEF TablesAdmitted, RelayOK, Relay, TypeOK, SessionsAdmitted, MappingsAdmitted
<1> QED
  BY <1>2, <1>3, <1>5 DEF Admitted

LEMMA AdmittedStep == Admitted /\ [FNext]_fvars => Admitted'
<1> SUFFICES ASSUME Admitted, [FNext]_fvars
             PROVE  Admitted'
  OBVIOUS
<1>1. TypeOK /\ TypeOK'
  <2>1. [Next]_vars
    BY FStepIsStep DEF fvars
  <2> QED
    BY <2>1, TypeStep DEF Admitted, FTypeOK
<1>2. admitted \subseteq admitted' /\ FTypeOK'
  <2>1. ASSUME NEW m \in Announcement, Admit(m)
        PROVE  admitted \subseteq admitted' /\ admitted' \subseteq Announcement
    BY <2>1 DEF Admit, Admitted, FTypeOK
  <2>2. CASE \E m \in Announcement : FAnnounce(m) \/ FRegisterTcpPeer(m)
    BY <1>1, <2>1, <2>2 DEF FAnnounce, FRegisterTcpPeer, Admitted, FTypeOK
  <2>3. CASE \E a \in Addr : FForward(a)
    <3>1. PICK a \in Addr : FForward(a)
      BY <2>3
    <3>2. mappings[a].targets \in SUBSET Addr
      BY <1>1, <3>1 DEF FForward, Forward, TypeOK, IsPartial, Mapping
    <3> QED
      BY <1>1, <3>1, <3>2 DEF FForward, Admitted, FTypeOK, MaybeAddr
  <2>4. CASE Send
    BY <1>1, <2>4 DEF Send, Idle, MaybeAddr, Admitted, FTypeOK
  <2>5. CASE Other
    BY <1>1, <2>5 DEF Other, Admitted, FTypeOK
  <2>6. CASE UNCHANGED fvars
    BY <1>1, <2>6 DEF fvars, Admitted, FTypeOK
  <2> QED
    BY <2>2, <2>3, <2>4, <2>5, <2>6 DEF FNext
<1>3. /\ TablesAdmitted(Relay, admitted')
      /\ \A t \in sending.targets : MayRelay(admitted', sending.from, t)
  BY <1>2, Monotone DEF Admitted
<1>4. TablesAdmitted(Relay', admitted')
  <2>1. ASSUME NEW m \in Announcement, RegisterPeer(m), Admit(m)
        PROVE  TablesAdmitted(Relay', admitted')
    <3>1. store[m.sid] = "valid" => m \in admitted'
      BY <2>1 DEF Admit
    <3> QED
      BY <1>1, <1>3, <2>1, <3>1, RegisterPeerAdmitted
  <2>2. CASE \E m \in Announcement : FAnnounce(m) \/ FRegisterTcpPeer(m)
    BY <2>1, <2>2 DEF FAnnounce, Announce, FRegisterTcpPeer, RegisterTcpPeer
  <2>3. CASE \E a \in Addr : FForward(a) \/ Heartbeat(a)
    BY <1>1, <1>3, <2>3, ForwardAdmitted, HeartbeatAdmitted DEF FForward
  <2>4. CASE CleanupSessions
    <3>1. TablesAdmitted(DropEmptySessions(ExpireSpectators(ExpireRoles(Relay, expired))), admitted')
      BY <1>3, ExpireRolesAdmitted, ExpireSpectatorsAdmitted, DropEmptySessionsAdmitted
    <3>2. Relay' = DropEmptySessions(ExpireSpectators(ExpireRoles(Relay, expired)))
      BY <2>4, <3>1 DEF CleanupSessions, Become, Relay, TablesAdmitted, RelayOK
    <3> QED
      BY <3>1, <3>2
  <2>5. CASE Tick
    BY <1>1, <1>3, <2>5, TickAdmitted
  <2>6. CASE UNCHANGED tables
    <3>1. Relay' = Relay
      BY <2>6 DEF tables, Relay
    <3> QED
      BY <1>3, <3>1
  <2>7. Other => \/ \E a \in Addr : Heartbeat(a)
                 \/ CleanupSessions \/ Tick \/ UNCHANGED tables
    BY DEF Other, Connect, Disconnect, Bot, CreateSession, UpdateSession, DeleteSession,
           Cleanup, CleanupDeadTcpTargets, FindExpiredRoles
  <2>8. Send \/ UNCHANGED fvars => UNCHANGED tables
    BY DEF Send, fvars, vars, tables
  <2> QED
    BY <2>2, <2>3, <2>4, <2>5, <2>6, <2>7, <2>8 DEF FNext
<1>5. \A t \in sending'.targets : MayRelay(admitted', sending'.from, t)
  <2>1. ASSUME NEW a \in Addr, FForward(a)
        PROVE  \A t \in sending'.targets : MayRelay(admitted', sending'.from, t)
    BY <1>1, <1>3, <2>1, ForwardAdmitted DEF FForward
  <2>2. CASE Send
    BY <2>2 DEF Send, Idle
  <2>3. CASE UNCHANGED sending
    BY <1>3, <2>3
  <2> QED
    BY <2>1, <2>2, <2>3 DEF FNext, FAnnounce, FRegisterTcpPeer, Other, fvars
<1> QED
  BY <1>2, <1>4, <1>5 DEF Admitted

-----------------------------------------------------------------------------
(* The relay with its packets behaves like the relay without them. *)
THEOREM ForwardingImplementsRelay == FSpec => Spec
<1>1. FInit => Init
  BY DEF FInit
<1>2. [FNext]_fvars => [Next]_vars
  BY FStepIsStep DEF fvars
<1> QED
  BY <1>1, <1>2, PTL DEF FSpec, Spec

(* The packet in flight and the history keep their types (forward_packet). *)
THEOREM ForwardingTypeCorrect == FSpec => []FTypeOK
<1>1. Admitted => FTypeOK
  BY DEF Admitted
<1> QED
  BY <1>1, AdmittedInit, AdmittedStep, PTL DEF FSpec

(* No packet leaves its session or its port, and none comes from a         *)
(* spectator, however the sessions overwrite each other, expire or change  *)
(* between the lookup in forward_packet and the sending of the packet.     *)
THEOREM IsolationHolds == FSpec => []Isolation
<1>1. Admitted => Isolation
  BY DEF Admitted, Isolation, TablesAdmitted, MappingsAdmitted, Relay
<1> QED
  BY <1>1, AdmittedInit, AdmittedStep, PTL DEF FSpec

=============================================================================
