------------------------------ MODULE ViewerProofs ------------------------------
(***************************************************************************)
(* Safety of the viewer: of its network, for any settings and any number   *)
(* of changes by a user who waits for a restart before the next change,    *)
(* of its menu, for any number of commands, tests and restarts, and of     *)
(* its gamepads and their calibrations.                                    *)
(*                                                                         *)
(* At any time one controller at most has a setup or the ports: the        *)
(* present one, and none at all between the end of one and the creation    *)
(* of the next.  What the menu waits for is in one place: with the main    *)
(* thread, among the commands, in the queue, with the test, or there for   *)
(* the drawing.                                                            *)
(***************************************************************************)
EXTENDS MCViewer, SequenceTheorems, FiniteSetTheorems, WellFoundedInduction, TLAPS

(* Nothing is left of a controller, and nothing comes of it. *)
Dead(c) == setup[c] \in {"none", "done"} /\ c \notin holding

Closing == {"abort", "join", "stop"}

(* A restart is the latest one, and its settings are pending. *)
OneRestart ==
  /\ current <= changes
  /\ \A r \in Restart : r > changes => place[r] = "none"
  /\ \A r \in Restart : ~Ended(r) =>
       r = changes /\ pending # None /\ ~complete

(* How far the restarts have come tells which controller is the present   *)
(* one, and what is left of it.                                            *)
RestartPlace ==
  \A r \in Restart :
    /\ place[r] \in {"join", "stop"} => target[r] = current
    /\ place[r] = "stop" => setup[current] \in {"none", "done"}
    /\ place[r] = "create" => Dead(current)
    /\ place[r] \in Closing \cup {"create"} => current # r
    /\ place[r] \in {"setup", "finish"} => current = r

OnlyCurrent ==
  /\ \A c \in Controller : c # current => Dead(c)
  /\ conflict = {}

(* The settings on their way from the user to the network. *)
SettingsPlace ==
  /\ pending = None =>
       applied = chosen /\ settings[current] = chosen /\ \A r \in Restart : Ended(r)
  /\ pending # None =>
       /\ connected
       /\ pending = chosen
       /\ changes \in Restart
       /\ settings[changes] = chosen
       /\ (\A r \in Restart : Ended(r)) => complete
  /\ complete => pending # None /\ current = changes

(* What the main thread knows when it shuts down and has not given up. *)
Shutdown ==
  /\ place[0] \in {"running", "waiting"} => waited
  /\ place[0] \in Closing \cup {"done"} /\ waited =>
       /\ \A r \in Restart : Ended(r)
       /\ place[0] \in {"join", "stop", "done"} => target[0] = current
       /\ place[0] \in {"stop", "done"} => setup[current] \in {"none", "done"}
       /\ place[0] = "done" => current \notin holding

IInv == TypeOK /\ OneRestart /\ RestartPlace /\ OnlyCurrent /\ SettingsPlace /\ Shutdown

-----------------------------------------------------------------------------
LEMMA ThreadFacts ==
  /\ 0 \in Thread /\ 0 \in Controller /\ 0 \notin Restart
  /\ Thread = Controller /\ Restart \subseteq Thread
  /\ \A t \in Thread : t = 0 \/ t \in Restart
  /\ \A n \in 0 .. MaxChanges : n < MaxChanges => n + 1 \in Restart /\ n + 1 \in 0 .. MaxChanges
  /\ \A r \in Restart : r \in Controller /\ r \in Nat
BY SettingsAssumption DEF Restart, Controller, Thread

LEMMA TypeInit == Init => TypeOK
<1> SUFFICES ASSUME Init
             PROVE  TypeOK
  OBVIOUS
<1>1. place \in [Thread -> OnMain \cup OnRestart] /\ place[0] \in OnMain
  BY ThreadFacts DEF Init, OnMain, OnRestart
<1>2. \A r \in Restart : place[r] \in OnRestart
  BY ThreadFacts DEF Init, OnRestart
<1>3. changes \in 0 .. MaxChanges
  BY SettingsAssumption DEF Init
<1> QED
  BY <1>1, <1>2, <1>3, ThreadFacts DEF Init, TypeOK

(* A thread goes from one place to the next of its kind. *)
LEMMA PlaceStep ==
  ASSUME TypeOK, NEW t \in Thread, NEW p \in IF t = 0 THEN OnMain ELSE OnRestart,
         place' = [place EXCEPT ![t] = p]
  PROVE  /\ place' \in [Thread -> OnMain \cup OnRestart]
         /\ place'[0] \in OnMain
         /\ \A r \in Restart : place'[r] \in OnRestart
BY ThreadFacts DEF TypeOK

LEMMA TypeStep == TypeOK /\ [Next]_vars => TypeOK'
<1> SUFFICES ASSUME TypeOK, [Next]_vars
             PROVE  TypeOK'
  OBVIOUS
<1> USE ThreadFacts
    DEF user, control, threads, ports
<1>1. CASE Connect
  BY <1>1 DEF Connect, TypeOK
<1>2. CASE Quit
  BY <1>2, PlaceStep DEF Quit, TypeOK, OnMain
<1>3. CASE CheckComplete
  BY <1>3 DEF CheckComplete, TypeOK
<1>4. CASE StopWaiting
  BY <1>4, PlaceStep DEF StopWaiting, TypeOK, OnMain
<1>5. ASSUME NEW s \in Settings, Change(s)
      PROVE  TypeOK'
  <2>1. changes' \in 0 .. MaxChanges /\ changes' \in Restart /\ changes' # 0
    BY <1>5 DEF Change, TypeOK
  <2>2. CASE UNCHANGED place
    BY <1>5, <2>1, <2>2 DEF Change, TypeOK
  <2>3. CASE place' = [place EXCEPT ![changes'] = "abort"]
    BY <1>5, <2>1, <2>3, PlaceStep DEF Change, TypeOK, OnRestart
  <2> QED
    BY <1>5, <2>2, <2>3 DEF Change
<1>6. ASSUME NEW t \in Thread, Abort(t) \/ Join(t) \/ Stop(t)
      PROVE  TypeOK'
  <2>1. CASE Abort(t)
    BY <2>1, PlaceStep DEF Abort, TypeOK, OnMain, OnRestart
  <2>2. CASE Join(t)
    BY <2>2, PlaceStep DEF Join, TypeOK, OnMain, OnRestart
  <2>3. CASE Stop(t)
    BY <2>3, PlaceStep DEF Stop, TypeOK, OnMain, OnRestart
  <2> QED
    BY <1>6, <2>1, <2>2, <2>3
<1>7. ASSUME NEW r \in Restart, Create(r) \/ SetupPorts(r) \/ Finish(r)
      PROVE  TypeOK'
  <2>1. CASE Create(r)
    BY <2>1, PlaceStep DEF Create, TypeOK, OnRestart
  <2>2. CASE SetupPorts(r)
    BY <2>2, PlaceStep DEF SetupPorts, TypeOK, OnRestart
  <2>3. CASE Finish(r)
    BY <2>3, PlaceStep DEF Finish, TypeOK, OnRestart
  <2> QED
    BY <1>7, <2>1, <2>2, <2>3
<1>8. ASSUME NEW c \in Controller, SetupThread(c) \/ RelayAnswers(c)
      PROVE  TypeOK'
  BY <1>8 DEF SetupThread, RelayAnswers, CreateSetup, SetupRelay, Interrupted, SetupComponents,
              Registered, Refused, SetupTo, PortsInUse, TypeOK
<1>9. CASE UNCHANGED vars
  BY <1>9 DEF vars, TypeOK
<1> QED
  BY <1>1, <1>2, <1>3, <1>4, <1>5, <1>6, <1>7, <1>8, <1>9 DEF Next, MainThread, RestartThread

(* The network never takes a value of the wrong type, however patient the  *)
(* user is (all actions of NetworkLifecycle).                              *)
THEOREM NetworkTypeCorrect == Spec => []TypeOK
BY TypeInit, TypeStep, PTL DEF Spec

-----------------------------------------------------------------------------
LEMMA InvInit == Init => IInv
<1> SUFFICES ASSUME Init
             PROVE  IInv
  OBVIOUS
<1>1. TypeOK
  BY TypeInit
<1>2. \A r \in Restart : Ended(r) /\ place[r] = "none"
  BY ThreadFacts DEF Init, Ended
<1>3. OneRestart /\ RestartPlace
  BY <1>2, ThreadFacts, SettingsAssumption DEF Init, OneRestart, RestartPlace, Closing
<1>4. OnlyCurrent /\ SettingsPlace
  BY <1>2, ThreadFacts DEF Init, OnlyCurrent, SettingsPlace, Dead
<1>5. Shutdown
  BY ThreadFacts DEF Init, Shutdown, Closing
<1> QED
  BY <1>1, <1>3, <1>4, <1>5 DEF IInv

(* The patience of the user is what the last conjunct of OneRestart needs. *)
LEMMA InvStep ==
  ASSUME Patient, IInv, [Next]_vars
  PROVE  IInv'
<1> USE ThreadFacts
    DEF IInv, TypeOK, user, control, threads, ports, Ended, Dead, Closing
<1>0. TypeOK'
  BY TypeStep
<1>1. CASE Connect
  <2>1. OneRestart'
    BY <1>1 DEF Connect, OneRestart
  <2>2. RestartPlace'
    BY <1>1 DEF Connect, RestartPlace, SettingsPlace
  <2>3. OnlyCurrent'
    BY <1>1 DEF Connect, OnlyCurrent
  <2>4. SettingsPlace'
    BY <1>1 DEF Connect, SettingsPlace
  <2>5. Shutdown'
    BY <1>1 DEF Connect, Shutdown
  <2> QED
    BY <1>0, <2>1, <2>2, <2>3, <2>4, <2>5
<1>2. CASE Quit
  <2>1. OneRestart'
    BY <1>2 DEF Quit, OneRestart
  <2>2. RestartPlace'
    BY <1>2 DEF Quit, RestartPlace
  <2>3. OnlyCurrent'
    BY <1>2 DEF Quit, OnlyCurrent
  <2>4. SettingsPlace'
    BY <1>2 DEF Quit, SettingsPlace
  <2>5. Shutdown'
    BY <1>2 DEF Quit, Shutdown
  <2> QED
    BY <1>0, <2>1, <2>2, <2>3, <2>4, <2>5
<1>3. CASE CheckComplete
  <2>1. OneRestart'
    BY <1>3 DEF CheckComplete, OneRestart
  <2>2. RestartPlace'
    BY <1>3 DEF CheckComplete, RestartPlace
  <2>3. OnlyCurrent'
    BY <1>3 DEF CheckComplete, OnlyCurrent
  <2>4. SettingsPlace'
    BY <1>3 DEF CheckComplete, OneRestart, SettingsPlace
  <2>5. Shutdown'
    BY <1>3 DEF CheckComplete, Shutdown
  <2> QED
    BY <1>0, <2>1, <2>2, <2>3, <2>4, <2>5
<1>4. CASE StopWaiting
  <2>1. OneRestart'
    BY <1>4 DEF StopWaiting, OneRestart
  <2>2. RestartPlace'
    BY <1>4 DEF StopWaiting, RestartPlace
  <2>3. OnlyCurrent'
    BY <1>4 DEF StopWaiting, OnlyCurrent
  <2>4. SettingsPlace'
    BY <1>4 DEF StopWaiting, SettingsPlace
  <2>5. Shutdown'
    <3>1. \A r \in Restart : ~Ended(r) => Latest(r)
      BY DEF OneRestart, Latest
    <3> QED
      BY <1>4, <3>1 DEF StopWaiting, Shutdown
  <2> QED
    BY <1>0, <2>1, <2>2, <2>3, <2>4, <2>5
<1>5. ASSUME NEW s \in Settings, Change(s)
      PROVE  IInv'
  <2>0. changes' = changes + 1 /\ changes' \in Restart /\ pending = None /\ ~complete
       /\ place[0] = "running" /\ \A r \in Restart : Ended(r)
    BY <1>5 DEF Change
  <2>1. OneRestart'
    <3>1. \A r \in Restart : r # changes' => place'[r] = place[r]
      BY <1>5, <2>0 DEF Change
    <3>2. \A r \in Restart : r > changes' => place'[r] = "none"
      BY <2>0, <3>1 DEF OneRestart
    <3>3. place' = place \/ (pending' = s /\ complete' = complete)
      BY <1>5 DEF Change
    <3>4. s # None /\ current' <= changes'
      BY <1>5, <2>0, SettingsAssumption DEF Change, OneRestart
    <3> QED
      BY <2>0, <3>1, <3>2, <3>3, <3>4 DEF OneRestart
  <2>2. RestartPlace'
    BY <1>5 DEF Change, OneRestart, RestartPlace
  <2>3. OnlyCurrent'
    BY <1>5 DEF Change, OnlyCurrent
  <2>4. SettingsPlace'
    <3>1. CASE ~connected
      BY <1>5, <2>0, <3>1 DEF Change, SettingsPlace
    <3>2. CASE connected /\ s # applied
      <4>1. pending' = s /\ pending' # None /\ chosen' = s /\ connected' /\ ~complete'
        BY <1>5, <2>0, <3>2, SettingsAssumption DEF Change
      <4>2. settings'[changes'] = s
        BY <1>5, <2>0, <3>2 DEF Change
      <4>3. place'[changes'] = "abort"
        BY <1>5, <2>0, <3>2 DEF Change
      <4> QED
        BY <2>0, <4>1, <4>2, <4>3 DEF SettingsPlace
    <3>3. CASE connected /\ s = applied
      BY <1>5, <2>0, <3>3 DEF Change, SettingsPlace
    <3> QED
      BY <3>1, <3>2, <3>3
  <2>5. Shutdown'
    BY <1>5 DEF Change, Shutdown
  <2> QED
    BY <1>0, <2>1, <2>2, <2>3, <2>4, <2>5
<1>6. ASSUME NEW t \in Thread, Abort(t)
      PROVE  IInv'
  <2>1. OneRestart'
    BY <1>6 DEF Abort, OneRestart
  <2>2. RestartPlace'
    BY <1>6 DEF Abort, RestartPlace
  <2>3. OnlyCurrent'
    BY <1>6 DEF Abort, OnlyCurrent
  <2>4. SettingsPlace'
    BY <1>6 DEF Abort, SettingsPlace
  <2>5. Shutdown'
    BY <1>6 DEF Abort, Shutdown
  <2> QED
    BY <1>0, <2>1, <2>2, <2>3, <2>4, <2>5
<1>7. ASSUME NEW t \in Thread, Join(t)
      PROVE  IInv'
  <2>1. OneRestart'
    BY <1>7 DEF Join, OneRestart
  <2>2. RestartPlace'
    BY <1>7 DEF Join, RestartPlace
  <2>3. OnlyCurrent'
    BY <1>7 DEF Join, OnlyCurrent
  <2>4. SettingsPlace'
    BY <1>7 DEF Join, SettingsPlace
  <2>5. Shutdown'
    BY <1>7 DEF Join, Shutdown
  <2> QED
    BY <1>0, <2>1, <2>2, <2>3, <2>4, <2>5
<1>8. ASSUME NEW t \in Thread, Stop(t)
      PROVE  IInv'
  <2>1. OneRestart'
    BY <1>8 DEF Stop, OneRestart
  <2>2. RestartPlace'
    BY <1>8 DEF Stop, RestartPlace
  <2>3. OnlyCurrent'
    BY <1>8 DEF Stop, OnlyCurrent
  <2>4. SettingsPlace'
    BY <1>8 DEF Stop, SettingsPlace
  <2>5. Shutdown'
    BY <1>8 DEF Stop, Shutdown
  <2> QED
    BY <1>0, <2>1, <2>2, <2>3, <2>4, <2>5
<1>9. ASSUME NEW r \in Restart, Create(r)
      PROVE  IInv'
  <2>1. OneRestart'
    BY <1>9 DEF Create, OneRestart
  <2>2. RestartPlace'
    BY <1>9 DEF Create, OneRestart, RestartPlace
  <2>3. OnlyCurrent'
    BY <1>9 DEF Create, RestartPlace, OnlyCurrent
  <2>4. SettingsPlace'
    BY <1>9 DEF Create, OneRestart, SettingsPlace
  <2>5. Shutdown'
    BY <1>9 DEF Create, Shutdown
  <2> QED
    BY <1>0, <2>1, <2>2, <2>3, <2>4, <2>5
<1>10. ASSUME NEW r \in Restart, SetupPorts(r)
       PROVE  IInv'
  <2>1. OneRestart'
    BY <1>10 DEF SetupPorts, OneRestart
  <2>2. RestartPlace'
    BY <1>10 DEF SetupPorts, OneRestart, RestartPlace
  <2>3. OnlyCurrent'
    BY <1>10 DEF SetupPorts, OnlyCurrent
  <2>4. SettingsPlace'
    BY <1>10 DEF SetupPorts, SettingsPlace
  <2>5. Shutdown'
    BY <1>10 DEF SetupPorts, Shutdown
  <2> QED
    BY <1>0, <2>1, <2>2, <2>3, <2>4, <2>5
<1>11. ASSUME NEW r \in Restart, Finish(r)
       PROVE  IInv'
  <2>1. OneRestart'
    BY <1>11 DEF Finish, OneRestart
  <2>2. RestartPlace'
    BY <1>11 DEF Finish, RestartPlace
  <2>3. OnlyCurrent'
    BY <1>11 DEF Finish, OnlyCurrent
  <2>4. SettingsPlace'
    BY <1>11 DEF Finish, OneRestart, RestartPlace, SettingsPlace
  <2>5. Shutdown'
    BY <1>11 DEF Finish, Shutdown
  <2> QED
    BY <1>0, <2>1, <2>2, <2>3, <2>4, <2>5
<1>12. ASSUME NEW c \in Controller, SetupThread(c) \/ RelayAnswers(c)
       PROVE  IInv'
  <2> USE DEF SetupThread, RelayAnswers, CreateSetup, SetupRelay, Interrupted, SetupComponents,
              Registered, Refused, SetupTo, PortsInUse, PortsFree
  <2>1. OneRestart'
    BY <1>12 DEF OneRestart
  <2>2. RestartPlace'
    BY <1>12 DEF RestartPlace
  <2>3. OnlyCurrent'
    BY <1>12 DEF OnlyCurrent
  <2>4. SettingsPlace'
    BY <1>12 DEF SettingsPlace
  <2>5. Shutdown'
    BY <1>12 DEF Shutdown
  <2> QED
    BY <1>0, <2>1, <2>2, <2>3, <2>4, <2>5
<1>13. CASE UNCHANGED vars
  BY <1>13 DEF vars, OneRestart, RestartPlace, OnlyCurrent, SettingsPlace, Shutdown
<1> QED
  BY <1>1, <1>2, <1>3, <1>4, <1>5, <1>6, <1>7, <1>8, <1>9, <1>10, <1>11, <1>12, <1>13
  DEF Next, MainThread, RestartThread

(* With a user who waits for a restart, one controller at most is ever     *)
(* alive, whichever way its setup goes and wherever an abort finds it.     *)
THEOREM Inductive ==
  ASSUME Patient
  PROVE  Spec => []IInv
<1>1. IInv /\ [Next]_vars => IInv'
  BY InvStep
<1> QED
  BY <1>1, InvInit, PTL DEF Spec

(* Whenever the network comes to rest it runs with the settings the user   *)
(* chose last (update_settings, check_network_restart_complete).           *)
THEOREM LastSettingsInForce ==
  ASSUME Patient
  PROVE  Spec => []InForce
<1>1. IInv => InForce
  BY DEF IInv, SettingsPlace, InForce
<1> QED
  BY <1>1, Inductive, PTL

(* No controller ever finds its ports taken by another one of the viewer   *)
(* (shutdown, restart_network_controller).                                 *)
THEOREM PortsLetGo ==
  ASSUME Patient
  PROVE  Spec => []NoConflict
<1>1. IInv => NoConflict
  BY DEF IInv, OnlyCurrent, NoConflict
<1> QED
  BY <1>1, Inductive, PTL

(* A shutdown that did not give up waiting for a restart leaves nothing    *)
(* of any controller behind (AppState.shutdown).                           *)
THEOREM NothingLeft ==
  ASSUME Patient
  PROVE  Spec => []CleanExit
<1>1. IInv => CleanExit
  BY ThreadFacts DEF IInv, TypeOK, OnlyCurrent, Shutdown, Dead, Closing, CleanExit
<1> QED
  BY <1>1, Inductive, PTL

-----------------------------------------------------------------------------
(* The menu *)

Kinds == {"none", "menu", "shortcut", "test"}

Entries(q) == {q[i] : i \in DOMAIN q}

(* What will be called back, or answered, for the menu. *)
Calls == {e \in Entries(queue) : kind[e.req] = "menu"}
Waiting == {s \in commands : kind[s.req] = "menu"}

MenuShape ==
  /\ kind \in [Menu!Request -> Kinds] /\ requests \in 0 .. MaxRequests
  /\ queue \in Seq(Menu!Result) /\ \A e \in Entries(queue) : e.req <= requests
  /\ commands \subseteq [req : Menu!Request, to : Nat]
  /\ \A s \in commands : s.req <= requests /\ s.to <= controller
  /\ controller \in Nat /\ mapping \in {"none", "key", "gamepad"}

(* What the menu waits for is in one place.                                *)
Loading == loading => visible /\ requests # 0
Asking ==
  /\ main \in {"check", "register", "submit"} =>
       requests # 0 /\ (kind[requests] = "menu" => loading)
  /\ main \in {"check", "register"} => Calls = {} /\ Waiting = {}
  /\ main # "idle" => tester = 0 /\ result = Menu!NoResult
Testing ==
  tester # 0 => loading /\ tester = requests /\ kind[tester] = "test" /\ result = Menu!NoResult
Called ==
  Calls # {} =>
    /\ loading /\ result = Menu!NoResult /\ tester = 0 /\ Waiting = {}
    /\ \A e \in Calls : e.req = requests
Awaited ==
  Waiting # {} =>
    /\ loading /\ result = Menu!NoResult /\ tester = 0
    /\ \A s \in Waiting : s.req = requests /\ Waiting = {s}
Shown == result # Menu!NoResult => loading /\ result.req = requests

(* A menu that is locked and waits for something waits for a command. *)
Lock ==
  locked /\ ~escaped =>
    IF loading THEN kind[requests] = "menu" ELSE visible /\ tab = "Input" /\ mapping # "none"

OnePlace == Loading /\ Asking /\ Testing /\ Called /\ Awaited /\ Shown
MenuInv == MenuShape /\ OnePlace /\ Lock

-----------------------------------------------------------------------------
(* Queues, and the last entry of one *)

LEMMA EntriesOf ==
  ASSUME NEW S, NEW q \in Seq(S)
  PROVE  Entries(q) \subseteq S /\ (q = <<>> <=> Entries(q) = {})
<1>1. Len(q) \in Nat /\ DOMAIN q = 1 .. Len(q) /\ \A i \in 1 .. Len(q) : q[i] \in S
      /\ (q = <<>> <=> Len(q) = 0)
  BY LenProperties, EmptySeq
<1>2. q # <<>> => 1 \in DOMAIN q
  BY <1>1
<1>3. q = <<>> => DOMAIN q = {}
  BY <1>1
<1> QED
  BY <1>1, <1>2, <1>3 DEF Entries

LEMMA EntriesAppended ==
  ASSUME NEW S, NEW q \in Seq(S), NEW e \in S
  PROVE  Append(q, e) \in Seq(S) /\ Entries(Append(q, e)) = Entries(q) \cup {e}
<1>1. /\ Len(q) \in Nat /\ DOMAIN q = 1 .. Len(q)
      /\ Append(q, e) \in Seq(S) /\ DOMAIN Append(q, e) = 1 .. (Len(q) + 1)
      /\ \A i \in 1 .. Len(q) : Append(q, e)[i] = q[i]
      /\ Append(q, e)[Len(q) + 1] = e
  BY AppendProperties, LenProperties
<1>2. \A i \in DOMAIN Append(q, e) : i \in DOMAIN q \/ i = Len(q) + 1
  BY <1>1
<1>3. \A i \in DOMAIN q : i \in DOMAIN Append(q, e)
  BY <1>1
<1>4. Len(q) + 1 \in DOMAIN Append(q, e)
  BY <1>1
<1>5. Entries(Append(q, e)) \subseteq Entries(q) \cup {e}
  BY <1>1, <1>2 DEF Entries
<1>6. Entries(q) \cup {e} \subseteq Entries(Append(q, e))
  BY <1>1, <1>3, <1>4 DEF Entries
<1> QED
  BY <1>1, <1>5, <1>6

LEMMA EntriesJoined ==
  ASSUME NEW S, NEW q \in Seq(S), NEW r \in Seq(S)
  PROVE  q \o r \in Seq(S) /\ Entries(q \o r) = Entries(q) \cup Entries(r)
<1>1. /\ Len(q) \in Nat /\ DOMAIN q = 1 .. Len(q) /\ Len(r) \in Nat /\ DOMAIN r = 1 .. Len(r)
      /\ q \o r \in Seq(S) /\ DOMAIN (q \o r) = 1 .. (Len(q) + Len(r))
      /\ \A i \in 1 .. (Len(q) + Len(r)) :
           (q \o r)[i] = IF i <= Len(q) THEN q[i] ELSE r[i - Len(q)]
  BY ConcatProperties, LenProperties
<1>2. \A i \in DOMAIN (q \o r) :
        (i \in DOMAIN q /\ (q \o r)[i] = q[i]) \/ (i - Len(q) \in DOMAIN r /\ (q \o r)[i] = r[i - Len(q)])
  BY <1>1
<1>3. \A i \in DOMAIN q : i \in DOMAIN (q \o r) /\ (q \o r)[i] = q[i]
  BY <1>1
<1>4. ASSUME NEW i \in DOMAIN r
      PROVE  \E j \in DOMAIN (q \o r) : (q \o r)[j] = r[i]
  <2>1. Len(q) + i \in DOMAIN (q \o r) /\ ~(Len(q) + i <= Len(q)) /\ Len(q) + i - Len(q) = i
    BY <1>1
  <2> QED
    BY <1>1, <2>1
<1>5. Entries(q \o r) \subseteq Entries(q) \cup Entries(r)
  BY <1>2 DEF Entries
<1>6. Entries(q) \cup Entries(r) \subseteq Entries(q \o r)
  BY <1>3, <1>4 DEF Entries
<1> QED
  BY <1>1, <1>5, <1>6

(* SetToSeq lists a finite set. *)
LEMMA Listed ==
  ASSUME NEW T, IsFiniteSet(T)
  PROVE  Menu!SetToSeq(T) \in Seq(T) /\ Entries(Menu!SetToSeq(T)) = T
<1> DEFINE n == Cardinality(T)
           q == Menu!SetToSeq(T)
<1>1. n \in Nat /\ ExistsBijection(1 .. n, T)
  BY FS_CardinalityType
<1>2. \E f \in [1 .. n -> T] : Menu!IsInjective(f)
  BY <1>1 DEF ExistsBijection, Bijection, Injection, IsInjective, Menu!IsInjective
<1>3. Menu!Cardinality(T) = n
  BY DEF Menu!Cardinality, Cardinality
<1>4. q \in [1 .. n -> T] /\ Menu!IsInjective(q)
  BY <1>2, <1>3 DEF Menu!SetToSeq
<1>5. q \in Injection(1 .. n, T)
  BY <1>4 DEF Injection, IsInjective, Menu!IsInjective
<1>6. IsFiniteSet(1 .. n) /\ Cardinality(1 .. n) = n
  BY <1>1, FS_Interval
<1>7. q \in Surjection(1 .. n, T)
  BY <1>5, <1>6, FS_Injection
<1>8. Entries(q) = T
  BY <1>4, <1>7 DEF Surjection, Entries
<1> QED
  BY <1>1, <1>4, <1>8, SeqDef

(* A set of natural numbers has a least, and one up to n a largest. *)
LEMMA Least ==
  ASSUME NEW T \in SUBSET Nat, T # {}
  PROVE  \E x \in T : \A y \in T : x <= y
<1> DEFINE R == OpToRel(<, Nat)
<1>1. R = {ss \in Nat \X Nat : ss[1] < ss[2]}
  BY DEF OpToRel
<1>2. IsWellFoundedOn(R, Nat)
  BY NatLessThanWellFounded
<1>3. \A x, y \in Nat : <<y, x>> \in R <=> y < x
  BY <1>1
<1> HIDE DEF R
<1>4. PICK x \in T : \A y \in T : ~(<<y, x>> \in R)
  BY <1>2, WFMin
<1>5. ASSUME NEW y \in T
      PROVE  x <= y
  <2>1. x \in Nat /\ y \in Nat
    OBVIOUS
  <2>2. ~(y < x)
    BY <1>3, <1>4, <2>1
  <2> QED
    BY <2>1, <2>2
<1> QED
  BY <1>4, <1>5

LEMMA Largest ==
  ASSUME NEW n \in Nat, NEW T \in SUBSET (1 .. n), T # {}
  PROVE  Menu!Max(T) \in T
<1> DEFINE U == {n - i : i \in T}
<1>1. U \in SUBSET Nat /\ U # {}
  <2>1. \A i \in T : n - i \in Nat
    OBVIOUS
  <2> QED
    BY <2>1
<1>2. PICK x \in U : \A y \in U : x <= y
  BY <1>1, Least
<1>3. PICK i \in T : x = n - i
  OBVIOUS
<1>4. ASSUME NEW j \in T
      PROVE  i >= j
  <2>1. n - i <= n - j
    BY <1>2, <1>3
  <2> QED
    BY <2>1
<1> QED
  BY <1>4 DEF Menu!Max

-----------------------------------------------------------------------------
(* What the menu waits for stays in one place *)

(* Nothing is under way when something new is asked for. *)
LEMMA NewRequest ==
  ASSUME MenuShape, OnePlace, ~loading, NEW k \in Kinds, Menu!New(k)
  PROVE  /\ requests' \in Menu!Request /\ requests' = requests + 1 /\ requests' # 0
         /\ requests' \in 0 .. MaxRequests
         /\ kind' \in [Menu!Request -> Kinds] /\ kind'[requests'] = k
         /\ result = Menu!NoResult /\ tester = 0 /\ Calls = {} /\ Waiting = {}
         /\ \A e \in Entries(queue) : e.req <= requests' /\ kind'[e.req] # "menu"
         /\ \A s \in commands : s.req <= requests' /\ kind'[s.req] # "menu"
<1>1. /\ requests \in 0 .. MaxRequests /\ requests < MaxRequests /\ requests' = requests + 1
      /\ kind' = [kind EXCEPT ![requests'] = k] /\ kind \in [Menu!Request -> Kinds]
      /\ MaxRequests \in Nat
  BY MenuAssumption DEF MenuShape, Menu!New
<1>2. requests' \in Menu!Request /\ requests' # 0 /\ requests' \in 0 .. MaxRequests
  BY <1>1 DEF Menu!Request
<1>3. kind' \in [Menu!Request -> Kinds] /\ kind'[requests'] = k
      /\ \A r \in Menu!Request : r <= requests => kind'[r] = kind[r]
  BY <1>1, <1>2 DEF Menu!Request
<1>4. result = Menu!NoResult /\ tester = 0 /\ Calls = {} /\ Waiting = {}
  BY DEF OnePlace, Testing, Called, Awaited, Shown
<1>5. ASSUME NEW e \in Entries(queue)
      PROVE  e.req <= requests' /\ kind'[e.req] # "menu"
  <2>1. e \in Menu!Result /\ e.req <= requests
    BY EntriesOf DEF MenuShape
  <2>2. e.req \in Menu!Request /\ kind[e.req] # "menu"
    BY <1>4, <2>1 DEF Calls, Menu!Result
  <2>3. e.req <= requests'
    BY <1>1, <2>1, <2>2 DEF Menu!Request
  <2> QED
    BY <1>3, <2>1, <2>2, <2>3
<1>6. ASSUME NEW s \in commands
      PROVE  s.req <= requests' /\ kind'[s.req] # "menu"
  <2>1. s.req \in Menu!Request /\ s.req <= requests /\ kind[s.req] # "menu"
    BY <1>4 DEF MenuShape, Waiting
  <2>2. s.req <= requests'
    BY <1>1, <2>1 DEF Menu!Request
  <2> QED
    BY <1>3, <2>1, <2>2
<1> QED
  BY <1>1, <1>2, <1>3, <1>4, <1>5, <1>6

LEMMA Quiet ==
  ASSUME MenuShape, OnePlace, loading => visible', mapping' \in {"none", "key", "gamepad"},
         UNCHANGED <<kind, requests, main, tester, queue, commands, result, loading>>,
         controller' \in Nat, controller <= controller'
  PROVE  MenuShape' /\ OnePlace'
<1>1. Calls' = Calls /\ Waiting' = Waiting
  BY DEF Calls, Waiting, Entries
<1>2. \A s \in commands' : s.to <= controller'
  BY DEF MenuShape
<1>3. MenuShape'
  BY <1>2 DEF MenuShape, Entries
<1>4. OnePlace'
  BY <1>1 DEF OnePlace, Loading, Asking, Testing, Called, Awaited, Shown
<1> QED
  BY <1>3, <1>4

(* Commands that are answered go from the commands to the queue. *)
LEMMA Answered ==
  ASSUME MenuShape, OnePlace, NEW own \in SUBSET commands, NEW T \in SUBSET Menu!Result,
         \A e \in T : \E s \in own : e.req = s.req,
         commands' = commands \ own, queue' \in Seq(Menu!Result),
         Entries(queue') = Entries(queue) \cup T, main' = main \/ main' = "idle",
         UNCHANGED <<visible, mapping, loading, result, kind, requests, tester, controller>>
  PROVE  MenuShape' /\ OnePlace'
<1>1. \A e \in T : \E s \in commands : e.req = s.req
  OBVIOUS
<1>2. MenuShape'
  BY <1>1 DEF MenuShape, Entries
<1>3. Waiting' = Waiting \ own /\ Calls' = Calls \cup {e \in T : kind[e.req] = "menu"}
  BY DEF Waiting, Calls, Entries
<1>4. \A e \in T : kind[e.req] = "menu" => \E s \in Waiting : s \in own /\ e.req = s.req
  BY DEF Waiting
<1>5. CASE Waiting = {}
  <2>1. Waiting' = {} /\ Calls' = Calls
    BY <1>3, <1>4, <1>5
  <2> QED
    BY <1>2, <2>1 DEF OnePlace, Loading, Asking, Testing, Called, Awaited, Shown
<1>6. CASE Waiting # {}
  <2>1. Calls = {} /\ main \notin {"check", "register"} /\ loading /\ result = Menu!NoResult
        /\ tester = 0 /\ \A s \in Waiting : s.req = requests /\ Waiting = {s}
    BY <1>6 DEF OnePlace, Called, Awaited, Asking
  <2>2. CASE Calls' = {}
    BY <1>2, <1>3, <2>1, <2>2 DEF OnePlace, Loading, Asking, Testing, Called, Awaited, Shown
  <2>3. CASE Calls' # {}
    <3>1. PICK s \in Waiting : s \in own
      BY <1>3, <1>4, <2>1, <2>3
    <3>2. Waiting' = {}
      BY <1>3, <2>1, <3>1
    <3>3. \A e \in Calls' : e.req = requests
      BY <1>3, <1>4, <2>1
    <3> QED
      BY <1>2, <2>1, <3>2, <3>3 DEF OnePlace, Loading, Asking, Testing, Called, Awaited, Shown
  <2> QED
    BY <2>2, <2>3
<1> QED
  BY <1>5, <1>6

LEMMA OneAnswered ==
  ASSUME MenuShape, OnePlace, NEW s \in commands, NEW e \in Menu!Result, e.req = s.req,
         commands' = commands \ {s}, queue' \in Seq(Menu!Result),
         Entries(queue') = Entries(queue) \cup {e}, main' = main \/ main' = "idle",
         UNCHANGED <<visible, mapping, loading, result, kind, requests, tester, controller>>
  PROVE  MenuShape' /\ OnePlace'
<1> DEFINE own == {s}
           T == {e}
<1>1. own \in SUBSET commands /\ T \in SUBSET Menu!Result /\ \A x \in T : \E y \in own : x.req = y.req
  OBVIOUS
<1>2. commands' = commands \ own /\ Entries(queue') = Entries(queue) \cup T
  OBVIOUS
<1> HIDE DEF own, T
<1> QED
  BY <1>1, <1>2, Answered

LEMMA NoneAnswered ==
  ASSUME MenuShape, OnePlace, commands' = commands, queue' = queue,
         main' = main \/ main' = "idle",
         UNCHANGED <<visible, mapping, loading, result, kind, requests, tester, controller>>
  PROVE  MenuShape' /\ OnePlace'
<1>1. Calls' = Calls /\ Waiting' = Waiting
  BY DEF Calls, Waiting, Entries
<1>2. MenuShape'
  BY DEF MenuShape, Entries
<1> QED
  BY <1>1, <1>2 DEF OnePlace, Loading, Asking, Testing, Called, Awaited, Shown

LEMMA CommandStep ==
  ASSUME MenuShape, OnePlace, Menu!Command
  PROVE  MenuShape' /\ OnePlace'
<1> DEFINE e == [req |-> requests', ok |-> FALSE]
<1>1. /\ main = "idle" /\ visible /\ ~loading /\ Menu!New("menu") /\ loading'
      /\ UNCHANGED <<visible, mapping, result, tester, commands, controller>>
      /\ \/ queue' = Append(queue, e) /\ main' = main
         \/ main' = "check" /\ queue' = queue
  BY DEF Menu!Command, Menu!Usable, Menu!Free, Menu!send_command, Menu!Answer, Menu!view, Menu!network,
         Menu!commands
<1>2. /\ requests' \in Menu!Request /\ requests' # 0 /\ requests' \in 0 .. MaxRequests
      /\ kind' \in [Menu!Request -> Kinds] /\ kind'[requests'] = "menu"
      /\ result = Menu!NoResult /\ tester = 0 /\ Calls = {} /\ Waiting = {}
      /\ \A x \in Entries(queue) : x.req <= requests' /\ kind'[x.req] # "menu"
      /\ \A s \in commands : s.req <= requests' /\ kind'[s.req] # "menu"
  BY <1>1, NewRequest DEF Kinds
<1>3. Waiting' = {}
  BY <1>1, <1>2 DEF Waiting
<1>4. e \in Menu!Result /\ e.req = requests' /\ requests' <= requests'
  BY <1>2 DEF Menu!Result, Menu!Request
<1>5. queue' \in Seq(Menu!Result) /\ Entries(queue') \subseteq Entries(queue) \cup {e}
      /\ (main' = "check" => Entries(queue') = Entries(queue))
  <2>1. CASE queue' = Append(queue, e) /\ main' = main
    BY <1>1, <1>4, <2>1, EntriesAppended DEF MenuShape
  <2>2. CASE main' = "check" /\ queue' = queue
    BY <2>2 DEF MenuShape, Entries
  <2> QED
    BY <1>1, <2>1, <2>2
<1> HIDE DEF e
<1>6. Calls' = {x \in Entries(queue') : kind'[x.req] = "menu"}
  BY DEF Calls, Entries
<1>7. Calls' \subseteq {e} /\ (main' = "check" => Calls' = {})
  BY <1>2, <1>5, <1>6
<1>8. MenuShape'
  <2>1. \A x \in Entries(queue') : x.req <= requests'
    BY <1>2, <1>4, <1>5
  <2>2. Entries(queue)' = Entries(queue')
    BY DEF Entries
  <2> QED
    BY <1>1, <1>2, <1>5, <2>1, <2>2 DEF MenuShape
<1> QED
  BY <1>1, <1>2, <1>3, <1>4, <1>7, <1>8 DEF OnePlace, Loading, Asking, Testing, Called, Awaited, Shown

LEMMA ShortcutStep ==
  ASSUME MenuShape, OnePlace, Menu!Shortcut
  PROVE  MenuShape' /\ OnePlace'
<1> DEFINE e == [req |-> requests', ok |-> FALSE]
<1>1. /\ main = "idle" /\ ~visible /\ Menu!New("shortcut")
      /\ UNCHANGED <<visible, mapping, loading, result, tester, commands, controller>>
      /\ \/ queue' = Append(queue, e) /\ main' = main
         \/ main' = "check" /\ queue' = queue
  BY DEF Menu!Shortcut, Menu!Free, Menu!send_command, Menu!Answer, Menu!view, Menu!network,
         Menu!commands, Menu!overlay
<1>2. ~loading
  BY <1>1 DEF OnePlace, Loading
<1>3. /\ requests' \in Menu!Request /\ requests' # 0 /\ requests' \in 0 .. MaxRequests
      /\ kind' \in [Menu!Request -> Kinds] /\ kind'[requests'] = "shortcut"
      /\ result = Menu!NoResult /\ tester = 0 /\ Calls = {} /\ Waiting = {}
      /\ \A x \in Entries(queue) : x.req <= requests' /\ kind'[x.req] # "menu"
      /\ \A s \in commands : s.req <= requests' /\ kind'[s.req] # "menu"
  BY <1>1, <1>2, NewRequest DEF Kinds
<1>4. Waiting' = {}
  BY <1>1, <1>3 DEF Waiting
<1>5. e \in Menu!Result /\ e.req = requests' /\ requests' <= requests'
  BY <1>3 DEF Menu!Result, Menu!Request
<1>6. queue' \in Seq(Menu!Result) /\ Entries(queue') \subseteq Entries(queue) \cup {e}
  <2>1. CASE queue' = Append(queue, e) /\ main' = main
    BY <1>1, <1>5, <2>1, EntriesAppended DEF MenuShape
  <2>2. CASE main' = "check" /\ queue' = queue
    BY <2>2 DEF MenuShape, Entries
  <2> QED
    BY <1>1, <2>1, <2>2
<1> HIDE DEF e
<1>7. Calls' = {x \in Entries(queue') : kind'[x.req] = "menu"}
  BY DEF Calls, Entries
<1>8. Calls' = {}
  BY <1>3, <1>5, <1>6, <1>7
<1>9. MenuShape'
  <2>1. \A x \in Entries(queue') : x.req <= requests'
    BY <1>3, <1>5, <1>6
  <2>2. Entries(queue)' = Entries(queue')
    BY DEF Entries
  <2> QED
    BY <1>1, <1>3, <1>6, <2>1, <2>2 DEF MenuShape
<1> QED
  BY <1>1, <1>2, <1>3, <1>4, <1>8, <1>9 DEF OnePlace, Loading, Asking, Testing, Called, Awaited, Shown

LEMMA TestStep ==
  ASSUME MenuShape, OnePlace, Menu!TestRelay
  PROVE  MenuShape' /\ OnePlace'
<1>1. /\ main = "idle" /\ visible /\ ~loading /\ Menu!New("test") /\ loading' /\ tester' = requests'
      /\ UNCHANGED <<visible, mapping, result, main, queue, commands, controller>>
  BY DEF Menu!TestRelay, Menu!Usable, Menu!Free, Menu!view, Menu!network, Menu!commands
<1>2. /\ requests' \in Menu!Request /\ requests' # 0 /\ requests' \in 0 .. MaxRequests
      /\ kind' \in [Menu!Request -> Kinds] /\ kind'[requests'] = "test"
      /\ result = Menu!NoResult /\ tester = 0 /\ Calls = {} /\ Waiting = {}
      /\ \A x \in Entries(queue) : x.req <= requests' /\ kind'[x.req] # "menu"
      /\ \A s \in commands : s.req <= requests' /\ kind'[s.req] # "menu"
  BY <1>1, NewRequest DEF Kinds
<1>3. Waiting' = {} /\ Calls' = {}
  BY <1>1, <1>2 DEF Waiting, Calls, Entries
<1>4. MenuShape'
  BY <1>1, <1>2 DEF MenuShape, Entries
<1> QED
  BY <1>1, <1>2, <1>3, <1>4 DEF OnePlace, Loading, Asking, Testing, Called, Awaited, Shown

(* The thread of a test leaves its result. *)
LEMMA TestDoneStep ==
  ASSUME MenuShape, OnePlace, Menu!TestDone
  PROVE  MenuShape' /\ OnePlace'
<1>1. /\ tester # 0 /\ tester' = 0 /\ \E ok \in BOOLEAN : result' = [req |-> tester, ok |-> ok]
      /\ UNCHANGED <<visible, mapping, loading, kind, requests, main, queue, commands, controller>>
  BY DEF Menu!TestDone, Menu!view, Menu!asking, Menu!network, Menu!commands
<1>2. /\ result'.req = tester /\ tester = requests /\ loading /\ main = "idle"
      /\ Calls = {} /\ Waiting = {}
  BY <1>1 DEF OnePlace, Testing, Asking, Called, Awaited
<1>3. Waiting' = {} /\ Calls' = {}
  BY <1>1, <1>2 DEF Waiting, Calls, Entries
<1>4. MenuShape'
  BY <1>1 DEF MenuShape, Entries
<1> QED
  BY <1>1, <1>2, <1>3, <1>4 DEF OnePlace, Loading, Asking, Testing, Called, Awaited, Shown

(* send_command looks for a server, and then for its controller again. *)
LEMMA CheckStep ==
  ASSUME MenuShape, OnePlace, Menu!Check
  PROVE  MenuShape' /\ OnePlace'
<1>1. /\ main = "check"
      /\ \/ main' = "register" /\ result' = result
         \/ /\ main' = "idle"
            /\ result' = IF kind[requests] = "menu" THEN [req |-> requests, ok |-> FALSE] ELSE result
      /\ UNCHANGED <<visible, mapping, loading, kind, requests, tester, queue, commands, controller>>
  BY DEF Menu!Check, Menu!view, Menu!network, Menu!commands
<1>2. /\ requests # 0 /\ (kind[requests] = "menu" => loading)
      /\ tester = 0 /\ result = Menu!NoResult /\ Calls = {} /\ Waiting = {}
  BY <1>1 DEF OnePlace, Asking
<1>3. Waiting' = {} /\ Calls' = {}
  BY <1>1, <1>2 DEF Waiting, Calls, Entries
<1>4. MenuShape'
  BY <1>1 DEF MenuShape, Entries
<1>5. Shown'
  BY <1>1, <1>2 DEF Shown
<1> QED
  BY <1>1, <1>2, <1>3, <1>4, <1>5 DEF OnePlace, Loading, Asking, Testing, Called, Awaited

LEMMA RegisterStep ==
  ASSUME MenuShape, OnePlace, Menu!Register
  PROVE  MenuShape' /\ OnePlace'
<1> DEFINE s == [req |-> requests, to |-> controller]
<1>1. /\ main = "register"
      /\ \/ main' = "crashed" /\ commands' = commands
         \/ main' = "submit" /\ commands' = commands \cup {s}
      /\ UNCHANGED <<visible, mapping, loading, result, kind, requests, tester, queue, controller>>
  BY DEF Menu!Register, Menu!view, Menu!network, Menu!overlay
<1>2. /\ requests # 0 /\ (kind[requests] = "menu" => loading)
      /\ tester = 0 /\ result = Menu!NoResult /\ Calls = {} /\ Waiting = {}
  BY <1>1 DEF OnePlace, Asking
<1>3. s \in [req : Menu!Request, to : Nat] /\ s.req = requests /\ s.to = controller
      /\ requests <= requests /\ controller <= controller
  BY <1>2, MenuAssumption DEF MenuShape, Menu!Request
<1> HIDE DEF s
<1>4. Calls' = {} /\ Waiting' \subseteq {s} /\ (Waiting' # {} => kind[requests] = "menu")
  BY <1>1, <1>2, <1>3 DEF Calls, Waiting, Entries
<1>5. MenuShape'
  BY <1>1, <1>3 DEF MenuShape, Entries
<1>6. Awaited'
  BY <1>1, <1>2, <1>3, <1>4 DEF Awaited
<1> QED
  BY <1>1, <1>2, <1>4, <1>5, <1>6 DEF OnePlace, Loading, Asking, Testing, Called, Shown

(* The command that is submitted is the one that was registered, if it is  *)
(* still there.                                                            *)
LEMMA MineFacts ==
  ASSUME MenuShape, requests # 0
  PROVE  /\ Menu!Mine.req = requests
         /\ Menu!Mine \in commands \/ Menu!Newest(commands) = {}
<1> DEFINE P(s) == s \in commands \/ (s.to = controller /\ Menu!Newest(commands) = {})
           D == [req : {requests}, to : 0 .. controller]
<1>1. controller \in Nat /\ \A s \in commands : s \in [req : Menu!Request, to : Nat] /\ s.to <= controller
  BY DEF MenuShape
<1>2. \E s \in D : P(s)
  <2>1. CASE Menu!Newest(commands) = {}
    <3>1. [req |-> requests, to |-> controller] \in D
      BY <1>1
    <3> QED
      BY <2>1, <3>1
  <2>2. CASE Menu!Newest(commands) # {}
    <3>1. PICK s \in commands : s.req = requests
      BY <2>2 DEF Menu!Newest
    <3>2. s \in [req : {requests}, to : Nat] /\ s.to \in Nat /\ s.to <= controller
      BY <1>1, <3>1
    <3>3. s \in D
      BY <1>1, <3>2
    <3> QED
      BY <3>1, <3>3
  <2> QED
    BY <2>1, <2>2
<1>3. Menu!Mine = CHOOSE s \in D : P(s)
  BY DEF Menu!Mine
<1>4. Menu!Mine \in D /\ P(Menu!Mine)
  <2> HIDE DEF D, P
  <2> QED
    BY <1>2, <1>3
<1> QED
  BY <1>4

LEMMA SubmitStep ==
  ASSUME MenuShape, OnePlace, Menu!Submit
  PROVE  MenuShape' /\ OnePlace'
<1> DEFINE m == Menu!Mine
           e == [req |-> requests, ok |-> FALSE]
<1>1. /\ main = "submit" /\ main' = "idle"
      /\ \/ commands' = commands /\ queue' = queue
         \/ commands' = commands \ {m} /\ queue' = Append(queue, e)
      /\ UNCHANGED <<visible, mapping, loading, result, kind, requests, tester, controller>>
  BY DEF Menu!Submit, Menu!Answer, Menu!view, Menu!overlay, Menu!network
<1>2. /\ requests # 0 /\ (kind[requests] = "menu" => loading)
      /\ tester = 0 /\ result = Menu!NoResult
  BY <1>1 DEF OnePlace, Asking
<1>3. e \in Menu!Result /\ e.req = requests /\ requests <= requests
  BY <1>2, MenuAssumption DEF MenuShape, Menu!Result, Menu!Request
<1>4. m.req = requests /\ (m \in commands \/ Menu!Newest(commands) = {})
  BY <1>2, MineFacts
<1> HIDE DEF m, e
<1>5. queue \in Seq(Menu!Result)
  BY DEF MenuShape
<1>6. CASE commands' = commands /\ queue' = queue
  BY <1>1, <1>5, <1>6, NoneAnswered
<1>7. CASE commands' = commands \ {m} /\ queue' = Append(queue, e)
  <2>1. queue' \in Seq(Menu!Result) /\ Entries(queue') = Entries(queue) \cup {e}
    BY <1>3, <1>5, <1>7, EntriesAppended
  <2>2. CASE m \in commands
    BY <1>1, <1>3, <1>4, <1>7, <2>1, <2>2, OneAnswered
  <2>3. CASE m \notin commands
    <3>1. commands' = commands /\ \A s \in commands : s.req # requests
      BY <1>4, <1>7, <2>3 DEF Menu!Newest
    <3>2. Waiting = {}
      BY <3>1 DEF OnePlace, Awaited, Waiting
    <3>3. Waiting' = {}
      BY <1>1, <3>1, <3>2 DEF Waiting
    <3>4. Calls' = {x \in Entries(queue') : kind[x.req] = "menu"}
      BY <1>1 DEF Calls, Entries
    <3>5. MenuShape'
      BY <1>1, <1>3, <2>1, <3>1 DEF MenuShape, Entries
    <3>6. Called'
      <4>1. CASE kind[requests] = "menu"
        <5>1. loading' /\ result' = Menu!NoResult /\ tester' = 0 /\ requests' = requests
          BY <1>1, <1>2, <4>1
        <5>2. \A x \in Calls : x.req = requests
          BY DEF OnePlace, Called
        <5>3. \A x \in Calls' : x.req = requests
          BY <1>3, <2>1, <3>4, <5>2 DEF Calls
        <5> QED
          BY <3>3, <5>1, <5>3 DEF Called
      <4>2. CASE kind[requests] # "menu"
        <5>1. Calls' = Calls
          BY <1>3, <2>1, <3>4, <4>2 DEF Calls
        <5> QED
          BY <1>1, <3>3, <5>1 DEF OnePlace, Called
      <4> QED
        BY <4>1, <4>2
    <3> QED
      BY <1>1, <1>2, <3>3, <3>5, <3>6 DEF OnePlace, Loading, Asking, Testing, Awaited, Shown
  <2> QED
    BY <2>2, <2>3
<1> QED
  BY <1>1, <1>6, <1>7

(* The streamer acknowledges a command, or its task gives up. *)
LEMMA WorkerStep ==
  ASSUME MenuShape, OnePlace, NEW s, Menu!command_ack_handler(s) \/ Menu!TaskEnds(s)
  PROVE  MenuShape' /\ OnePlace'
<1>1. /\ UNCHANGED <<visible, mapping, loading, result, kind, requests, main, tester, controller>>
      /\ commands' = commands \ {s}
      /\ IF s \in commands
         THEN \E ok \in BOOLEAN : queue' = Append(queue, [req |-> s.req, ok |-> ok])
         ELSE queue' = queue
  BY DEF Menu!command_ack_handler, Menu!TaskEnds, Menu!Answer, Menu!view, Menu!overlay, Menu!asking,
         Menu!network
<1>2. queue \in Seq(Menu!Result)
  BY DEF MenuShape
<1>3. CASE s \in commands
  <2>1. PICK ok \in BOOLEAN : queue' = Append(queue, [req |-> s.req, ok |-> ok])
    BY <1>1, <1>3
  <2> DEFINE e == [req |-> s.req, ok |-> ok]
  <2>2. e \in Menu!Result /\ e.req = s.req
    BY <1>3 DEF MenuShape, Menu!Result
  <2> HIDE DEF e
  <2>3. queue' \in Seq(Menu!Result) /\ Entries(queue') = Entries(queue) \cup {e}
    BY <1>2, <2>1, <2>2, EntriesAppended DEF e
  <2> QED
    BY <1>1, <1>3, <2>2, <2>3, OneAnswered
<1>4. CASE s \notin commands
  <2>1. commands' = commands /\ queue' = queue
    BY <1>1, <1>4
  <2> QED
    BY <1>1, <2>1, NoneAnswered
<1> QED
  BY <1>3, <1>4

(* The server that stops answers all its commands. *)
LEMMA StopNotifyStep ==
  ASSUME MenuShape, OnePlace, Menu!StopNotify
  PROVE  MenuShape' /\ OnePlace'
<1> DEFINE own == {s \in commands : s.to = controller}
           T == {[req |-> s.req, ok |-> FALSE] : s \in own}
           F == [r \in 1 .. MaxRequests |-> [req |-> r, ok |-> FALSE]]
           I == {F[r] : r \in 1 .. MaxRequests}
<1>1. /\ UNCHANGED <<visible, mapping, loading, result, kind, requests, main, tester, controller>>
      /\ commands' = commands \ own /\ queue' = queue \o Menu!SetToSeq(T)
  BY DEF Menu!StopNotify, Menu!view, Menu!overlay, Menu!asking, Menu!network
<1>2. \A s \in own : s \in commands /\ s.req \in 1 .. MaxRequests
  BY DEF MenuShape, Menu!Request
<1>3. T \subseteq Menu!Result /\ T \subseteq I
  <2>1. ASSUME NEW s \in own
        PROVE  [req |-> s.req, ok |-> FALSE] \in Menu!Result /\ [req |-> s.req, ok |-> FALSE] \in I
    <3>1. s.req \in 1 .. MaxRequests
      BY <1>2
    <3>2. F[s.req] = [req |-> s.req, ok |-> FALSE]
      BY <3>1
    <3>3. F[s.req] \in I
      BY <3>1
    <3> HIDE DEF F, I
    <3> QED
      BY <3>1, <3>2, <3>3 DEF Menu!Result, Menu!Request
  <2> QED
    BY <2>1
<1>4. IsFiniteSet(T)
  <2>1. IsFiniteSet(1 .. MaxRequests)
    BY FS_Interval, MenuAssumption
  <2>2. F \in Surjection(1 .. MaxRequests, I)
    BY DEF Surjection
  <2>3. IsFiniteSet(I)
    BY <2>1, <2>2, FS_Surjection
  <2> QED
    BY <1>3, <2>3, FS_Subset
<1>5. own \in SUBSET commands /\ \A e \in T : \E s \in own : e.req = s.req
  OBVIOUS
<1> HIDE DEF own, T, F, I
<1>6. Menu!SetToSeq(T) \in Seq(T) /\ Entries(Menu!SetToSeq(T)) = T
  BY <1>4, Listed
<1>7. Menu!SetToSeq(T) \in Seq(Menu!Result)
  BY <1>3, <1>6
<1>8. queue' \in Seq(Menu!Result) /\ Entries(queue') = Entries(queue) \cup T
  BY <1>1, <1>6, <1>7, EntriesJoined DEF MenuShape
<1> QED
  BY <1>1, <1>3, <1>5, <1>8, Answered

(* The main thread calls back, and then draws. *)
LEMMA CallBackStep ==
  ASSUME MenuShape, OnePlace, Menu!process_callbacks
  PROVE  MenuShape' /\ OnePlace'
<1> DEFINE own == {i \in DOMAIN queue : kind[queue[i].req] = "menu"}
<1>1. /\ main = "idle" /\ queue' = <<>>
      /\ result' = IF own = {} THEN result ELSE queue[Menu!Max(own)]
      /\ UNCHANGED <<visible, mapping, loading, kind, requests, main, tester, commands, controller>>
  BY DEF Menu!process_callbacks, Menu!Free, Menu!view, Menu!asking, Menu!network, Menu!commands
<1>2. queue \in Seq(Menu!Result) /\ Len(queue) \in Nat /\ DOMAIN queue = 1 .. Len(queue)
  BY LenProperties DEF MenuShape
<1>3. own \in SUBSET (1 .. Len(queue)) /\ \A i \in own : queue[i] \in Calls
  BY <1>2 DEF Calls, Entries
<1>4. own = {} => Calls = {}
  BY DEF Calls, Entries
<1> HIDE DEF own
<1>5. queue' \in Seq(Menu!Result) /\ Entries(queue') = {}
  <2>1. <<>> \in Seq(Menu!Result)
    BY Zenon, EmptySeq
  <2> QED
    BY <1>1, <2>1, EntriesOf
<1>6. Calls' = {}
  BY <1>5 DEF Calls, Entries
<1>7. Waiting' = Waiting
  BY <1>1 DEF Waiting
<1>8. MenuShape'
  BY <1>1, <1>5 DEF MenuShape, Entries
<1>9. CASE own = {}
  BY <1>1, <1>6, <1>7, <1>8, <1>9 DEF OnePlace, Loading, Asking, Testing, Called, Awaited, Shown
<1>10. CASE own # {}
  <2>1. result' \in Calls
    BY <1>1, <1>2, <1>3, <1>10, Largest
  <2>2. loading /\ tester = 0 /\ Waiting = {} /\ result'.req = requests
    BY <2>1 DEF OnePlace, Called
  <2> QED
    BY <1>1, <1>6, <1>7, <1>8, <2>2 DEF OnePlace, Loading, Asking, Testing, Called, Awaited, Shown
<1> QED
  BY <1>9, <1>10

LEMMA DrawStep ==
  ASSUME MenuShape, OnePlace, Menu!_process_pending_result
  PROVE  MenuShape' /\ OnePlace'
<1>1. /\ main = "idle" /\ result # Menu!NoResult
      /\ \/ UNCHANGED <<loading, result>>
         \/ ~loading' /\ result' = Menu!NoResult
      /\ UNCHANGED <<visible, mapping, kind, requests, main, tester, queue, commands, controller>>
  BY DEF Menu!_process_pending_result, Menu!Free, Menu!view, Menu!asking, Menu!network, Menu!commands
<1>2. Calls = {} /\ Waiting = {} /\ tester = 0
  BY <1>1 DEF OnePlace, Called, Awaited, Testing
<1>3. Calls' = {} /\ Waiting' = {}
  BY <1>1, <1>2 DEF Calls, Waiting, Entries
<1>4. MenuShape'
  BY <1>1 DEF MenuShape, Entries
<1>5. CASE UNCHANGED <<loading, result>>
  BY <1>1, <1>3, <1>4, <1>5 DEF OnePlace, Loading, Asking, Testing, Called, Awaited, Shown
<1>6. CASE ~loading' /\ result' = Menu!NoResult
  <2>1. Loading' /\ Called' /\ Awaited' /\ Shown'
    BY <1>3, <1>6 DEF Loading, Called, Awaited, Shown
  <2>2. Asking' /\ Testing'
    BY <1>1, <1>2 DEF Asking, Testing
  <2> QED
    BY <1>4, <2>1, <2>2 DEF OnePlace
<1> QED
  BY <1>1, <1>5, <1>6

(* The other steps leave what is under way alone. *)
LEMMA QuietSteps ==
  ASSUME MenuShape, OnePlace,
         \/ Menu!connect \/ Menu!show \/ Menu!BackButton \/ Menu!Escape \/ Menu!EndMapping
         \/ \E t \in Menu!Tabs : Menu!Choose(t)
         \/ \E w \in {"key", "gamepad"} : Menu!StartMapping(w)
         \/ Menu!RestartWaits \/ Menu!StopShut \/ Menu!RestartCreate \/ Menu!SetupDone
         \/ \E c \in BOOLEAN : Menu!ConnectionChange(c)
         \/ UNCHANGED menuVars
  PROVE  MenuShape' /\ OnePlace'
<1>1. UNCHANGED <<kind, requests, main, tester, queue, commands, result, loading>>
  BY DEF Menu!connect, Menu!show, Menu!BackButton, Menu!Escape, Menu!EndMapping, Menu!Choose,
         Menu!StartMapping, Menu!RestartWaits, Menu!StopShut, Menu!RestartCreate, Menu!SetupDone,
         Menu!ConnectionChange, Menu!Leave, Menu!overlay, Menu!asking, Menu!commands, menuVars
<1>2. mapping' = mapping \/ mapping' \in {"none", "key", "gamepad"}
  BY DEF Menu!connect, Menu!show, Menu!BackButton, Menu!Escape, Menu!EndMapping, Menu!Choose,
         Menu!StartMapping, Menu!RestartWaits, Menu!StopShut, Menu!RestartCreate, Menu!SetupDone,
         Menu!ConnectionChange, Menu!Leave, menuVars
<1>3. visible' = visible \/ visible' = TRUE \/ ~loading
  BY DEF Menu!connect, Menu!show, Menu!BackButton, Menu!Escape, Menu!EndMapping, Menu!Choose,
         Menu!StartMapping, Menu!RestartWaits, Menu!StopShut, Menu!RestartCreate, Menu!SetupDone,
         Menu!ConnectionChange, Menu!Usable, Menu!view, menuVars
<1>4. controller' = controller \/ controller' = controller + 1
  BY DEF Menu!connect, Menu!show, Menu!BackButton, Menu!Escape, Menu!EndMapping, Menu!Choose,
         Menu!StartMapping, Menu!RestartWaits, Menu!StopShut, Menu!RestartCreate, Menu!SetupDone,
         Menu!ConnectionChange, Menu!Leave, Menu!network, menuVars
<1>5. controller' \in Nat /\ controller <= controller'
  BY <1>4 DEF MenuShape
<1>6. mapping' \in {"none", "key", "gamepad"}
  BY <1>2 DEF MenuShape
<1>7. loading => visible'
  BY <1>3 DEF OnePlace, Loading
<1> QED
  BY <1>1, <1>5, <1>6, <1>7, Quiet

LEMMA MenuPlaceStep ==
  ASSUME MenuShape, OnePlace, Menu!Next \/ UNCHANGED menuVars
  PROVE  MenuShape' /\ OnePlace'
<1>1. CASE Menu!User
  BY <1>1, CommandStep, ShortcutStep, TestStep, QuietSteps DEF Menu!User
<1>2. CASE Menu!MainLoop
  BY <1>2, CheckStep, RegisterStep, SubmitStep, CallBackStep, DrawStep DEF Menu!MainLoop
<1>3. CASE Menu!Restarting
  BY <1>3, StopNotifyStep, QuietSteps DEF Menu!Restarting
<1>4. CASE \E s \in Menu!Sent : Menu!command_ack_handler(s) \/ Menu!TaskEnds(s)
  BY <1>4, WorkerStep
<1>5. CASE Menu!TestDone
  BY <1>5, TestDoneStep
<1>6. CASE Menu!SetupDone \/ (\E c \in BOOLEAN : Menu!ConnectionChange(c)) \/ UNCHANGED menuVars
  BY <1>6, QuietSteps
<1> QED
  BY <1>1, <1>2, <1>3, <1>4, <1>5, <1>6 DEF Menu!Next

LEMMA LockStep ==
  ASSUME MenuInv, Menu!Next \/ UNCHANGED menuVars
  PROVE  Lock'
<1> USE DEF MenuInv, Menu!Usable, Menu!Free
<1>1. CASE UNCHANGED <<visible, tab, mapping, locked, escaped, loading, kind, requests>>
  BY <1>1 DEF Lock
<1>2. CASE Menu!User
  <2>1. CASE Menu!connect \/ Menu!show
    <3>1. (visible' = visible \/ visible')
          /\ UNCHANGED <<tab, mapping, locked, escaped, loading, kind, requests>>
      BY <2>1 DEF Menu!connect, Menu!show, Menu!view, Menu!overlay, Menu!asking
    <3> QED
      BY <3>1 DEF Lock
  <2>2. CASE Menu!BackButton \/ \E t \in Menu!Tabs : Menu!Choose(t)
    <3>1. ~locked /\ locked' = locked
      BY <2>2 DEF Menu!BackButton, Menu!Choose
    <3> QED
      BY <3>1 DEF Lock
  <2>3. CASE Menu!Escape
    <3>1. /\ ~loading /\ escaped' = (escaped \/ mapping = "gamepad")
          /\ IF mapping = "key" THEN mapping' = "none" /\ locked' = FALSE
             ELSE UNCHANGED <<mapping, locked>>
      BY <2>3 DEF Menu!Escape
    <3>2. CASE mapping = "key"
      BY <3>1, <3>2 DEF Lock
    <3>3. CASE mapping = "gamepad"
      BY <3>1, <3>3 DEF Lock
    <3>4. CASE mapping = "none"
      <4>1. ~(locked /\ ~escaped)
        BY <3>1, <3>4 DEF Lock
      <4> QED
        BY <3>1, <3>4, <4>1 DEF Lock
    <3> QED
      BY <3>2, <3>3, <3>4 DEF MenuShape
  <2>4. CASE \E w \in {"key", "gamepad"} : Menu!StartMapping(w)
    <3>1. ~loading /\ visible /\ tab = "Input" /\ mapping' # "none"
          /\ UNCHANGED <<visible, tab, loading>>
      BY <2>4 DEF Menu!StartMapping, Menu!view, Menu!overlay
    <3> QED
      BY <3>1 DEF Lock
  <2>5. CASE Menu!EndMapping
    BY <2>5 DEF Menu!EndMapping, Lock
  <2>6. CASE Menu!Command
    <3>1. loading' /\ ~loading /\ Menu!New("menu")
      BY <2>6 DEF Menu!Command
    <3>2. kind'[requests'] = "menu"
      BY <3>1, NewRequest DEF Kinds
    <3> QED
      BY <3>1, <3>2 DEF Lock
  <2>7. CASE Menu!Shortcut \/ Menu!TestRelay
    <3>1. ~loading /\ (~visible \/ tab # "Input") /\ UNCHANGED <<locked, escaped>>
      BY <2>7 DEF Menu!Shortcut, Menu!TestRelay, OnePlace, Loading
    <3> QED
      BY <3>1 DEF Lock
  <2> QED
    BY <1>2, <2>1, <2>2, <2>3, <2>4, <2>5, <2>6, <2>7 DEF Menu!User
<1>3. CASE Menu!Check \/ Menu!Register \/ Menu!Submit \/ Menu!process_callbacks
  BY <1>1, <1>3 DEF Menu!Check, Menu!Register, Menu!Submit, Menu!process_callbacks, Menu!view,
       Menu!overlay, Menu!asking
<1>4. CASE Menu!_process_pending_result
  <2>1. /\ result # Menu!NoResult
        /\ UNCHANGED <<visible, tab, mapping, escaped, kind, requests>>
        /\ \/ UNCHANGED <<locked, loading>>
           \/ locked' = IF kind[result.req] = "menu" THEN FALSE ELSE locked
    BY <1>4 DEF Menu!_process_pending_result, Menu!view, Menu!asking
  <2>2. loading /\ result.req = requests
    BY <2>1 DEF OnePlace, Shown
  <2>3. CASE kind[requests] = "menu"
    BY <1>1, <2>1, <2>2, <2>3 DEF Lock
  <2>4. CASE kind[requests] # "menu"
    <3>1. ~(locked /\ ~escaped) /\ UNCHANGED <<locked, escaped>>
      BY <2>1, <2>2, <2>4 DEF Lock
    <3> QED
      BY <3>1 DEF Lock
  <2> QED
    BY <2>3, <2>4
<1>5. CASE Menu!Restarting
  BY <1>1, <1>5 DEF Menu!Restarting, Menu!RestartWaits, Menu!StopNotify, Menu!StopShut,
       Menu!RestartCreate, Menu!view, Menu!overlay, Menu!asking
<1>6. CASE Menu!TestDone \/ Menu!SetupDone
           \/ \E s \in Menu!Sent : Menu!command_ack_handler(s) \/ Menu!TaskEnds(s)
  BY <1>1, <1>6 DEF Menu!TestDone, Menu!SetupDone, Menu!command_ack_handler, Menu!TaskEnds,
       Menu!view, Menu!overlay, Menu!asking
<1>7. CASE \E c \in BOOLEAN : Menu!ConnectionChange(c)
  <2>1. (tab = "Input" => tab' = "Input")
        /\ UNCHANGED <<visible, mapping, locked, escaped, loading, kind, requests>>
    BY <1>7 DEF Menu!ConnectionChange, Menu!overlay, Menu!asking
  <2> QED
    BY <2>1 DEF Lock
<1>8. CASE UNCHANGED menuVars
  BY <1>1, <1>8 DEF menuVars
<1> QED
  BY <1>2, <1>3, <1>4, <1>5, <1>6, <1>7, <1>8 DEF Menu!Next, Menu!MainLoop

LEMMA MenuInit == Menu!Init => MenuInv
<1> SUFFICES ASSUME Menu!Init PROVE MenuInv
  OBVIOUS
<1>1. /\ locked = FALSE /\ mapping = "none" /\ loading = FALSE /\ result = Menu!NoResult
      /\ kind = [r \in Menu!Request |-> "none"] /\ requests = 0 /\ main = "idle"
      /\ queue = <<>> /\ tester = 0 /\ controller = 0 /\ commands = {}
  BY DEF Menu!Init
<1>2. queue \in Seq(Menu!Result)
  BY <1>1, Zenon, EmptySeq
<1>3. Entries(queue) = {}
  BY <1>1, <1>2, EntriesOf
<1>4. Calls = {} /\ Waiting = {}
  BY <1>1, <1>3 DEF Calls, Waiting
<1>5. MenuShape
  BY <1>1, <1>2, <1>3, MenuAssumption DEF MenuShape, Kinds
<1>6. OnePlace
  BY <1>1, <1>4 DEF OnePlace, Loading, Asking, Testing, Called, Awaited, Shown
<1> QED
  BY <1>1, <1>5, <1>6 DEF MenuInv, Lock

(* The menu shows and calls back with the result of what it waits for, and *)
(* its tabs and buttons are disabled only while something is under way     *)
(* that enables them again (_process_pending_result and _on_active_toggle  *)
(* of Menu.py), for any number of commands, tests and restarts, unless it  *)
(* was left by Escape while the gamepad was mapped.                        *)
THEOREM MenuServed == ViewerSpec => []MenuUsable
<1>1. ViewerInit => MenuInv
  BY MenuInit DEF ViewerInit
<1>2. MenuInv /\ [ViewerNext]_viewerVars => MenuInv'
  <2> SUFFICES ASSUME MenuInv, [ViewerNext]_viewerVars PROVE MenuInv'
    OBVIOUS
  <2>1. Menu!Next \/ UNCHANGED menuVars
    BY DEF ViewerNext, viewerVars
  <2>2. MenuShape' /\ OnePlace'
    BY <2>1, MenuPlaceStep DEF MenuInv
  <2>3. Lock'
    BY <2>1, LockStep
  <2> QED
    BY <2>2, <2>3 DEF MenuInv
<1>3. MenuInv => MenuUsable
  BY DEF MenuInv, OnePlace, Shown, Lock, MenuUsable, Menu!OwnResult, Menu!NotLockedOut
<1> QED
  BY <1>1, <1>2, <1>3, PTL DEF ViewerSpec

-----------------------------------------------------------------------------
(* Gamepads *)

Actives == [guid : Guid \cup {None}, pad : 0 .. MaxPlugs, cal : Pads!Calibration]
Calibrations == [Guid -> Pads!Calibration]
Calibrators == [state : {"none", "active", "pause", "complete"}, stage : Pads!Stage,
                samples : SUBSET Guid]

UsedWith(a, cals) == a.pad # 0 => a.guid # None /\ a.cal = cals[a.guid]

(* The widget has selected one of the gamepads it shows, if there are any. *)
Chosen ==
  IF Pads!Present(shown) = {} THEN selected = None ELSE selected \in Pads!Present(shown)

Sampling ==
  /\ dialog = "shown" => calibrator.state = "pause"
  /\ loop = "update" => sampled \in Guid

(* A calibration that is left alone records from one gamepad and has all   *)
(* buttons locked.                                                         *)
Apart ==
  /\ \A g \in Guid : calibrations[g] \subseteq {g} /\ saved.cals[g] \subseteq {g}
  /\ loop # "crashed"
  /\ IF Pads!Calibrating
       THEN /\ disabled = {"widget", "menu"}
            /\ selected # None /\ calibrator.samples \subseteq {selected}
       ELSE disabled = {}
  /\ loop = "update" => calibrator.state = "active" /\ sampled = selected

PadsInv ==
  /\ Pads!TypeOK /\ UsedWith(active, calibrations)
  /\ Chosen /\ Sampling /\ (~interrupted => Apart)

LEMMA ActiveFacts ==
  ASSUME NEW pads \in Pads!Pads, NEW cals \in Calibrations, NEW g \in Guid \cup {None}
  PROVE  Pads!Active(pads, cals, g) \in Actives /\ UsedWith(Pads!Active(pads, cals, g), cals)
<1>1. CASE g # None /\ pads[g] # 0 /\ cals[g] # {}
  <2>1. g \in Guid /\ pads[g] \in 0 .. MaxPlugs /\ cals[g] \in Pads!Calibration
    BY <1>1 DEF Pads!Pads, Calibrations
  <2>2. Pads!Active(pads, cals, g) = [guid |-> g, pad |-> pads[g], cal |-> cals[g]]
    BY <1>1 DEF Pads!Active
  <2> QED
    BY <1>1, <2>1, <2>2 DEF Actives, UsedWith
<1>2. CASE ~(g # None /\ pads[g] # 0 /\ cals[g] # {})
  <2>1. Pads!Active(pads, cals, g) = [guid |-> g, pad |-> 0, cal |-> {}]
    BY <1>2 DEF Pads!Active
  <2>2. 0 \in 0 .. MaxPlugs /\ {} \in Pads!Calibration
    BY GamepadAssumption DEF Pads!Calibration
  <2> QED
    BY <2>1, <2>2 DEF Actives, UsedWith
<1> QED
  BY <1>1, <1>2

LEMMA PadTypes ==
  Pads!TypeOK <=>
    /\ plugged \in Pads!Pads /\ plugs \in 0 .. MaxPlugs
    /\ thread \in {"scan", "update", "notify"} /\ found \in Pads!Pads /\ gamepads \in Pads!Pads
    /\ calibrations \in Calibrations /\ active \in Actives
    /\ shown \in Pads!Pads /\ selected \in Guid \cup {None} /\ calibrator \in Calibrators
    /\ dialog \in {"hidden", "shown", "old"} /\ disabled \subseteq {"widget", "menu"}
    /\ loop \in {"idle", "update", "crashed"} /\ sampled \in Guid \cup {None}
    /\ saved \in [guid : Guid \cup {None}, cals : Calibrations]
    /\ missed \in BOOLEAN /\ interrupted \in BOOLEAN
BY DEF Pads!TypeOK, Actives, Calibrations, Calibrators

(* What is chosen, and kept if it was found, is used with its calibration. *)
LEMMA ChoiceFacts ==
  ASSUME PadsInv, NEW choice \in Pads!Choice
  PROVE  Pads!Kept(choice) \in Actives /\ UsedWith(Pads!Kept(choice), calibrations)
<1>1. /\ active \in Actives /\ UsedWith(active, calibrations)
      /\ found \in Pads!Pads /\ calibrations \in Calibrations
  BY PadTypes DEF PadsInv
<1>2. choice \in Actives /\ UsedWith(choice, calibrations)
  <2>1. CASE choice = active
    BY <1>1, <2>1
  <2>2. CASE \E g \in Guid \cup {None} : choice = Pads!Active(found, calibrations, g)
    BY <1>1, <2>2, ActiveFacts
  <2>3. active.guid \in Guid \cup {None} /\ Pads!Candidates \subseteq Guid
    BY <1>1 DEF Actives, Pads!Candidates, Pads!Present
  <2> QED
    BY <2>1, <2>2, <2>3 DEF Pads!Choice
<1>3. [choice EXCEPT !.pad = 0, !.cal = {}] \in Actives
      /\ [choice EXCEPT !.pad = 0, !.cal = {}].pad = 0
  <2>1. 0 \in 0 .. MaxPlugs /\ {} \in Pads!Calibration
    BY GamepadAssumption DEF Pads!Calibration
  <2> QED
    BY <1>2, <2>1 DEF Actives
<1> QED
  BY <1>2, <1>3 DEF Pads!Kept, UsedWith

(* A known calibration takes the place of one that is under way. *)
LEMMA KnownFacts ==
  ASSUME PadsInv, NEW g \in Guid, Pads!ApplyKnown(g)
  PROVE  /\ active' \in Actives /\ UsedWith(active', calibrations)
         /\ calibrator' \in Calibrators /\ dialog' \in {"hidden", "shown", "old"}
         /\ \/ calibrations[g] = {} /\ UNCHANGED <<active, calibrator, dialog>>
            \/ calibrations[g] # {} /\ calibrator'.state = "complete" /\ dialog' # "shown"
<1>1. /\ active \in Actives /\ UsedWith(active, calibrations) /\ gamepads \in Pads!Pads
      /\ calibrations \in Calibrations /\ calibrator \in Calibrators
      /\ dialog \in {"hidden", "shown", "old"}
  BY PadTypes DEF PadsInv
<1>2. CASE calibrations[g] = {}
  BY <1>1, <1>2 DEF Pads!ApplyKnown
<1>3. CASE calibrations[g] # {}
  <2>1. /\ active' = Pads!Active(gamepads, calibrations, g)
        /\ calibrator' = Pads!Complete /\ dialog' = Pads!Abandoned
    BY <1>3 DEF Pads!ApplyKnown
  <2>2. Pads!Complete \in Calibrators /\ Pads!Complete.state = "complete"
    BY DEF Pads!Complete, Pads!Idle, Calibrators, Pads!Stage
  <2>3. Pads!Abandoned \in {"hidden", "old"}
    BY <1>1 DEF Pads!Abandoned
  <2> QED
    BY <1>1, <1>3, <2>1, <2>2, <2>3, ActiveFacts
<1> QED
  BY <1>2, <1>3

LEMMA PadsInit == Pads!Init => PadsInv
<1> SUFFICES ASSUME Pads!Init PROVE PadsInv
  OBVIOUS
<1>1. /\ plugged = [g \in Guid |-> 0] /\ plugs = 0 /\ thread = "scan"
      /\ found = plugged /\ gamepads = plugged /\ shown = plugged /\ selected = None
      /\ saved \in [guid : Guid \cup {None}, cals : [Guid -> Pads!Calibration]]
      /\ \A g \in Guid : saved.cals[g] \subseteq {g}
      /\ calibrations = saved.cals /\ active = [guid |-> saved.guid, pad |-> 0, cal |-> {}]
      /\ calibrator = Pads!Idle /\ dialog = "hidden" /\ disabled = {} /\ loop = "idle"
      /\ sampled = None /\ missed = FALSE /\ interrupted = FALSE
  BY DEF Pads!Init
<1>2. 0 \in 0 .. MaxPlugs /\ {} \in Pads!Calibration /\ plugged \in Pads!Pads
  BY <1>1, GamepadAssumption DEF Pads!Calibration, Pads!Pads
<1>3. active \in Actives /\ active.pad = 0
  BY <1>1, <1>2 DEF Actives
<1>4. calibrator \in Calibrators /\ calibrator.state = "none"
  BY <1>1 DEF Calibrators, Pads!Idle, Pads!Stage
<1>5. Pads!TypeOK
  BY <1>1, <1>2, <1>3, <1>4, PadTypes DEF Calibrations
<1>6. Pads!Present(shown) = {}
  BY <1>1 DEF Pads!Present
<1> QED
  BY <1>1, <1>3, <1>4, <1>5, <1>6 DEF PadsInv, UsedWith, Chosen, Sampling, Apart, Pads!Calibrating

(* What the widget, the calibrator and the settings are about *)
Calibrated == <<calibrations, active, shown, selected, calibrator, dialog, disabled, loop, sampled,
                saved, interrupted>>

LEMMA CalibratedRest ==
  ASSUME PadsInv, UNCHANGED Calibrated, plugged' \in Pads!Pads, plugs' \in 0 .. MaxPlugs,
         thread' \in {"scan", "update", "notify"}, found' \in Pads!Pads, gamepads' \in Pads!Pads,
         missed' \in BOOLEAN
  PROVE  PadsInv'
<1>1. Pads!TypeOK'
  BY PadTypes DEF PadsInv, Calibrated, Pads!TypeOK, Calibrations, Actives, Calibrators
<1> QED
  BY <1>1 DEF PadsInv, Calibrated, UsedWith, Chosen, Sampling, Apart, Pads!Present, Pads!Calibrating

LEMMA HandsKeep ==
  ASSUME PadsInv, NEW g \in Guid, Pads!Plug(g) \/ Pads!Unplug(g)
  PROVE  PadsInv'
<1>1. /\ plugged \in Pads!Pads /\ plugs \in 0 .. MaxPlugs /\ MaxPlugs \in Nat
      /\ thread \in {"scan", "update", "notify"} /\ found \in Pads!Pads /\ gamepads \in Pads!Pads
      /\ missed \in BOOLEAN
  BY PadTypes, GamepadAssumption DEF PadsInv
<1>2. /\ UNCHANGED Calibrated /\ UNCHANGED <<thread, found, gamepads>>
      /\ missed' \in BOOLEAN
  BY <1>1 DEF Pads!Plug, Pads!Unplug, Pads!controller, Pads!widget, Pads!mainVars, Calibrated
<1>3. plugged' \in Pads!Pads /\ plugs' \in 0 .. MaxPlugs
  <2>1. CASE Pads!Plug(g)
    <3>1. plugs' \in 0 .. MaxPlugs /\ plugged' = [plugged EXCEPT ![g] = plugs']
      BY <1>1, <2>1 DEF Pads!Plug
    <3> QED
      BY <1>1, <3>1 DEF Pads!Pads
  <2>2. CASE Pads!Unplug(g)
    <3>1. plugs' = plugs /\ plugged' = [plugged EXCEPT ![g] = 0] /\ 0 \in 0 .. MaxPlugs
      BY <1>1, <2>2 DEF Pads!Unplug
    <3> QED
      BY <1>1, <3>1 DEF Pads!Pads
  <2> QED
    BY <2>1, <2>2
<1> QED
  BY <1>1, <1>2, <1>3, CalibratedRest

LEMMA ScanKeeps ==
  ASSUME PadsInv, Pads!Scan
  PROVE  PadsInv'
<1>1. /\ UNCHANGED Calibrated /\ UNCHANGED <<plugged, plugs, gamepads, missed>>
      /\ found' = plugged /\ thread' \in {"scan", "update"}
  BY DEF Pads!Scan, Pads!widget, Pads!mainVars, Calibrated
<1> QED
  BY <1>1, PadTypes, CalibratedRest DEF PadsInv

LEMMA UpdateKeeps ==
  ASSUME PadsInv, Pads!Update
  PROVE  PadsInv'
<1>1. /\ gamepads' = found /\ thread' = "notify"
      /\ UNCHANGED <<plugged, plugs, found, calibrations, shown, selected, calibrator, dialog,
                     disabled, loop, sampled, saved, missed, interrupted>>
  BY DEF Pads!Update, Pads!widget, Pads!mainVars
<1>2. active' \in Actives /\ UsedWith(active', calibrations)
  BY ChoiceFacts DEF Pads!Update
<1>3. Pads!TypeOK'
  BY <1>1, <1>2, PadTypes DEF PadsInv, Pads!TypeOK, Calibrations, Actives, Calibrators
<1> QED
  BY <1>1, <1>2, <1>3
     DEF PadsInv, UsedWith, Chosen, Sampling, Apart, Pads!Present, Pads!Calibrating

(* Whoever is told of another gamepad, or of a known one, has interrupted  *)
(* the calibration.                                                        *)
LEMMA NotifyKeeps ==
  ASSUME PadsInv, Pads!Notify
  PROVE  PadsInv'
<1> DEFINE wanted == IF selected = None THEN active.guid ELSE selected
           first == IF wanted \in Pads!Present(found) THEN {wanted}
                    ELSE IF Pads!Present(found) = {} THEN {None} ELSE Pads!Present(found)
<1>1. /\ thread' = "scan" /\ shown' = found
      /\ UNCHANGED <<plugged, plugs, found, gamepads, calibrations, disabled, loop, sampled, saved,
                     missed>>
  BY DEF Pads!Notify, Pads!mainVars
<1>2. PICK g \in first :
        /\ selected' = g
        /\ IF g # None THEN Pads!ApplyKnown(g)
           ELSE calibrator' = Pads!Idle /\ dialog' = Pads!Abandoned /\ UNCHANGED active
        /\ interrupted' = (interrupted \/ (Pads!Calibrating /\ (g # selected \/ calibrations[g] # {})))
  BY DEF Pads!Notify
<1>3. \/ g \in Guid /\ g # None /\ g \in Pads!Present(found)
      \/ g = None /\ Pads!Present(found) = {}
  BY GamepadAssumption DEF Pads!Present
<1> HIDE DEF first
<1>4. Pads!TypeOK /\ active \in Actives /\ UsedWith(active, calibrations)
      /\ dialog \in {"hidden", "shown", "old"}
  BY PadTypes DEF PadsInv
<1>5. /\ active' \in Actives /\ UsedWith(active', calibrations)
      /\ calibrator' \in Calibrators /\ dialog' \in {"hidden", "shown", "old"}
      /\ \/ g # None /\ calibrations[g] = {} /\ UNCHANGED <<active, calibrator, dialog>>
         \/ g # None /\ calibrations[g] # {} /\ calibrator'.state = "complete" /\ dialog' # "shown"
         \/ g = None /\ calibrator'.state = "none" /\ dialog' # "shown"
  <2>1. CASE g # None
    BY <1>2, <1>3, <2>1, KnownFacts
  <2>2. CASE g = None
    <3>1. Pads!Idle \in Calibrators /\ Pads!Idle.state = "none"
      BY DEF Calibrators, Pads!Idle, Pads!Stage
    <3>2. Pads!Abandoned \in {"hidden", "old"}
      BY <1>4 DEF Pads!Abandoned
    <3> QED
      BY <1>2, <1>4, <2>2, <3>1, <3>2
  <2> QED
    BY <2>1, <2>2
<1>6. Pads!TypeOK'
  BY <1>1, <1>2, <1>3, <1>4, <1>5 DEF Pads!TypeOK, Calibrations, Actives, Calibrators
<1>7. Chosen'
  BY <1>1, <1>2, <1>3 DEF Chosen, Pads!Present
<1>8. Sampling'
  BY <1>1, <1>5 DEF PadsInv, Sampling
<1>9. ASSUME ~interrupted'
      PROVE  Apart'
  <2>1. ~interrupted /\ Apart /\ (Pads!Calibrating => g = selected /\ calibrations[g] = {})
    BY <1>2, <1>9 DEF PadsInv
  <2>2. CASE Pads!Calibrating
    <3>1. g = selected /\ g # None /\ UNCHANGED <<calibrator, selected>>
      BY <1>2, <1>5, <2>1, <2>2 DEF Apart
    <3> QED
      BY <1>1, <2>1, <2>2, <3>1 DEF Apart, Pads!Calibrating
  <2>3. CASE ~Pads!Calibrating
    <3>1. ~Pads!Calibrating' /\ disabled = {} /\ loop # "update"
      BY <1>5, <2>1, <2>3 DEF Apart, Pads!Calibrating
    <3> QED
      BY <1>1, <2>1, <3>1 DEF Apart
  <2> QED
    BY <2>2, <2>3
<1> QED
  BY <1>1, <1>5, <1>6, <1>7, <1>8, <1>9 DEF PadsInv, UsedWith

LEMMA SelectKeeps ==
  ASSUME PadsInv, NEW g \in Guid, Pads!Select(g)
  PROVE  PadsInv'
<1>1. /\ loop = "idle" /\ dialog = "hidden" /\ "widget" \notin disabled /\ shown[g] # 0
      /\ selected' = g /\ Pads!ApplyKnown(g)
      /\ UNCHANGED <<plugged, plugs, thread, found, gamepads, calibrations, shown, disabled, loop,
                     sampled, saved, missed, interrupted>>
  BY DEF Pads!Select, Pads!mainVars
<1>2. /\ active' \in Actives /\ UsedWith(active', calibrations)
      /\ calibrator' \in Calibrators /\ dialog' \in {"hidden", "shown", "old"}
      /\ \/ UNCHANGED <<active, calibrator, dialog>>
         \/ calibrator'.state = "complete" /\ dialog' # "shown"
  BY <1>1, KnownFacts
<1>3. Pads!TypeOK'
  BY <1>1, <1>2 DEF PadsInv, Pads!TypeOK, Calibrations, Actives, Calibrators
<1>4. Chosen'
  BY <1>1 DEF Chosen, Pads!Present
<1>5. Sampling'
  BY <1>1, <1>2 DEF PadsInv, Sampling
<1>6. ASSUME ~interrupted'
      PROVE  Apart'
  <2>1. Apart /\ ~Pads!Calibrating /\ ~Pads!Calibrating'
    BY <1>1, <1>2, <1>6 DEF PadsInv, Apart, Pads!Calibrating
  <2> QED
    BY <1>1, <2>1 DEF Apart
<1> QED
  BY <1>1, <1>2, <1>3, <1>4, <1>5, <1>6 DEF PadsInv, UsedWith

LEMMA StartKeeps ==
  ASSUME PadsInv, Pads!StartCalibration
  PROVE  PadsInv'
<1>1. /\ loop = "idle" /\ dialog = "hidden" /\ Pads!Present(shown) # {}
      /\ calibrator' = [state |-> "active", stage |-> "steering", samples |-> {}]
      /\ disabled' = {"widget", "menu"}
      /\ UNCHANGED <<plugged, plugs, thread, found, gamepads, calibrations, active, shown, selected,
                     dialog, loop, sampled, saved, missed, interrupted>>
  BY DEF Pads!StartCalibration, Pads!controller, Pads!mainVars
<1>2. calibrator' \in Calibrators
  BY <1>1 DEF Calibrators, Pads!Stage
<1>3. Pads!TypeOK'
  BY <1>1, <1>2 DEF PadsInv, Pads!TypeOK, Calibrations, Actives, Calibrators
<1>4. selected # None
  BY <1>1, GamepadAssumption DEF PadsInv, Chosen, Pads!Present
<1> QED
  BY <1>1, <1>3, <1>4
     DEF PadsInv, UsedWith, Chosen, Sampling, Apart, Pads!Present, Pads!Calibrating

LEMMA ConfirmKeeps ==
  ASSUME PadsInv, Pads!Confirm
  PROVE  PadsInv'
<1>1. /\ loop = "idle" /\ dialog # "hidden" /\ dialog' = "hidden"
      /\ UNCHANGED <<plugged, plugs, thread, found, gamepads, calibrations, active, shown, selected,
                     disabled, loop, sampled, saved, missed, interrupted>>
  BY DEF Pads!Confirm, Pads!controller, Pads!mainVars
<1>2. calibrator \in Calibrators /\ dialog \in {"shown", "old"}
  BY <1>1, PadTypes DEF PadsInv
<1>3. /\ calibrator' \in Calibrators
      /\ \/ calibrator' = calibrator
         \/ /\ calibrator.state = "pause" /\ calibrator'.state = "active"
            /\ calibrator'.samples = calibrator.samples
  <2>1. CASE dialog = "old"
    BY <1>2, <2>1 DEF Pads!Confirm
  <2>2. CASE dialog = "shown"
    <3>1. PICK s \in Pads!Stage : calibrator' = [calibrator EXCEPT !.state = "active", !.stage = s]
      BY <2>2 DEF Pads!Confirm, Pads!Stage
    <3>2. calibrator.state = "pause"
      BY <2>2 DEF PadsInv, Sampling
    <3> QED
      BY <1>2, <3>1, <3>2 DEF Calibrators
  <2> QED
    BY <1>2, <2>1, <2>2
<1>4. Pads!TypeOK'
  BY <1>1, <1>3 DEF PadsInv, Pads!TypeOK, Calibrations, Actives, Calibrators
<1>5. (Pads!Calibrating)' <=> Pads!Calibrating
  BY <1>3 DEF Pads!Calibrating
<1>6. calibrator'.samples = calibrator.samples
  BY <1>3
<1> QED
  BY <1>1, <1>4, <1>5, <1>6 DEF PadsInv, UsedWith, Chosen, Sampling, Apart, Pads!Present

LEMMA RemapKeeps ==
  ASSUME PadsInv, Pads!Remap
  PROVE  PadsInv'
<1>1. /\ loop = "idle" /\ disabled' = {} /\ interrupted' = (interrupted \/ Pads!Calibrating)
      /\ UNCHANGED <<plugged, plugs, thread, found, gamepads, calibrations, active, shown, selected,
                     calibrator, dialog, loop, sampled, saved, missed>>
  BY DEF Pads!Remap, Pads!controller, Pads!mainVars
<1>2. interrupted' \in BOOLEAN
  BY <1>1
<1>3. Pads!TypeOK'
  BY <1>1, <1>2 DEF PadsInv, Pads!TypeOK, Calibrations, Actives, Calibrators
<1> QED
  BY <1>1, <1>3 DEF PadsInv, UsedWith, Chosen, Sampling, Apart, Pads!Present, Pads!Calibrating

LEMMA SampleKeeps ==
  ASSUME PadsInv, Pads!Sample
  PROVE  PadsInv'
<1>1. /\ calibrator.state = "active" /\ selected # None /\ sampled' = selected /\ loop' = "update"
      /\ UNCHANGED <<plugged, plugs, thread, found, gamepads, calibrations, active, shown, selected,
                     calibrator, dialog, disabled, saved, missed, interrupted>>
  BY DEF Pads!Sample, Pads!controller, Pads!widget
<1>2. selected \in Guid
  BY <1>1, PadTypes DEF PadsInv
<1>3. Pads!TypeOK'
  BY <1>1, <1>2 DEF PadsInv, Pads!TypeOK, Calibrations, Actives, Calibrators
<1> QED
  BY <1>1, <1>2, <1>3
     DEF PadsInv, UsedWith, Chosen, Sampling, Apart, Pads!Present, Pads!Calibrating

LEMMA CalibrateKeeps ==
  ASSUME PadsInv, Pads!Calibrate
  PROVE  PadsInv'
<1> DEFINE recorded == calibrator.samples \cup {sampled}
<1>1. /\ loop = "update" /\ calibrator.state = "active" /\ loop' = "idle"
      /\ UNCHANGED <<plugged, plugs, thread, found, gamepads, shown, selected, sampled, saved,
                     missed, interrupted>>
  BY DEF Pads!Calibrate
<1>2. /\ calibrator \in Calibrators /\ sampled \in Guid /\ calibrations \in Calibrations
      /\ active \in Actives /\ UsedWith(active, calibrations) /\ gamepads \in Pads!Pads
      /\ dialog # "shown" /\ dialog \in {"hidden", "old"} /\ selected \in Guid \cup {None}
      /\ disabled \subseteq {"widget", "menu"}
  BY <1>1, PadTypes DEF PadsInv, Sampling
<1>3. recorded \in SUBSET Guid
  BY <1>2 DEF Calibrators
<1>4. ~interrupted => recorded \subseteq {selected} /\ selected # None /\ disabled = {"widget", "menu"}
  BY <1>1 DEF PadsInv, Apart, Pads!Calibrating
<1>5. Chosen'
  BY <1>1 DEF PadsInv, Chosen, Pads!Present
<1>6. CASE /\ calibrator' = [calibrator EXCEPT !.samples = recorded]
           /\ UNCHANGED <<calibrations, active, dialog, disabled>>
  <2>1. calibrator' \in Calibrators /\ calibrator'.state = "active" /\ calibrator'.samples = recorded
    BY <1>1, <1>2, <1>3, <1>6 DEF Calibrators
  <2> HIDE DEF recorded
  <2>2. Pads!TypeOK'
    BY <1>1, <1>6, <2>1 DEF PadsInv, Pads!TypeOK, Calibrations, Actives, Calibrators
  <2> QED
    BY <1>1, <1>2, <1>4, <1>5, <1>6, <2>1, <2>2
       DEF PadsInv, UsedWith, Sampling, Apart, Pads!Calibrating
<1>7. CASE /\ calibrator' = [calibrator EXCEPT !.samples = recorded, !.state = "pause"]
           /\ dialog' = "shown" /\ UNCHANGED <<calibrations, active, disabled>>
  <2>1. calibrator' \in Calibrators /\ calibrator'.state = "pause" /\ calibrator'.samples = recorded
    BY <1>1, <1>2, <1>3, <1>7 DEF Calibrators
  <2> HIDE DEF recorded
  <2>2. Pads!TypeOK'
    BY <1>1, <1>7, <2>1 DEF PadsInv, Pads!TypeOK, Calibrations, Actives, Calibrators
  <2> QED
    BY <1>1, <1>2, <1>4, <1>5, <1>7, <2>1, <2>2
       DEF PadsInv, UsedWith, Sampling, Apart, Pads!Calibrating
<1>8. CASE /\ calibrator' = [calibrator EXCEPT !.samples = recorded, !.state = "complete"]
           /\ Pads!Finish(recorded) /\ UNCHANGED dialog
  <2>1. calibrator' \in Calibrators /\ calibrator'.state = "complete"
    BY <1>1, <1>2, <1>3, <1>8 DEF Calibrators
  <2> HIDE DEF recorded
  <2>2. CASE selected # None /\ shown[selected] # 0
    <3> DEFINE cals == [calibrations EXCEPT ![selected] = recorded]
    <3>1. /\ calibrations' = cals /\ active' = Pads!Active(gamepads, cals, selected)
          /\ disabled' = {}
      BY <1>8, <2>2 DEF Pads!Finish
    <3>2. selected \in Guid /\ cals \in Calibrations
          /\ \A g \in Guid : cals[g] = IF g = selected THEN recorded ELSE calibrations[g]
      BY <1>2, <1>3, <2>2 DEF Calibrations, Pads!Calibration
    <3> HIDE DEF cals
    <3>3. active' \in Actives /\ UsedWith(active', calibrations')
      BY <1>2, <3>1, <3>2, ActiveFacts
    <3>4. Pads!TypeOK'
      BY <1>1, <1>8, <2>1, <3>1, <3>2, <3>3
         DEF PadsInv, Pads!TypeOK, Calibrations, Actives, Calibrators
    <3>5. ASSUME ~interrupted'
          PROVE  Apart'
      <4>1. \A g \in Guid : calibrations'[g] \subseteq {g} /\ saved'.cals[g] \subseteq {g}
        BY <1>1, <1>4, <3>1, <3>2, <3>5 DEF PadsInv, Apart
      <4> QED
        BY <1>1, <2>1, <3>1, <4>1 DEF Apart, Pads!Calibrating
    <3> QED
      BY <1>1, <1>2, <1>5, <1>8, <2>1, <3>3, <3>4, <3>5 DEF PadsInv, UsedWith, Sampling
  <2>3. CASE ~(selected # None /\ shown[selected] # 0)
    <3>1. disabled' \subseteq {"widget", "menu"} /\ UNCHANGED <<calibrations, active>>
      BY <1>2, <1>8, <2>3 DEF Pads!Finish
    <3>2. interrupted
      BY <1>4, <2>3 DEF PadsInv, Chosen, Pads!Present
    <3>3. Pads!TypeOK'
      BY <1>1, <1>8, <2>1, <3>1 DEF PadsInv, Pads!TypeOK, Calibrations, Actives, Calibrators
    <3> QED
      BY <1>1, <1>2, <1>5, <1>8, <3>1, <3>2, <3>3 DEF PadsInv, UsedWith, Sampling
  <2> QED
    BY <2>2, <2>3
<1> QED
  BY <1>6, <1>7, <1>8 DEF Pads!Calibrate

LEMMA NothingKeeps ==
  ASSUME PadsInv, Pads!CalibrateNothing
  PROVE  PadsInv'
<1>1. /\ loop = "update"
      /\ UNCHANGED <<plugged, plugs, thread, found, gamepads, calibrations, active, shown, selected,
                     calibrator, dialog, disabled, sampled, saved, missed, interrupted>>
  BY DEF Pads!CalibrateNothing, Pads!controller, Pads!widget
<1>2. loop' \in {"idle", "crashed"}
  BY DEF Pads!CalibrateNothing
<1>3. interrupted
  BY <1>1 DEF PadsInv, Apart, Pads!CalibrateNothing, Pads!Calibrating
<1>4. Pads!TypeOK'
  BY <1>1, <1>2 DEF PadsInv, Pads!TypeOK, Calibrations, Actives, Calibrators
<1> QED
  BY <1>1, <1>2, <1>3, <1>4 DEF PadsInv, UsedWith, Chosen, Sampling, Pads!Present

LEMMA SaveKeeps ==
  ASSUME PadsInv, Pads!Save
  PROVE  PadsInv'
<1>1. /\ saved' = [guid |-> selected, cals |-> calibrations]
      /\ UNCHANGED <<plugged, plugs, thread, found, gamepads, calibrations, active, shown, selected,
                     calibrator, dialog, disabled, loop, sampled, missed, interrupted>>
  BY DEF Pads!Save, Pads!controller, Pads!widget
<1>2. saved' \in [guid : Guid \cup {None}, cals : Calibrations] /\ saved'.cals = calibrations
  BY <1>1, PadTypes DEF PadsInv
<1>3. Pads!TypeOK'
  BY <1>1, <1>2 DEF PadsInv, Pads!TypeOK, Calibrations, Actives, Calibrators
<1> QED
  BY <1>1, <1>2, <1>3
     DEF PadsInv, UsedWith, Chosen, Sampling, Apart, Pads!Present, Pads!Calibrating

LEMMA ApplyKeeps ==
  ASSUME PadsInv, Pads!ApplySettings
  PROVE  PadsInv'
<1> DEFINE cals == [g \in Guid |-> IF saved.cals[g] # {} THEN saved.cals[g] ELSE calibrations[g]]
<1>1. /\ calibrations' = cals /\ active' = Pads!Active(gamepads, cals, saved.guid)
      /\ UNCHANGED <<plugged, plugs, thread, found, gamepads, shown, selected, calibrator, dialog,
                     disabled, loop, sampled, saved, missed, interrupted>>
  BY DEF Pads!ApplySettings, Pads!widget, Pads!mainVars
<1>2. /\ saved.cals \in Calibrations /\ saved.guid \in Guid \cup {None}
      /\ calibrations \in Calibrations /\ gamepads \in Pads!Pads
  BY PadTypes DEF PadsInv
<1>3. /\ cals \in Calibrations
      /\ \A g \in Guid : cals[g] = IF saved.cals[g] # {} THEN saved.cals[g] ELSE calibrations[g]
  BY <1>2 DEF Calibrations
<1> HIDE DEF cals
<1>4. active' \in Actives /\ UsedWith(active', calibrations')
  BY <1>1, <1>2, <1>3, ActiveFacts
<1>5. Pads!TypeOK'
  BY <1>1, <1>3, <1>4 DEF PadsInv, Pads!TypeOK, Calibrations, Actives, Calibrators
<1>6. ASSUME ~interrupted'
      PROVE  Apart'
  BY <1>1, <1>3, <1>6 DEF PadsInv, Apart, Pads!Calibrating
<1> QED
  BY <1>1, <1>4, <1>5, <1>6 DEF PadsInv, UsedWith, Chosen, Sampling, Pads!Present

LEMMA PadsStep == PadsInv /\ (Pads!Next \/ UNCHANGED gamepadVars) => PadsInv'
<1>1. ASSUME PadsInv, UNCHANGED gamepadVars
      PROVE  PadsInv'
  <2>1. /\ UNCHANGED Calibrated /\ UNCHANGED <<plugged, plugs, thread, found, gamepads, missed>>
    BY <1>1 DEF gamepadVars, Calibrated
  <2> QED
    BY <1>1, <2>1, CalibratedRest, PadTypes DEF PadsInv
<1> QED
  BY <1>1, HandsKeep, ScanKeeps, UpdateKeeps, NotifyKeeps, SelectKeeps, StartKeeps, ConfirmKeeps,
     RemapKeeps, SampleKeeps, CalibrateKeeps, NothingKeeps, SaveKeeps, ApplyKeeps
     DEF Pads!Next, Pads!Thread

(* A gamepad is read with the calibration that is kept for it, whoever     *)
(* replaced that last; and a calibration during which no gamepad comes or  *)
(* goes and no buttons are mapped is recorded from one gamepad and unlocks *)
(* the menu, for any number of gamepads (InUse and Undisturbed of Gamepads, *)
(* about GamepadController.py and GamepadCalibrationWidget.py).            *)
THEOREM CalibrationsKept == ViewerSpec => [](Pads!InUse /\ Pads!Undisturbed)
<1>1. ViewerInit => PadsInv
  BY PadsInit DEF ViewerInit
<1>2. PadsInv /\ [ViewerNext]_viewerVars => PadsInv'
  <2>1. [ViewerNext]_viewerVars => Pads!Next \/ UNCHANGED gamepadVars
    BY DEF ViewerNext, viewerVars
  <2> QED
    BY <2>1, PadsStep
<1>3. PadsInv => Pads!InUse /\ Pads!Undisturbed
  BY DEF PadsInv, UsedWith, Apart, Pads!InUse, Pads!Undisturbed
<1> QED
  BY <1>1, <1>2, <1>3, PTL DEF ViewerSpec

-----------------------------------------------------------------------------
(* The theorems about the network hold of the viewer that the run checks.  *)
LEMMA ViewerNetwork == ViewerSpec => Spec
<1>1. ViewerInit => Init
  BY DEF ViewerInit
<1>2. [ViewerNext]_viewerVars => [Next]_vars
  BY DEF ViewerNext, viewerVars
<1> QED
  BY <1>1, <1>2, PTL DEF ViewerSpec, Spec
=============================================================================
