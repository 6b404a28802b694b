---------------------------- MODULE NetworkLifecycle ----------------------------
(***************************************************************************)
(* The network of the viewer as its user connects, changes the settings    *)
(* and quits: SettingsController, NetworkCoordinator, NetworkController,   *)
(* NetworkSetup and the registration of a Peer with the relay.             *)
(*                                                                         *)
(* Three kinds of threads meet here: the main loop, one restart thread for *)
(* each change of the settings that needs one, and one setup thread for    *)
(* each NetworkController.  Restart r creates controller r; controller 0   *)
(* is there from the start.                                                *)
(***************************************************************************)
EXTENDS Naturals, FiniteSets

CONSTANTS
  Settings,     \* any two of them differ in what needs a restart
  Relayed,      \* those with a relay over UDP, where a Peer registers
  MaxChanges,   \* how often the user changes the settings
  Patient,      \* whether the user waits for a restart before the next change
  None

ASSUME SettingsAssumption ==
  /\ Relayed \subseteq Settings
  /\ None \notin Settings
  /\ MaxChanges \in Nat
  /\ Patient \in BOOLEAN

Restart == 1 .. MaxChanges
Controller == 0 .. MaxChanges
Thread == Controller    \* 0 is the main thread, which shuts down in the end

VARIABLES
  connected,    \* model.user_connected
  chosen,       \* the settings the user chose last
  changes,      \* how often that was
  applied,      \* settings and old_settings of the SettingsController
  pending,      \* model.pending_settings
  complete,     \* the event restart_complete
  waited,       \* what wait_for_network_restart returned
  current,      \* the network_controller of the coordinator
  settings,     \* the settings of each controller
  place,        \* where each thread is
  target,       \* the controller it shuts down
  setup,        \* where the setup thread of each controller is
  aborted,      \* controllers whose Peer has been told to abort
  holding,      \* controllers whose server and video receiver have the ports
  conflict      \* controllers that found the ports in use

user == <<connected, chosen, changes, applied, pending>>
control == <<complete, waited, current, settings>>
threads == <<place, target, aborted>>
ports == <<setup, holding, conflict>>
vars == <<user, control, threads, ports>>

OnMain == {"running", "waiting", "abort", "join", "stop", "done"}
OnRestart == {"none", "abort", "join", "stop", "create", "setup", "finish", "done"}

TypeOK ==
  /\ connected \in BOOLEAN
  /\ chosen \in Settings /\ applied \in Settings
  /\ changes \in 0 .. MaxChanges
  /\ pending \in Settings \cup {None}
  /\ complete \in BOOLEAN
  /\ waited \in BOOLEAN
  /\ current \in Controller
  /\ settings \in [Controller -> Settings]
  /\ place \in [Thread -> OnMain \cup OnRestart]
  /\ place[0] \in OnMain
  /\ \A r \in Restart : place[r] \in OnRestart
  /\ target \in [Thread -> Controller]
  /\ setup \in [Controller ->
       {"none", "started", "created", "registering", "registered", "done"}]
  /\ aborted \subseteq Controller
  /\ holding \subseteq Controller
  /\ conflict \subseteq Controller

Init ==
  /\ connected = FALSE
  /\ chosen \in Settings /\ applied = chosen
  /\ changes = 0
  /\ pending = None
  /\ complete = FALSE
  /\ waited = TRUE
  /\ current = 0
  /\ settings = [c \in Controller |-> chosen]
  /\ place = [t \in Thread |-> IF t = 0 THEN "running" ELSE "none"]
  /\ target = [t \in Thread |-> 0]
  /\ setup = [c \in Controller |-> "none"]
  /\ aborted = {} /\ holding = {} /\ conflict = {}

Ended(r) == place[r] \in {"none", "done"}

(* network_restart_thread *)
Latest(r) == place[r] # "none" /\ \A q \in Restart : q > r => place[q] = "none"

-----------------------------------------------------------------------------
(* The main loop *)

Connect ==
  /\ place[0] = "running" /\ ~connected
  /\ connected' = TRUE
  /\ setup' = [setup EXCEPT ![current] = "started"]
  /\ UNCHANGED <<chosen, changes, applied, pending, control, threads, holding, conflict>>

(* Before the user connects the controller is merely replaced.  After that *)
(* the settings wait for a restart, unless they are the ones applied.      *)
Change(s) ==
  /\ place[0] = "running" /\ changes < MaxChanges
  /\ Patient => \A r \in Restart : Ended(r)
  /\ Patient => pending = None /\ ~complete
  /\ changes' = changes + 1
  /\ chosen' = s
  /\ \/ /\ ~connected
        /\ applied' = s
        /\ settings' = [settings EXCEPT ![current] = s]
        /\ UNCHANGED <<pending, place>>
     \/ /\ connected /\ s # applied
        /\ pending' = s
        /\ settings' = [settings EXCEPT ![changes'] = s]
        /\ place' = [place EXCEPT ![changes'] = "abort"]
        /\ UNCHANGED applied
     \/ /\ connected /\ s = applied
        /\ UNCHANGED <<applied, pending, settings, place>>
  /\ UNCHANGED <<connected, complete, waited, current, target, aborted, ports>>

(* check_network_restart_complete *)
CheckComplete ==
  /\ place[0] = "running" /\ complete
  /\ complete' = FALSE
  /\ applied' = IF pending = None THEN applied ELSE pending
  /\ pending' = None
  /\ UNCHANGED <<connected, chosen, changes, waited, current, settings, threads, ports>>

Quit ==
  /\ place[0] = "running"
  /\ place' = [place EXCEPT ![0] = "waiting"]
  /\ UNCHANGED <<user, control, target, aborted, ports>>

(* wait_for_network_restart returns when the last restart has ended, or    *)
(* after five seconds.                                                     *)
StopWaiting ==
  /\ place[0] = "waiting"
  /\ waited' = (\A r \in Restart : Latest(r) => Ended(r))
  /\ place' = [place EXCEPT ![0] = "abort"]
  /\ UNCHANGED <<user, complete, current, settings, target, aborted, ports>>

-----------------------------------------------------------------------------
(* NetworkController.shutdown, on a restart thread or the main thread.  A  *)
(* setup that has no peer yet is not aborted.                              *)
Abort(t) ==
  /\ place[t] = "abort"
  /\ target' = [target EXCEPT ![t] = current]
  /\ aborted' = IF setup[current] = "registering" THEN aborted \cup {current} ELSE aborted
  /\ place' = [place EXCEPT ![t] = "join"]
  /\ UNCHANGED <<user, control, ports>>

Join_NoWait(t) ==
  /\ place[t] = "join"
  /\ place' = [place EXCEPT ![t] = "stop"]
  /\ UNCHANGED <<user, control, target, aborted, ports>>

Join(t) ==
  /\ place[t] = "join"
  /\ setup[target[t]] \in {"none", "done"}
  /\ place' = [place EXCEPT ![t] = "stop"]
  /\ UNCHANGED <<user, control, target, aborted, ports>>

Stop_OnExit(t) ==
  /\ place[t] = "stop"
  /\ holding' = IF t = 0 THEN holding \ {target[t]} ELSE holding
  /\ place' = [place EXCEPT ![t] = IF t = 0 THEN "done" ELSE "create"]
  /\ UNCHANGED <<user, control, target, setup, aborted, conflict>>

(* The control server and the video receiver. *)
Stop(t) ==
  /\ place[t] = "stop"
  /\ holding' = holding \ {target[t]}
  /\ place' = [place EXCEPT ![t] = IF t = 0 THEN "done" ELSE "create"]
  /\ UNCHANGED <<user, control, target, setup, aborted, conflict>>

-----------------------------------------------------------------------------
(* The rest of restart_network_controller *)

Create_Unassigned(r) ==
  /\ place[r] = "create"
  /\ place' = [place EXCEPT ![r] = "setup"]
  /\ UNCHANGED <<user, control, target, aborted, ports>>

Create(r) ==
  /\ place[r] = "create"
  /\ current' = r
  /\ place' = [place EXCEPT ![r] = "setup"]
  /\ UNCHANGED <<user, complete, waited, settings, target, aborted, ports>>

(* network_controller is read again: another restart may have replaced it. *)
(* A second setup of one controller stands for both of them.               *)
SetupPorts(r) ==
  /\ place[r] = "setup"
  /\ setup' = [setup EXCEPT ![current] = "started"]
  /\ place' = [place EXCEPT ![r] = "finish"]
  /\ UNCHANGED <<user, control, target, aborted, holding, conflict>>

Finish(r) ==
  /\ place[r] = "finish"
  /\ complete' = TRUE
  /\ place' = [place EXCEPT ![r] = "done"]
  /\ UNCHANGED <<user, waited, current, settings, target, aborted, ports>>

RestartThread(r) ==
  Abort(r) \/ Join(r) \/ Stop(r) \/ Create(r) \/ SetupPorts(r) \/ Finish(r)

-----------------------------------------------------------------------------
(* The setup thread of a controller *)

SetupTo(c, step) == setup' = [setup EXCEPT ![c] = step]

(* The sockets of a Peer are bound to the same ports. *)
PortsFree(c) ==
  \A d \in Controller \ {c} : d \notin holding /\ setup[d] # "registering"

(* An address already in use ends the setup. *)
PortsInUse(c) ==
  /\ ~PortsFree(c)
  /\ conflict' = conflict \cup {c}
  /\ SetupTo(c, "done")

CreateSetup(c) ==
  /\ setup[c] = "started"
  /\ SetupTo(c, "created")
  /\ UNCHANGED <<user, control, threads, holding, conflict>>

SetupRelay(c) ==
  /\ setup[c] = "created" /\ settings[c] \in Relayed
  /\ \/ PortsFree(c) /\ SetupTo(c, "registering") /\ UNCHANGED conflict
     \/ PortsInUse(c)
  /\ UNCHANGED <<user, control, threads, holding>>

(* The relay answers on both ports once the streamer is there, or not ... *)
Registered(c) ==
  /\ setup[c] = "registering"
  /\ SetupTo(c, "registered")
  /\ UNCHANGED <<user, control, threads, holding, conflict>>

(* ... or with an Error. *)
Refused(c) ==
  /\ setup[c] = "registering"
  /\ SetupTo(c, "done")
  /\ UNCHANGED <<user, control, threads, holding, conflict>>

Interrupted(c) ==
  /\ setup[c] = "registering" /\ c \in aborted
  /\ SetupTo(c, "done")
  /\ UNCHANGED <<user, control, threads, holding, conflict>>

(* One of the two may start although the port of the other is taken. *)
SetupComponents(c) ==
  /\ \/ setup[c] = "created" /\ settings[c] \notin Relayed
     \/ setup[c] = "registered"
  /\ \/ /\ PortsFree(c)
        /\ SetupTo(c, "done")
        /\ holding' = holding \cup {c}
        /\ UNCHANGED conflict
     \/ PortsInUse(c) /\ holding' \in {holding, holding \cup {c}}
  /\ UNCHANGED <<user, control, threads>>

SetupThread(c) ==
  CreateSetup(c) \/ SetupRelay(c) \/ Interrupted(c) \/ SetupComponents(c)

RelayAnswers(c) == Registered(c) \/ Refused(c)

-----------------------------------------------------------------------------
MainThread == CheckComplete \/ StopWaiting \/ Abort(0) \/ Join(0) \/ Stop(0)

Next ==
  \/ Connect \/ Quit \/ MainThread
  \/ \E s \in Settings : Change(s)
  \/ \E r \in Restart : RestartThread(r)
  \/ \E c \in Controller : SetupThread(c) \/ RelayAnswers(c)

Spec == Init /\ [][Next]_vars

(* The threads run; the user and the relay owe nothing. *)
FairSpec ==
  /\ Spec
  /\ WF_vars(MainThread)
  /\ \A r \in Restart : WF_vars(RestartThread(r))
  /\ \A c \in Controller : WF_vars(SetupThread(c))

-----------------------------------------------------------------------------
(* Properties *)

(* When no restart is under way the network runs with the settings the     *)
(* user chose last, and so do all other components (update_settings,       *)
(* check_network_restart_complete).                                        *)
InForce ==
  (place[0] = "running" /\ pending = None /\ ~complete /\ \A r \in Restart : Ended(r))
    => applied = chosen /\ settings[current] = chosen

(* No controller finds its ports taken by one of the viewer's own: the one *)
(* before it, its setup thread and its Peer have let go of them, however   *)
(* far its setup had come (shutdown, restart_network_controller).          *)
NoConflict == conflict = {}

(* When the viewer has shut down, and has not given up waiting for a       *)
(* restart, no server or receiver of any controller is left, nor a setup   *)
(* thread that could start one (AppState.shutdown,                         *)
(* NetworkController.shutdown).                                            *)
CleanExit ==
  place[0] = "done" /\ waited
    => holding = {} /\ \A c \in Controller : setup[c] \in {"none", "done"}

(* A restart ends, whatever its controller was doing, unless a             *)
(* registration that was not yet there to be aborted is never answered.    *)
RestartEnds ==
  (\A c \in Controller : []<>~(setup[c] = "registering" /\ c \notin aborted))
    => \A r \in Restart : place[r] # "none" ~> place[r] = "done"

(* "This runs until [...] abort is called externally" (Peer.py,            *)
(* _register_with_relay) and "1. Abort network setup 2. Make sure setup    *)
(* thread has finished" (NetworkController.shutdown): a shutdown ends.     *)
ShutdownEnds == \A t \in Thread : place[t] = "abort" ~> place[t] \in {"create", "done"}

(* "Check if network restart is complete and apply pending settings"       *)
(* (check_network_restart_complete): settings that wait for a restart are  *)
(* applied when it is complete.                                            *)
AppliedWhenComplete ==
  [][pending # None /\ pending' = None => \A r \in Restart : Ended(r)]_vars

=============================================================================
