-------------------------------- MODULE MCViewer --------------------------------
(* The viewer, one part at a time: its network as settings change, the     *)
(* menu with the commands it sends, and its gamepads.  What they share is  *)
(* repeated in each of them, so that every behaviour of one is checked     *)
(* beside the initial states of the others.                                *)
EXTENDS NetworkLifecycle

CONSTANTS MaxRequests, MaxRestarts, Guid, MaxPlugs

ASSUME MenuAssumption == MaxRequests \in Nat /\ MaxRestarts \in Nat
ASSUME GamepadAssumption == MaxPlugs \in Nat /\ None \notin Guid

VARIABLES
  part,  \* which of them runs: "network", "menu" or "gamepads"
  visible, tab, enabled, locked, mapping, loading, result, displayed, kind, requests, main, queue,
  tester, isConnected, controller, server, spectator, commands, tasks, restart, setting, escaped,
  plugged, plugs, thread, found, gamepads, calibrations, active, shown, selected, calibrator,
  dialog, disabled, loop, sampled, saved, missed, interrupted

menuVars == <<visible, tab, enabled, locked, mapping, loading, result, displayed, kind, requests,
              main, queue, tester, isConnected, controller, server, spectator, commands, tasks,
              restart, setting, escaped>>
gamepadVars == <<plugged, plugs, thread, found, gamepads, calibrations, active, shown, selected,
                 calibrator, dialog, disabled, loop, sampled, saved, missed, interrupted>>
viewerVars == <<part, vars, menuVars, gamepadVars>>

MCRelayed == {"relay"}

Menu == INSTANCE MenuCommands
          WITH connected <- isConnected, pending <- commands, setup <- setting
Pads == INSTANCE Gamepads
          WITH settings <- calibrations, locked <- disabled, main <- loop

ViewerInit ==
  /\ part \in {"network", "menu", "gamepads"}
  /\ Init /\ Menu!Init /\ Pads!Init
  /\ part # "network" => applied = "relay"
  /\ part # "menu" => ~spectator
  /\ part # "gamepads" => saved = [guid |-> None, cals |-> [g \in Guid |-> {}]]

ViewerNext ==
  /\ UNCHANGED part
  /\ \/ part = "network" /\ Next /\ UNCHANGED <<menuVars, gamepadVars>>
     \/ part = "menu" /\ Menu!Next /\ UNCHANGED <<vars, gamepadVars>>
     \/ part = "gamepads" /\ Pads!Next /\ UNCHANGED <<vars, menuVars>>

(* The fairness of each part, for as long as it is the one that runs. *)
NetworkFairness ==
  /\ WF_vars(part = "network" /\ MainThread)
  /\ \A r \in Restart : WF_vars(part = "network" /\ RestartThread(r))
  /\ \A c \in Controller : WF_vars(part = "network" /\ SetupThread(c))
MenuFairness ==
  /\ WF_menuVars(part = "menu" /\ (Menu!Check \/ Menu!Register \/ Menu!Submit))
  /\ WF_menuVars(part = "menu" /\ Menu!process_callbacks)
  /\ WF_menuVars(part = "menu" /\ Menu!_process_pending_result)
  /\ WF_menuVars(part = "menu" /\ Menu!Restarting)
  /\ WF_menuVars(part = "menu" /\ Menu!TestDone)
  /\ WF_menuVars(part = "menu" /\ Menu!SetupDone)
  /\ \A r \in 1 .. MaxRequests :
       WF_menuVars(part = "menu" /\ \E s \in Menu!Sent : s.req = r /\ Menu!TaskEnds(s))
GamepadFairness == WF_gamepadVars(part = "gamepads" /\ Pads!Thread)

ViewerSpec ==
  /\ ViewerInit /\ [][ViewerNext]_viewerVars
  /\ NetworkFairness /\ MenuFairness /\ GamepadFairness

-----------------------------------------------------------------------------
(* InForce, NoConflict and CleanExit are those of NetworkLifecycle.        *)

(* A change of the settings is complete in the end, and a menu that waits  *)
(* becomes usable again: RestartEnds of NetworkLifecycle and LoadingEnds   *)
(* of MenuCommands, about wait_for_network_restart and show_loading.       *)
WaitingEnds ==
  /\ part = "network" => RestartEnds
  /\ part = "menu" => Menu!LoadingEnds

(* The menu shows the result of what it waits for, and is not locked for   *)
(* nothing: OwnResult and NotLockedOut of MenuCommands, about              *)
(* _process_pending_result and _on_active_toggle of Menu.py.               *)
MenuUsable == Menu!OwnResult /\ Menu!NotLockedOut

(* Gamepads are read with their calibration, and a calibration left alone  *)
(* is sound and unlocks the menu; the gamepad that was chosen becomes      *)
(* active, and one that is gone is let go: InUse, Undisturbed, Served and  *)
(* Released of Gamepads, about run of GamepadController.py and             *)
(* GamepadCalibrationWidget.py.                                            *)
GamepadsServed ==
  /\ [](Pads!InUse /\ Pads!Undisturbed)
  /\ part = "gamepads" => Pads!Served /\ Pads!Released
=============================================================================
