-------------------------------- MODULE Gamepads --------------------------------
(***************************************************************************)
(* Gamepads of the viewer: the GamepadController with its thread, the      *)
(* GamepadCalibrationWidget of the menu with the calibrator and its        *)
(* dialog, and what the InputController does when settings are applied.    *)
(*                                                                         *)
(* The main thread draws, handles the user's clicks and applies settings;  *)
(* the thread of the controller looks for gamepads once a second and tells *)
(* the widget, whose observer runs on it.  A gamepad is known by its guid, *)
(* and each time it is plugged in it is a new device.                      *)
(***************************************************************************)
EXTENDS Naturals, FiniteSets

CONSTANTS
  Guid,       \* kinds of gamepads
  None,       \* no guid
  MaxPlugs    \* bound: times a gamepad is plugged in

(* A calibration is the set of the gamepads it was recorded from, and the  *)
(* empty one is none.  A device is the number of its plugging, 0 is none.  *)
Calibration == SUBSET Guid
Pads == [Guid -> 0 .. MaxPlugs]
Stage == {"steering", "center", "throttle", "brake"}

VARIABLES
  plugged,     \* the devices that are plugged in
  plugs,       \* times one was
  thread,      \* where the thread of the controller is
  found,       \* what it has found
  gamepads,    \* _gamepads, whose guids are _previous_guids
  settings,    \* _settings
  active,      \* _active_guid, _active_gamepad and _active_settings
  shown,       \* gamepads of the widget
  selected,    \* selected_guid
  calibrator,  \* state, stage, and the gamepads it has recorded from
  dialog,      \* "hidden", or shown for this calibrator or for an "old" one
  locked,      \* buttons that are disabled: of the "widget", of the "menu"
  main,        \* where the main thread is
  sampled,     \* the gamepad whose axes it has read
  saved,       \* the settings on disk
  missed,      \* history: one was replugged before its removal was noticed
  interrupted  \* history: gamepads changed, or were mapped, during a calibration

controller == <<thread, found, gamepads, settings, active>>
widget == <<shown, selected, calibrator, dialog, locked>>
mainVars == <<main, sampled, saved>>
vars == <<plugged, plugs, controller, widget, mainVars, missed, interrupted>>

Idle == [state |-> "none", stage |-> "steering", samples |-> {}]
Complete == [Idle EXCEPT !.state = "complete"]
Calibrating == calibrator.state \in {"active", "pause"}

TypeOK ==
  /\ plugged \in Pads /\ plugs \in 0 .. MaxPlugs
  /\ thread \in {"scan", "update", "notify"}
  /\ found \in Pads /\ gamepads \in Pads
  /\ settings \in [Guid -> Calibration]
  /\ active \in [guid : Guid \cup {None}, pad : 0 .. MaxPlugs, cal : Calibration]
  /\ shown \in Pads /\ selected \in Guid \cup {None}
  /\ calibrator \in [state : {"none", "active", "pause", "complete"}, stage : Stage,
                     samples : SUBSET Guid]
  /\ dialog \in {"hidden", "shown", "old"} /\ locked \subseteq {"widget", "menu"}
  /\ main \in {"idle", "update", "crashed"} /\ sampled \in Guid \cup {None}
  /\ saved \in [guid : Guid \cup {None}, cals : [Guid -> Calibration]]
  /\ missed \in BOOLEAN /\ interrupted \in BOOLEAN

Present(pads) == {g \in Guid : pads[g] # 0}

(* The viewer has started with the settings on disk and no gamepad.  Some  *)
(* calibrations may be known from earlier.                                 *)
Init ==
  /\ plugged = [g \in Guid |-> 0] /\ plugs = 0
  /\ thread = "scan" /\ found = plugged /\ gamepads = plugged
  /\ saved \in [guid : Guid \cup {None}, cals : [Guid -> Calibration]]
  /\ \A g \in Guid : saved.cals[g] \subseteq {g}
  /\ settings = saved.cals
  /\ active = [guid |-> saved.guid, pad |-> 0, cal |-> {}]
  /\ shown = plugged /\ selected = None
  /\ calibrator = Idle /\ dialog = "hidden" /\ locked = {}
  /\ main = "idle" /\ sampled = None
  /\ missed = FALSE /\ interrupted = FALSE

-----------------------------------------------------------------------------
(* The user's hands *)

Plug(g) ==
  /\ plugged[g] = 0 /\ plugs < MaxPlugs
  /\ plugs' = plugs + 1
  /\ plugged' = [plugged EXCEPT ![g] = plugs']
  /\ missed' = (missed \/ gamepads[g] # 0 \/ found[g] # 0)
  /\ UNCHANGED <<controller, widget, mainVars, interrupted>>

Unplug(g) ==
  /\ plugged[g] # 0
  /\ plugged' = [plugged EXCEPT ![g] = 0]
  /\ UNCHANGED <<plugs, controller, widget, mainVars, missed, interrupted>>

-----------------------------------------------------------------------------
(* GamepadController *)

(* _set_active_unlocked: the gamepad and its settings, or neither. *)
Active(pads, cals, g) ==
  IF g # None /\ pads[g] # 0 /\ cals[g] # {}
    THEN [guid |-> g, pad |-> pads[g], cal |-> cals[g]]
    ELSE [guid |-> g, pad |-> 0, cal |-> {}]

(* run: what is plugged in is read without the lock. *)
Scan ==
  /\ thread = "scan"
  /\ found' = plugged
  /\ thread' = IF Present(found') # Present(gamepads) THEN "update" ELSE "scan"
  /\ UNCHANGED <<plugged, plugs, gamepads, settings, active, widget, mainVars, missed, interrupted>>

Known == active.guid # None /\ found[active.guid] # 0

Candidates == {g \in Present(found) : settings[g] # {}}

Choice_OthersOnly ==
  IF active.pad # 0 \/ Known \/ Candidates = {} THEN {active}
  ELSE {Active(found, settings, g) : g \in Candidates}

(* Unless a gamepad is active: the default gamepad if it is there, or      *)
(* another that has a calibration.                                         *)
Choice ==
  IF active.pad # 0 \/ (~Known /\ Candidates = {}) THEN {active}
  ELSE {Active(found, settings, g) : g \in IF Known THEN {active.guid} ELSE Candidates}

(* An active gamepad that was not found is given up, without another look. *)
Kept(choice) ==
  IF choice.guid \in Present(found) THEN choice ELSE [choice EXCEPT !.pad = 0, !.cal = {}]

Update ==
  /\ thread = "update"
  /\ gamepads' = found
  /\ \E choice \in Choice : active' = Kept(choice)
  /\ thread' = "notify"
  /\ UNCHANGED <<plugged, plugs, found, settings, widget, mainVars, missed, interrupted>>

-----------------------------------------------------------------------------
(* GamepadCalibrationWidget *)

(* _apply_known_calibration, with the gamepads of the controller; the      *)
(* dialog of a calibrator that is given up stays.                          *)
Abandoned == IF dialog = "shown" THEN "old" ELSE dialog

ApplyKnown(g) ==
  IF settings[g] = {} THEN UNCHANGED <<active, calibrator, dialog>>
  ELSE /\ active' = Active(gamepads, settings, g)
       /\ calibrator' = Complete /\ dialog' = Abandoned

(* _on_gamepads_changed, on the thread of the controller. *)
Notify ==
  LET wanted == IF selected = None THEN active.guid ELSE selected
      first == IF wanted \in Present(found) THEN {wanted}
               ELSE IF Present(found) = {} THEN {None} ELSE Present(found)
  IN  /\ thread = "notify"
      /\ thread' = "scan"
      /\ shown' = found
      /\ \E g \in first :
           /\ selected' = g
           /\ IF g # None THEN ApplyKnown(g)
              ELSE calibrator' = Idle /\ dialog' = Abandoned /\ UNCHANGED active
           /\ interrupted' = (interrupted \/ (Calibrating /\ (g # selected \/ settings[g] # {})))
      /\ UNCHANGED <<plugged, plugs, found, gamepads, settings, locked, mainVars, missed>>

(* set_selected_gamepad. *)
Select(g) ==
  /\ main = "idle" /\ dialog = "hidden" /\ "widget" \notin locked
  /\ shown[g] # 0
  /\ selected' = g
  /\ ApplyKnown(g)
  /\ UNCHANGED <<plugged, plugs, thread, found, gamepads, settings, shown, locked, mainVars,
                 missed, interrupted>>

(* _start_calibration and on_start. *)
StartCalibration ==
  /\ main = "idle" /\ dialog = "hidden" /\ "widget" \notin locked
  /\ Present(shown) # {} /\ calibrator.state # "active"
  /\ calibrator' = [state |-> "active", stage |-> "steering", samples |-> {}]
  /\ locked' = {"widget", "menu"}
  /\ UNCHANGED <<plugged, plugs, controller, shown, selected, dialog, mainVars, missed, interrupted>>

(* _confirm of the dialog and _resume_calibration of the calibrator that   *)
(* has shown it.                                                           *)
Confirm ==
  /\ main = "idle" /\ dialog # "hidden"
  /\ dialog' = "hidden"
  /\ calibrator' = IF dialog = "old" THEN calibrator
                   ELSE [calibrator EXCEPT !.state = "active",
                           !.stage = CASE calibrator.stage = "steering" -> "center"
                                       [] calibrator.stage = "center" -> "throttle"
                                       [] OTHER -> "brake"]
  /\ UNCHANGED <<plugged, plugs, controller, shown, selected, locked, mainVars, missed, interrupted>>

(* toggle_button_remap: after a button is mapped all is unlocked, the menu  *)
(* too.  During a calibration the mappings are not drawn, but take clicks.  *)
Remap ==
  /\ main = "idle" /\ dialog = "hidden" /\ Present(shown) # {}
  /\ locked' = {}
  /\ interrupted' = (interrupted \/ Calibrating)
  /\ UNCHANGED <<plugged, plugs, controller, shown, selected, calibrator, dialog, mainVars, missed>>

(* _update_calibrator reads the axes of the selected gamepad ... *)
Sample ==
  /\ main = "idle" /\ calibrator.state = "active"
  /\ selected # None /\ shown[selected] # 0
  /\ sampled' = selected
  /\ main' = "update"
  /\ UNCHANGED <<plugged, plugs, controller, widget, saved, missed, interrupted>>

(* on_done: without a gamepad the menu stays locked. *)
Finish(recorded) ==
  IF selected # None /\ shown[selected] # 0
    THEN LET cals == [settings EXCEPT ![selected] = recorded]
         IN  /\ settings' = cals
             /\ active' = Active(gamepads, cals, selected)
             /\ locked' = {}
    ELSE locked' = locked \ {"widget"} /\ UNCHANGED <<settings, active>>

(* ... and passes them to the calibrator that is there by now.  Each stage *)
(* takes as many samples as it needs, and the next one waits for a         *)
(* confirmation.                                                           *)
Calibrate ==
  LET recorded == calibrator.samples \cup {sampled}
  IN  /\ main = "update" /\ calibrator.state = "active"
      /\ main' = "idle"
      /\ \/ /\ calibrator' = [calibrator EXCEPT !.samples = recorded]
            /\ UNCHANGED <<settings, active, dialog, locked>>
         \/ /\ calibrator.stage # "brake"
            /\ calibrator' = [calibrator EXCEPT !.samples = recorded, !.state = "pause"]
            /\ dialog' = "shown"
            /\ UNCHANGED <<settings, active, locked>>
         \/ /\ calibrator.stage = "brake"
            /\ calibrator' = [calibrator EXCEPT !.samples = recorded, !.state = "complete"]
            /\ Finish(recorded)
            /\ UNCHANGED dialog
      /\ UNCHANGED <<plugged, plugs, thread, found, gamepads, shown, selected, sampled, saved,
                     missed, interrupted>>

(* It may have completed since, or there is none; another gamepad may lack *)
(* the axis that is recorded.                                              *)
CalibrateNothing ==
  /\ main = "update"
  /\ \/ calibrator.state = "complete" /\ main' = "idle"
     \/ calibrator.state = "none" /\ main' = "crashed"
     \/ /\ calibrator.state = "active" /\ calibrator.samples \ {sampled} # {}
        /\ main' = "crashed"
  /\ UNCHANGED <<plugged, plugs, controller, widget, sampled, saved, missed, interrupted>>

-----------------------------------------------------------------------------
(* Menu and InputController *)

(* _save_button_callback on the input tab. *)
Save ==
  /\ main = "idle" /\ "menu" \notin locked
  /\ saved' = [guid |-> selected, cals |-> settings]
  /\ UNCHANGED <<plugged, plugs, controller, widget, main, sampled, missed, interrupted>>

(* update_settings when the menu is left: calibrations that are on disk    *)
(* replace those in use, and the gamepad on disk becomes the active one.   *)
ApplySettings ==
  LET cals == [g \in Guid |-> IF saved.cals[g] # {} THEN saved.cals[g] ELSE settings[g]]
  IN  /\ main = "idle"
      /\ settings' = cals
      /\ active' = Active(gamepads, cals, saved.guid)
      /\ UNCHANGED <<plugged, plugs, thread, found, gamepads, widget, mainVars, missed, interrupted>>

-----------------------------------------------------------------------------
Thread == Scan \/ Update \/ Notify

Next ==
  \/ \E g \in Guid : Plug(g) \/ Unplug(g) \/ Select(g)
  \/ Thread
  \/ StartCalibration \/ Confirm \/ Remap
  \/ Sample \/ Calibrate \/ CalibrateNothing
  \/ Save \/ ApplySettings

Spec == Init /\ [][Next]_vars

(* The thread of the controller runs.  The user owes nobody anything. *)
FairSpec == Spec /\ WF_vars(Thread)

-----------------------------------------------------------------------------
(* Properties *)

(* What a gamepad is read with is the calibration that is kept for it,     *)
(* whoever replaced that last: the calibrator, the settings or neither.    *)
InUse == active.pad # 0 => active.guid # None /\ active.cal = settings[active.guid]

(* What becomes of a calibration during which no gamepad comes or goes and *)
(* no buttons are mapped: what is kept for a gamepad, or is on disk, was   *)
(* recorded from that gamepad alone, and the menu is locked only as long   *)
(* as the calibration lasts, so that nobody is left without a button to    *)
(* leave it.                                                               *)
Undisturbed ==
  ~interrupted =>
    /\ \A g \in Guid : settings[g] \subseteq {g} /\ saved.cals[g] \subseteq {g}
    /\ main # "crashed" /\ locked # {} => Calibrating

(* A gamepad that is gone is not the active one for ever, and the viewer   *)
(* falls back to the keyboard, unless it was plugged in again too soon.    *)
Gone == active.pad # 0 /\ active.pad # plugged[active.guid]
Released == Gone ~> ~Gone \/ missed

(* The gamepad that was chosen becomes active when it is there and has a   *)
(* calibration.                                                            *)
Waits == active.guid # None /\ plugged[active.guid] # 0 /\ settings[active.guid] # {}
         /\ active.pad = 0
Served == Waits ~> ~Waits

(* run: "Check if another gamepad for which we have a configuration is     *)
(* available, if so, use the first matching one", when the default one is  *)
(* not there.                                                              *)
FallbackDue ==
  /\ active.pad = 0 /\ (active.guid = None \/ plugged[active.guid] = 0)
  /\ \E g \in Guid : plugged[g] # 0 /\ settings[g] # {}
Fallback == FallbackDue ~> ~FallbackDue

=============================================================================
