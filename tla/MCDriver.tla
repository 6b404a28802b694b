-------------------------------- MODULE MCDriver --------------------------------
(* What the driver sees, does and sets, one part at a time: the video      *)
(* receiver, what is read from keys and axes, and the settings the menu    *)
(* edits.                                                                  *)
EXTENDS Video, Integers

CONSTANTS
  Friction, MaxStep, HoldRamp, HoldInterval, MinTapInterval,        \* DriveInput
  Window, Centering, Cooldown, MaxVal, MaxInterval, Raw, Deadbands,
  Ids, NoId, Patient, MaxEdits                                      \* MenuSettings

(* As in KeyAxisHandler: a value falls back before a tap comes late, and by *)
(* no less than a tap takes from it.                                       *)
ASSUME DriveAssumption ==
  /\ Friction \in Nat \ {0} /\ MaxStep \in Nat /\ Friction <= MaxStep /\ HoldRamp \in Nat \ {0}
  /\ MinTapInterval \in Nat \ {0} /\ Cooldown \in 0 .. MinTapInterval
  /\ HoldInterval \in Nat /\ MaxInterval \in Nat
  /\ MinTapInterval <= HoldInterval /\ HoldInterval <= MaxInterval
  /\ Window \in Nat \ {0} /\ Centering \in Nat \ {0} /\ MaxVal \in 0 .. 100
  /\ Raw \subseteq Int /\ Deadbands \subseteq 0 .. 99

VARIABLES
  part,  \* which of them runs: "video", "input" or "settings"
  device, value, cooldown, since, last, intervals, held, calibration, axes, menu, output, down,
  released,
  file, current, applied, tabs, shares, used, overlaid, network, connected, visible, tab,
  pending, restarts, complete, edits

inputVars == <<device, value, cooldown, since, last, intervals, held, calibration, axes, menu,
               output, down, released>>
settingsVars == <<file, current, applied, tabs, shares, used, overlaid, network, connected,
                  visible, tab, pending, restarts, complete, edits>>
driverVars == <<part, vars, inputVars, settingsVars>>

Drive == INSTANCE DriveInput
Set == INSTANCE MenuSettings WITH old <- applied

DriverInit ==
  /\ part \in {"video", "input", "settings"}
  /\ Init /\ Drive!Init /\ Set!Init
  /\ part # "video" => backend = "gst" /\ ratio = "oldest"
  /\ part # "input" => device = "keys"
  /\ part # "settings" => ~file["enabled"] /\ file["id"] = CHOOSE i \in Ids : TRUE

DriverNext ==
  /\ UNCHANGED part
  /\ \/ part = "video" /\ Next /\ UNCHANGED <<inputVars, settingsVars>>
     \/ part = "input" /\ Drive!Next /\ UNCHANGED <<vars, settingsVars>>
     \/ part = "settings" /\ Set!Next /\ UNCHANGED <<vars, inputVars>>

(* The fairness of each part, for as long as it is the one that runs. *)
VideoFairness ==
  /\ WF_vars(part = "video" /\ Thread)
  /\ WF_vars(part = "video" /\ CheckTimeout)
  /\ WF_vars(part = "video" /\ Packets)
SettingsFairness ==
  /\ WF_settingsVars(part = "settings" /\ Set!RestartEnds)
  /\ WF_settingsVars(part = "settings" /\ Set!check_network_restart_complete)

DriverSpec == DriverInit /\ [][DriverNext]_driverVars /\ VideoFairness /\ SettingsFairness

-----------------------------------------------------------------------------
(* FramesOwn is that of Video.                                             *)

(* The picture follows what the sender does: FollowsSender of Video, about *)
(* _main_loop of Receiver.py and its backends.                             *)
PictureFollows == part = "video" => FollowsSender

(* Keys and axes drive the way they are pressed and moved: KeysObeyed and  *)
(* PadObeyed of DriveInput, about KeyAxisHandler.py and read_inputs of     *)
(* GamepadController.py.                                                   *)
DriveObeyed == Drive!KeysObeyed /\ Drive!PadObeyed

(* What the menu shows is what is saved, what is saved is used by every    *)
(* part of the viewer, and a restart for it ends: InStep, ShownIsSaved,    *)
(* SavedIsShown and Settles of MenuSettings, about SettingsController.py.  *)
SettingsHold ==
  /\ []Set!InStep
  /\ Set!ShownIsSaved /\ Set!SavedIsShown
  /\ part = "settings" => Set!Settles
=============================================================================
