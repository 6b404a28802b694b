------------------------------- MODULE MCStreamer -------------------------------
(* The streamer beside its pipeline, one part at a time: the properties    *)
(* that are set over the control server, the control loop of the           *)
(* quantization, the start and the end of the control application, and the *)
(* telemetry.  They share no state that any of them changes, so that every *)
(* behaviour of one is checked beside the initial states of the others.    *)
EXTENDS Naturals, Sequences

CONSTANTS Connection, MaxRequests, MaxRetries, Slow,
          QpMin, QpMax, MaxBytes, MinStep, MaxStep, Cooldown, Scenes, MaxChanges, MaxFaults,
          MaxBuilt, SimInterval, MaxTurns, MaxMisses

ASSUME StreamerAssumption ==
  MaxRequests \in Nat /\ MaxRetries \in Nat \ {0} /\ Slow \in BOOLEAN /\ MaxBuilt \in Nat

VARIABLES
  chosen,  \* which of them runs: "settings", "qp", "app" or "telemetry"
  value, requests, thread, outcome, callbacks, dispatching, answer,
  current, applied, since, scene, changes, faults,
  apart, doing, waits, state, running, using, open, transmitter, receiver, worker, pwm, powered, todo,
  now, world, recording, turns, misses, collecting, modem, simAbsent, recheck, sensors, gps, shared,
  payload, connected, wire, shown, command

settingVars == <<value, requests, thread, outcome, callbacks, dispatching, answer>>
qpVars == <<current, applied, since, scene, changes, faults>>
appVars == <<apart, doing, waits, state, running, using, open, transmitter, receiver, worker, pwm,
             powered, todo>>
telemetryVars == <<now, world, recording, turns, misses, collecting, modem, simAbsent, recheck,
                   sensors, gps, shared, payload, connected, wire, shown, command>>
streamerVars == <<chosen, settingVars, qpVars, appVars, telemetryVars>>

Settings == INSTANCE LiveSettings WITH calls <- callbacks, looping <- dispatching
QP == INSTANCE AdaptiveQP
App == INSTANCE ControlApp WITH at <- doing
Telemetry == INSTANCE TelemetryPath
               WITH changes <- turns, faults <- misses, at <- collecting,
                    MaxChanges <- MaxTurns, MaxFaults <- MaxMisses

StreamerInit ==
  /\ chosen \in {"settings", "qp", "app", "telemetry"}
  /\ Settings!Init /\ QP!Init /\ App!Init /\ Telemetry!Init
  /\ chosen # "qp" => \A s \in Scenes : scene <= s
  /\ chosen # "app" => apart
  /\ chosen # "telemetry" => world = "ok" /\ sensors = {}

StreamerNext ==
  /\ UNCHANGED chosen
  /\ \/ /\ chosen = "settings" /\ Settings!Next
        /\ UNCHANGED <<qpVars, appVars, telemetryVars>>
     \/ /\ chosen = "qp" /\ QP!Next
        /\ UNCHANGED <<settingVars, appVars, telemetryVars>>
     \/ /\ chosen = "app" /\ App!Next
        /\ UNCHANGED <<settingVars, qpVars, telemetryVars>>
     \/ /\ chosen = "telemetry" /\ Telemetry!Next
        /\ UNCHANGED <<settingVars, qpVars, appVars>>

(* The fairness of each part, for as long as it is the one that runs. *)
SettingFairness ==
  /\ WF_settingVars(chosen = "settings" /\ Settings!Dispatch)
  /\ \A c \in Connection : WF_settingVars(chosen = "settings" /\ Settings!Serve(c))
QPFairness == WF_qpVars(chosen = "qp" /\ QP!on_keyframe)
AppFairness ==
  /\ WF_appVars(chosen = "app" /\ App!MainThread)
  /\ WF_appVars(chosen = "app" /\ App!RunThread)
  /\ \A c \in 0 .. MaxBuilt : WF_appVars(chosen = "app" /\ App!Ending(c))
TelemetryFairness ==
  /\ WF_telemetryVars(chosen = "telemetry" /\ Telemetry!Collect)
  /\ WF_telemetryVars(chosen = "telemetry" /\ Telemetry!Send)
  /\ WF_telemetryVars(chosen = "telemetry" /\ Telemetry!Receive)

StreamerSpec ==
  /\ StreamerInit /\ [][StreamerNext]_streamerVars
  /\ SettingFairness /\ QPFairness /\ AppFairness /\ TelemetryFairness

-----------------------------------------------------------------------------
(* Key frames come to have their size: SizeSettles of AdaptiveQP, about    *)
(* _adjust of QPManager.py.                                                *)
SizesSettle == chosen = "qp" => QP!SizeSettles

(* A property has the value of a request that succeeded, and requests are  *)
(* answered: KeptIsConfirmed and SetIsAnswered of LiveSettings, about      *)
(* set_property of Streamer.py.                                            *)
SetIsKept ==
  /\ []Settings!KeptIsConfirmed
  /\ chosen = "settings" => Settings!SetIsAnswered

(* The control application comes to its end, with its outputs at rest:     *)
(* AtRest and EndComes of ControlApp, about the finally block of           *)
(* apps/streamer.py and stop of Client.py.                                 *)
EndsAtRest ==
  /\ []App!AtRest
  /\ chosen = "app" => App!EndComes

(* A modem that was given up is marked, and the display of the viewer      *)
(* becomes what the sensors of the streamer measure: LostIsMarked and      *)
(* BecomesCurrent of TelemetryPath, about Telemetry.py and OSD.py.         *)
DisplaysWorld ==
  /\ []Telemetry!LostIsMarked
  /\ chosen = "telemetry" => Telemetry!BecomesCurrent
=============================================================================
