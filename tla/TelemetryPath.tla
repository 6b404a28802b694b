----------------------------- MODULE TelemetryPath -----------------------------
(***************************************************************************)
(* Telemetry from the sensors of the streamer to the display of the        *)
(* viewer: the thread that collects it, the main loop of the control       *)
(* application that sends it, the handler of the viewer that takes a       *)
(* message apart, and the record key, which asks for the opposite of what  *)
(* was displayed last.                                                     *)
(*                                                                         *)
(* The world has a version: what is measured is the version it was         *)
(* measured at, and 0 is what stands for nothing known.  Services, the     *)
(* flags of VideoCore and those of the pipeline behave alike: recording    *)
(* stands for all of them.                                                 *)
(***************************************************************************)
EXTENDS Naturals, Sequences

CONSTANTS
  SimInterval,  \* _SIM_RECHECK_INTERVAL
  MaxChanges,   \* bound: changes of the world, of the modem, and of the recording
  MaxFaults     \* bound: failed queries, lost messages and lost connections

Unknown == 0
Version == 1 .. MaxChanges + 1
Value == Version \cup {Unknown}

Group == {"signal", "cell", "battery", "location", "recording"}

VARIABLES
  now, world, recording,  \* the world: its version, its modem, the recording of the pipeline
  changes, faults,        \* how many there were
  at,                     \* where the collecting thread is
  modem, simAbsent, recheck,
  sensors,                \* components that could be made
  gps, shared,            \* state of the GPS, and whether it is the one in the payload
  payload,
  connected, wire,
  shown,                  \* TelemetryContext
  command                 \* of the record key

worldVars == <<now, world, recording, changes, faults>>
modemVars == <<modem, simAbsent, recheck>>
gpsVars == <<gps, shared>>
collectorVars == <<at, modemVars, sensors, gpsVars, payload>>
viewerVars == <<shown, command>>
vars == <<worldVars, collectorVars, connected, wire, viewerVars>>

Position == [lat : Value, lng : Value]
Blank == [g \in Group |-> CASE g = "location" -> [lat |-> Unknown, lng |-> Unknown]
                            [] g = "recording" -> FALSE
                            [] OTHER -> Unknown]

IsPayload(p) ==
  /\ DOMAIN p = Group
  /\ p["location"] \in Position /\ p["recording"] \in BOOLEAN
  /\ \A g \in Group \ {"location", "recording"} : p[g] \in Value

TypeOK ==
  /\ now \in Version /\ world \in {"ok", "nosim", "gone"} /\ recording \in BOOLEAN
  /\ changes \in 0 .. MaxChanges /\ faults \in 0 .. MaxFaults
  /\ at \in {"modem", "signal", "cell", "lat", "lng", "location", "battery", "recording", "sleep", "died"}
  /\ modem \in BOOLEAN /\ simAbsent \in BOOLEAN
  /\ recheck \in 0 .. SimInterval - 1
  /\ sensors \subseteq {"location", "battery"}
  /\ gps \in Position /\ shared \in BOOLEAN
  /\ IsPayload(payload) /\ IsPayload(shown)
  /\ connected \in BOOLEAN
  /\ Len(wire) <= 1 /\ \A i \in 1 .. Len(wire) : IsPayload(wire[i])
  /\ command \in {"none", "start", "stop"}

(* _init_modem, where the modem may not be there, or have no SIM: the      *)
(* second of them leaves it for a while.                                   *)
_init_modem ==
  /\ modem' = (world = "ok")
  /\ simAbsent' = IF world = "gone" THEN simAbsent ELSE world = "nosim"

Init ==
  /\ now = 1 /\ world \in {"ok", "nosim", "gone"} /\ recording = FALSE
  /\ changes = 0 /\ faults = 0
  /\ at = "modem"
  /\ modem = (world = "ok") /\ simAbsent = (world = "nosim") /\ recheck = 0
  /\ sensors \in {{}, {"location", "battery"}}
  /\ gps = Blank["location"] /\ shared = FALSE
  /\ payload = Blank /\ connected = TRUE /\ wire = <<>>
  /\ shown = Blank /\ command = "none"

-----------------------------------------------------------------------------
(* The world *)

Change ==
  /\ changes < MaxChanges /\ changes' = changes + 1
  /\ \/ now' = now + 1 /\ UNCHANGED <<world, recording>>
     \/ world' \in {"ok", "nosim", "gone"} \ {world} /\ UNCHANGED <<now, recording>>
     \/ recording /\ recording' = FALSE /\ UNCHANGED <<now, world>>
  /\ UNCHANGED <<faults, collectorVars, connected, wire, viewerVars>>

Fault == faults < MaxFaults /\ faults' = faults + 1

-----------------------------------------------------------------------------
(* run of Telemetry *)

Step(from, to) == at = from /\ at' = to

ModemAvailable_NoRecheck ==
  /\ IF modem THEN Step("modem", "signal") /\ UNCHANGED modemVars
     ELSE IF simAbsent THEN Step("modem", "lat") /\ UNCHANGED modemVars
     ELSE /\ _init_modem
          /\ Step("modem", IF modem' THEN "signal" ELSE "lat")
          /\ UNCHANGED recheck
  /\ UNCHANGED <<worldVars, sensors, gpsVars, payload, connected, wire, viewerVars>>

(* _modem_available: without a SIM it is only tried now and then. *)
ModemAvailable ==
  /\ IF modem THEN Step("modem", "signal") /\ UNCHANGED modemVars
     ELSE IF simAbsent /\ recheck + 1 < SimInterval
     THEN Step("modem", "lat") /\ recheck' = recheck + 1 /\ UNCHANGED <<modem, simAbsent>>
     ELSE /\ _init_modem
          /\ Step("modem", IF modem' THEN "signal" ELSE "lat")
          /\ recheck' = IF simAbsent THEN 0 ELSE recheck
  /\ UNCHANGED <<worldVars, sensors, gpsVars, payload, connected, wire, viewerVars>>

(* _update_signal and _update_cell: a modem that does not answer is given  *)
(* up, and the second of them does nothing without one.                    *)
Query(g, next) ==
  /\ Step(g, next)
  /\ \/ modem /\ world = "ok" /\ payload' = [payload EXCEPT ![g] = now]
        /\ UNCHANGED <<faults, modem>>
     \/ /\ modem /\ payload' = [payload EXCEPT ![g] = Unknown] /\ modem' = FALSE
        /\ IF world = "ok" THEN Fault ELSE UNCHANGED faults
     \/ ~modem /\ UNCHANGED <<faults, modem, payload>>
  /\ UNCHANGED <<now, world, recording, changes, simAbsent, recheck, sensors, gpsVars,
                 connected, wire, viewerVars>>

UpdateSignal == Query("signal", "cell")
UpdateCell == Query("cell", "lat")

(* update of the GPS writes a message to its state field by field.  It has *)
(* no lock, and after the first time the payload has the very same state.  *)
UpdateGps ==
  /\ \/ Step("lat", "lng") /\ gps' = [gps EXCEPT !.lat = now]
     \/ Step("lng", "location") /\ gps' = [gps EXCEPT !.lng = gps.lat]
  /\ "location" \in sensors
  /\ UNCHANGED <<worldVars, modemVars, sensors, shared, payload, connected, wire, viewerVars>>

GpsFails ==
  /\ Step("lat", "battery") /\ "location" \in sensors /\ Fault
  /\ UNCHANGED <<now, world, recording, changes, modemVars, sensors, gpsVars, payload,
                 connected, wire, viewerVars>>

ShareLocation ==
  /\ Step("location", "battery") /\ shared' = TRUE
  /\ UNCHANGED <<worldVars, modemVars, sensors, gps, payload, connected, wire, viewerVars>>

(* Nothing catches what the sensor of the battery raises. *)
UpdateBattery ==
  /\ at = "battery" /\ "battery" \in sensors
  /\ \/ at' = "recording" /\ payload' = [payload EXCEPT !["battery"] = now] /\ UNCHANGED faults
     \/ at' = "died" /\ Fault /\ UNCHANGED payload
  /\ UNCHANGED <<now, world, recording, changes, modemVars, sensors, gpsVars,
                 connected, wire, viewerVars>>

(* A component that could not be made at the start is never tried again.   *)
Without ==
  /\ \/ Step("lat", "battery") /\ "location" \notin sensors
     \/ Step("battery", "recording") /\ "battery" \notin sensors
  /\ UNCHANGED <<worldVars, modemVars, sensors, gpsVars, payload, connected, wire, viewerVars>>

(* _update_services, _update_videocore and _update_gst: a failure counts   *)
(* as no flag.  The client of the control server answers one as well, with *)
(* nothing in it.                                                          *)
UpdateFlags ==
  /\ Step("recording", "sleep")
  /\ \/ payload' = [payload EXCEPT !["recording"] = recording] /\ UNCHANGED faults
     \/ payload' = [payload EXCEPT !["recording"] = FALSE] /\ Fault
  /\ UNCHANGED <<now, world, recording, changes, modemVars, sensors, gpsVars,
                 connected, wire, viewerVars>>

Again ==
  /\ Step("sleep", "modem")
  /\ UNCHANGED <<worldVars, modemVars, sensors, gpsVars, payload, connected, wire, viewerVars>>

Collect ==
  \/ ModemAvailable \/ UpdateSignal \/ UpdateCell \/ UpdateGps \/ ShareLocation \/ UpdateBattery
  \/ Without \/ UpdateFlags \/ Again

-----------------------------------------------------------------------------
(* The main loop of the control application, and the network *)

get_telemetry ==
  [payload EXCEPT !["location"] = IF shared THEN gps ELSE payload["location"]]

Send ==
  /\ connected /\ wire = <<>>
  /\ wire' = <<get_telemetry>>
  /\ UNCHANGED <<worldVars, collectorVars, connected, viewerVars>>

Lose ==
  /\ wire # <<>> /\ wire' = <<>> /\ Fault
  /\ UNCHANGED <<now, world, recording, changes, collectorVars, connected, viewerVars>>

Drop ==
  /\ connected /\ connected' = FALSE /\ Fault
  /\ UNCHANGED <<now, world, recording, changes, collectorVars, wire, viewerVars>>

Reconnect ==
  /\ ~connected /\ connected' = TRUE
  /\ UNCHANGED <<worldVars, collectorVars, wire, viewerVars>>

-----------------------------------------------------------------------------
(* The viewer *)

(* _telemetry_update, group by group: what the display shows of two of     *)
(* them for a moment is not told apart.                                    *)
Receive ==
  /\ wire # <<>>
  /\ shown' = Head(wire) /\ wire' = Tail(wire)
  /\ UNCHANGED <<worldVars, collectorVars, connected, command>>

(* disconnect_handler, in another thread than the handler of the messages. *)
reset ==
  /\ ~connected /\ shown' = Blank
  /\ UNCHANGED <<worldVars, collectorVars, connected, wire, command>>

(* The record key. *)
Toggle ==
  /\ connected /\ command = "none" /\ changes < MaxChanges /\ changes' = changes + 1
  /\ command' = IF shown["recording"] THEN "stop" ELSE "start"
  /\ UNCHANGED <<now, world, recording, faults, collectorVars, connected, wire, shown>>

Record ==
  /\ command # "none" /\ connected
  /\ recording' = (command = "start") /\ command' = "none"
  /\ UNCHANGED <<now, world, changes, faults, collectorVars, connected, wire, shown>>

Next ==
  \/ Change \/ Collect \/ GpsFails \/ Send \/ Lose \/ Drop \/ Reconnect
  \/ Receive \/ reset \/ Toggle \/ Record

Spec == Init /\ [][Next]_vars
FairSpec == Spec /\ WF_vars(Collect) /\ WF_vars(Send) /\ WF_vars(Receive)

-----------------------------------------------------------------------------
(* A modem that was given up is marked: the signal or the cell is unknown, *)
(* and stays so until a modem has answered (_update_signal and             *)
(* _update_cell).  Not both of them: the other one stays as it was.        *)
LostIsMarked == ~modem => payload["signal"] = Unknown \/ payload["cell"] = Unknown

(* What is displayed becomes what the world is, once it stays as it is     *)
(* with the modem, its SIM and the connection well: run of Telemetry.py,   *)
(* the main loop of apps/streamer.py and _telemetry_update of OSD.py.      *)
Steady == connected /\ world = "ok" /\ at # "died" /\ command = "none"

Current ==
  /\ \A g \in {"signal", "cell"} : shown[g] = now
  /\ "battery" \in sensors => shown["battery"] = now
  /\ "location" \in sensors => shown["location"] = [lat |-> now, lng |-> now]
  /\ shown["recording"] = recording

BecomesCurrent == <>[]Steady => <>[]Current

(* Not so, since the GPS writes what the main loop reads: a position that  *)
(* is sent was measured as a whole.                                        *)
LocationWhole == \A i \in 1 .. Len(wire) : wire[i]["location"].lat = wire[i]["location"].lng
=============================================================================
