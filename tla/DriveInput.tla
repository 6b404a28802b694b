------------------------------ MODULE DriveInput ------------------------------
(***************************************************************************)
(* What the viewer sends as throttle and steering: a key of the keyboard,  *)
(* whose presses are turned into a value that rises while it is held,      *)
(* reacts to the rhythm of taps and falls back when it is let go; or the   *)
(* axes of a gamepad, by their calibration.  The throttle stands for both  *)
(* pairs of keys.                                                          *)
(*                                                                         *)
(* Values of keys are counted in hundredths of the full range at the       *)
(* defaults of KeyAxisHandler, axes of a gamepad in steps of the raw axis  *)
(* and, calibrated, in hundredths.                                         *)
(***************************************************************************)
EXTENDS Integers, Sequences, FiniteSetsExt

CONSTANTS
  Friction, MaxStep, HoldRamp, HoldInterval, MinTapInterval, Window, Centering, Cooldown,
                 \* parameters of KeyAxisHandler
  MaxVal,        \* max_val, and -min_val
  MaxInterval,   \* frames between taps are counted so far (a bound)
  Raw,           \* positions of an axis
  Deadbands      \* in percent; below 100

Direction == {-1, 0, 1}
Axis == {"steering", "throttle", "brake"}
Full == 100

VARIABLES
  device,       \* what the driver uses: "keys" or "gamepad"
  value, cooldown, since, last, intervals, held,  \* of the KeyAxisHandler
  calibration,  \* _active_settings: the same for every axis, but for the center
  axes,         \* where the axes of the gamepad are
  menu,         \* the menu is visible
  output,       \* the throttle and the steering sent last
  down,         \* history: the direction read last
  released      \* history: for how many frames no key was read, up to Decay

handler == <<value, cooldown, since, last, intervals, held>>
gamepad == <<calibration, axes>>
vars == <<device, handler, gamepad, menu, output, down, released>>

Clamp(v, lo, hi) == Max({lo, Min({hi, v})})
Abs(v) == IF v < 0 THEN -v ELSE v

(* Frames after which a value that is let go is back at zero.  *)
Decay == Cooldown + 1 + MaxVal \div (Friction * Centering)

Calibration ==
  {[min |-> lo, max |-> hi, center |-> c, invert |-> i, deadband |-> d] :
     lo \in Raw, hi \in Raw, c \in Raw, i \in BOOLEAN, d \in Deadbands}
Sound(c) == c.min < c.max /\ c.min <= c.center /\ c.center <= c.max

TypeOK ==
  /\ device \in {"keys", "gamepad"} /\ value \in -MaxVal .. MaxVal
  /\ cooldown \in 0 .. Cooldown /\ since \in 0 .. MaxInterval /\ last \in Direction
  /\ intervals \in [1 .. Window -> MinTapInterval .. MaxInterval] /\ held \in 0 .. HoldRamp
  /\ calibration \in Calibration /\ axes \in [Axis -> Raw] /\ menu \in BOOLEAN
  /\ output \in [{"throttle", "steering"} -> Int] /\ down \in Direction /\ released \in 0 .. Decay

NewHandler ==
  [value |-> 0, cooldown |-> 0, since |-> HoldInterval, last |-> 0,
   intervals |-> [i \in 1 .. Window |-> HoldInterval], held |-> 0]
Becomes(h) ==
  /\ value' = h.value /\ cooldown' = h.cooldown /\ since' = h.since /\ last' = h.last
  /\ intervals' = h.intervals /\ held' = h.held

Init ==
  /\ device \in {"keys", "gamepad"}
  /\ value = 0 /\ cooldown = 0 /\ since = HoldInterval /\ last = 0 /\ held = 0
  /\ intervals = [i \in 1 .. Window |-> HoldInterval]
  /\ calibration \in {c \in Calibration : Sound(c)}
  /\ device = "keys" => calibration = CHOOSE c \in Calibration : Sound(c)
  /\ axes = [a \in Axis |-> IF a = "steering" THEN calibration.center
                            ELSE IF calibration.invert THEN calibration.max ELSE calibration.min]
  /\ menu = FALSE /\ output = [throttle |-> 0, steering |-> 0] /\ down = 0 /\ released = 0

-----------------------------------------------------------------------------
(* KeyAxisHandler.update, for a direction.  *)

Turned_Kept(d) == [value |-> value, since |-> since, held |-> held]

(* Another direction than before starts from zero.  *)
Turned(d) ==
  IF d # 0 /\ d # last
  THEN [value |-> 0, since |-> HoldInterval, held |-> 0]
  ELSE [value |-> value, since |-> since, held |-> held]

(* A tap moves by friction, more or less as it comes sooner or later than  *)
(* the average of the last ones, and friction is taken away again.         *)
Sums(list) ==
  LET sum[n \in 0 .. Len(list)] == IF n = 0 THEN 0 ELSE sum[n - 1] + list[n]
  IN sum
_smoothed(list) == Sums(list)[Len(list)]
TapStep(list, actual) ==
  LET sum == _smoothed(list)
  IN Clamp((Friction * (sum - Window * actual)) \div sum, -Friction, Friction)

_hold_step(frames) == Friction + ((MaxStep - Friction) * Min({frames, HoldRamp})) \div HoldRamp

Tap(d) ==
  LET h == Turned(d)
      list == Append(Tail(intervals), h.since)
  IN /\ d # 0 /\ h.since >= MinTapInterval
     /\ intervals' = list
     /\ value' = Clamp(h.value + d * TapStep(list, h.since), -MaxVal, MaxVal)
     /\ since' = 0 /\ cooldown' = Cooldown /\ held' = 0 /\ last' = d

Hold(d) ==
  LET h == Turned(d)
  IN /\ d # 0 /\ h.since < MinTapInterval
     /\ held' = Min({h.held + 1, HoldRamp})
     /\ value' = Clamp(h.value + d * _hold_step(h.held + 1), -MaxVal, MaxVal)
     /\ since' = h.since /\ cooldown' = Cooldown /\ last' = d
     /\ UNCHANGED intervals

LetGo(d) ==
  /\ d = 0
  /\ since' = Min({since + 1, MaxInterval}) /\ held' = 0
  /\ IF cooldown > 0
     THEN cooldown' = cooldown - 1 /\ UNCHANGED value
     ELSE /\ value' = IF value > 0 THEN Max({0, value - Friction * Centering})
                                   ELSE Min({0, value + Friction * Centering})
          /\ UNCHANGED cooldown
  /\ UNCHANGED <<last, intervals>>

update(d) ==
  /\ Tap(d) \/ Hold(d) \/ LetGo(d)
  /\ down' = d /\ released' = IF d = 0 THEN Min({released + 1, Decay}) ELSE 0

-----------------------------------------------------------------------------
(* GamepadController.read_inputs  *)

(* How far it is on the way between two positions, of which the second may *)
(* be the lower one.                                                       *)
_remap(raw, from, to) ==
  IF from = to THEN 0 ELSE (Abs(raw - from) * Full) \div Abs(to - from)

_remap_centered(raw, c) ==
  IF raw < c.center
  THEN IF c.center = c.min THEN 0 ELSE (((raw - c.min) * Full) \div (c.center - c.min)) - Full
  ELSE IF c.max = c.center THEN 0 ELSE ((raw - c.center) * Full) \div (c.max - c.center)

Deadband(v, d) ==
  IF Abs(v) < d THEN 0
  ELSE (IF v > 0 THEN 1 ELSE -1) * (((Abs(v) - d) * Full) \div (Full - d))

Centered(raw) ==
  LET v == _remap_centered(Clamp(raw, calibration.min, calibration.max), calibration)
  IN Deadband(IF calibration.invert THEN -v ELSE v, calibration.deadband)
OneSided(raw) ==
  LET v == Clamp(raw, calibration.min, calibration.max)
      c == calibration
  IN Deadband(IF c.invert THEN _remap(v, c.max, c.min) ELSE _remap(v, c.min, c.max), c.deadband)

read_inputs(at) ==
  [a \in Axis |-> IF a = "steering" THEN Centered(at[a]) ELSE OneSided(at[a])]

-----------------------------------------------------------------------------
(* The main loop sends what is read, or nothing while the menu is visible. *)
Frame(d) ==
  LET pad == read_inputs(axes)
  IN /\ device = "gamepad" => d = 0
     /\ IF menu
        THEN /\ output' = [throttle |-> 0, steering |-> 0]
             /\ UNCHANGED <<handler, down, released>>
        ELSE /\ update(d)
             /\ output' = IF device = "gamepad"
                          THEN [throttle |-> pad["throttle"] - pad["brake"], steering |-> pad["steering"]]
                          ELSE [throttle |-> value', steering |-> 0]
     /\ UNCHANGED <<device, gamepad, menu>>

Move(a) ==
  /\ device = "gamepad"
  /\ \E to \in Raw : to # axes[a] /\ axes' = [axes EXCEPT ![a] = to]
  /\ UNCHANGED <<device, handler, calibration, menu, output, down, released>>

OpenMenu ==
  /\ ~menu /\ menu' = TRUE
  /\ UNCHANGED <<device, handler, gamepad, output, down, released>>

(* Settings are applied as the menu is left, unless the network is         *)
(* restarted first: then when that is done.                                *)
_setup_key_handlers == Becomes(NewHandler) /\ down' = 0 /\ released' = 0
CloseMenu ==
  /\ menu /\ menu' = FALSE
  /\ \/ _setup_key_handlers
     \/ UNCHANGED <<handler, down, released>>
  /\ UNCHANGED <<device, gamepad, output>>
ApplyLater ==
  /\ _setup_key_handlers
  /\ UNCHANGED <<device, gamepad, menu, output>>

Next ==
  \/ \E d \in Direction : Frame(d)
  \/ \E a \in Axis : Move(a)
  \/ OpenMenu \/ CloseMenu \/ ApplyLater

Spec == Init /\ [][Next]_vars

-----------------------------------------------------------------------------
(* A key never drives the other way by more than the step of one tap,      *)
(* however it is tapped, held and exchanged for the other, and once no key *)
(* is read the value is back at zero in a bounded number of frames (update *)
(* of KeyAxisHandler.py).                                                  *)
KeysObeyed ==
  /\ down # 0 => down * value >= -Friction
  /\ released = Decay => value = 0

(* What is sent stays in its range; an axis at rest sends nothing, and one *)
(* at its end sends all of it, inverted or not (read_inputs of             *)
(* GamepadController.py).                                                  *)
Rest == [a \in Axis |-> IF a = "steering" THEN calibration.center
                        ELSE IF calibration.invert THEN calibration.max ELSE calibration.min]
End == IF calibration.invert THEN calibration.min ELSE calibration.max
PadObeyed ==
  LET pad == read_inputs(axes)
  IN /\ \A v \in {output.throttle, output.steering} : v \in -Full .. Full
     /\ \A a \in Axis :
          /\ axes[a] = Rest[a] => pad[a] = 0
          /\ axes[a] = End /\ End # Rest[a] => pad[a] = Full

(* A key drives its own way.  Not so: a tap that comes late after quick    *)
(* ones takes more than it gives.                                          *)
NeverAgainst == down # 0 => down * value >= 0
=============================================================================
