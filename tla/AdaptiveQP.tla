------------------------------- MODULE AdaptiveQP -------------------------------
(***************************************************************************)
(* The QPManager of the streamer, which raises and lowers the least        *)
(* quantization of the encoder until its key frames have the size they     *)
(* should, and the encoder in its loop: the higher the quantization, the   *)
(* smaller the frame, by the scene that it sees.                           *)
(***************************************************************************)
EXTENDS Integers, FiniteSetsExt

CONSTANTS
  QpMin, QpMax,       \* the limits of the quantization
  MaxBytes,           \* max_i_frame_bytes
  MinStep, MaxStep,
  Cooldown,           \* cooldown_keyframes
  Scenes,             \* sizes of a key frame at QpMin
  MaxChanges,         \* changes of the scene (a bound)
  MaxFaults           \* settings that the encoder refuses (a bound)

Qp == QpMin .. QpMax
MinBytes == (MaxBytes * 85) \div 100

(* A step of the quantization makes a frame smaller by a tenth.            *)
Size(scene, qp) ==
  LET size[q \in Qp] == IF q = QpMin THEN scene ELSE (size[q - 1] * 9) \div 10
  IN  size[qp]

VARIABLES
  current,  \* _current_qp_min
  applied,  \* the one the encoder has
  since,    \* _keyframes_since_adjust
  scene,
  changes, faults

vars == <<current, applied, since, scene, changes, faults>>

TypeOK ==
  /\ current \in Qp /\ applied \in Qp /\ since \in 0 .. Cooldown
  /\ scene \in Scenes /\ changes \in 0 .. MaxChanges /\ faults \in 0 .. MaxFaults

Init ==
  /\ current = QpMin /\ applied = QpMin /\ since = 0
  /\ scene \in Scenes /\ changes = 0 /\ faults = 0

(* The ratio to the size in the middle between the least and the largest.  *)
Step_Largest(size) == Max({MaxStep, Min({MinStep, (2 * size) \div (MaxBytes + MinBytes)})})

Step(size) == Min({MaxStep, Max({MinStep, (2 * size) \div (MaxBytes + MinBytes)})})

Adjusted(size) ==
  CASE size > MaxBytes -> Min({current + Step(size), QpMax})
    [] size < MinBytes -> Max({current - Step(size), QpMin})
    [] OTHER -> current

_apply_qp ==
  \/ applied' = current' /\ UNCHANGED faults
  \/ faults < MaxFaults /\ faults' = faults + 1 /\ UNCHANGED applied

_adjust ==
  /\ current' = Adjusted(Size(scene, applied))
  /\ IF current' = current THEN UNCHANGED <<applied, faults>> ELSE _apply_qp

on_keyframe ==
  /\ IF since + 1 > Cooldown THEN _adjust /\ since' = 0
     ELSE since' = since + 1 /\ UNCHANGED <<current, applied, faults>>
  /\ UNCHANGED <<scene, changes>>

ChangeScene ==
  /\ changes < MaxChanges /\ changes' = changes + 1
  /\ \E s \in Scenes \ {scene} : scene' = s
  /\ UNCHANGED <<current, applied, since, faults>>

Next == on_keyframe \/ ChangeScene
Spec == Init /\ [][Next]_vars
FairSpec == Spec /\ WF_vars(on_keyframe)

-----------------------------------------------------------------------------
(* Key frames come to have the size they should, and keep it, unless the   *)
(* manager has come to a limit of the quantization: whatever the scene,    *)
(* and although the encoder may refuse a step, the steps neither overshoot *)
(* for ever nor stop short.  That the encoder is at the limit then does    *)
(* not hold: a last step that it refuses is not tried again.               *)
SizeSettles ==
  LET size == Size(scene, applied)
  IN  <>[](\/ size \in MinBytes .. MaxBytes
           \/ size > MaxBytes /\ current = QpMax
           \/ size < MinBytes /\ current = QpMin)
=============================================================================
