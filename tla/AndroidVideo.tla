------------------------------ MODULE AndroidVideo ------------------------------
(***************************************************************************)
(* The video pipeline of the Android viewer.  Compose calls GstViewer on   *)
(* the main thread, as surfaces come and go and the screen is opened and   *)
(* left; a thread of its own runs the main loop of GLib and restarts the   *)
(* pipeline after errors; the streaming threads deliver the stream.        *)
(*                                                                         *)
(* Nothing locks gst_data: pausing on the main thread and restarting on    *)
(* the thread of the loop are sequences of steps that interleave.          *)
(***************************************************************************)
EXTENDS Naturals

CONSTANTS
  MaxRestarts,  \* MAX_RESTARTS
  MaxFaults,    \* errors and ends of the stream (a bound)
  Prompt        \* the loop runs before anyone asks it to quit

Surface == 1 .. 2
Idle == {"idle", "pause", "release", "join"}

VARIABLES
  shown,      \* the viewer screen is composed
  surface,    \* the surface that Android provides, or 0
  last,       \* the one before it
  started,    \* isPipelineStarted
  ui,         \* what the main thread is in the middle of
  pipe,       \* state of gst_data.pipeline, "none" without one
  build,      \* with a decoder of its own, or with decodebin
  window,     \* native_window, or 0
  handle,     \* the window the sink draws on, or 0
  loop,       \* the thread of the main loop
  running,    \* is_running of the GMainLoop
  broken,     \* an error stopped the stream, or it ended
  bus,        \* and the message about it is on the bus
  idle,       \* restart_pipeline_cb queued
  restart,    \* where it is
  seen,       \* the window it has read
  restarts,   \* restart_count
  expired,    \* the window of 30 s has passed
  stats,      \* stats_enabled
  pad,        \* the output pad of decodebin
  timer,      \* stats_timer_id is set
  timers,     \* statistics timers that tick
  probe,      \* probe_id_decoder is set
  probes,     \* probes that count the buffers of the decoder
  faults,     \* how many there were
  failed      \* history: starting failed

screen == <<shown, surface, last, started, ui>>
sink == <<window, handle>>
thread == <<loop, running>>
errors == <<broken, bus, idle, faults>>
callback == <<restart, seen, restarts, expired>>
counting == <<stats, pad, timer, timers, probe, probes>>
vars == <<screen, pipe, build, sink, thread, errors, callback, counting, failed>>

TypeOK ==
  /\ shown \in BOOLEAN /\ surface \in Surface \cup {0} /\ last \in Surface
  /\ started \in BOOLEAN /\ ui \in Idle
  /\ pipe \in {"none", "null", "paused", "playing"} /\ build \in {"direct", "decodebin"}
  /\ window \in Surface \cup {0} /\ handle \in Surface \cup {0}
  /\ loop \in {"none", "starting", "running", "ended"} /\ running \in BOOLEAN
  /\ broken \in BOOLEAN /\ bus \in BOOLEAN /\ idle \in 0 .. MaxFaults /\ faults \in 0 .. MaxFaults
  /\ restart \in {"idle", "read", "apply", "play"} /\ seen \in Surface \cup {0}
  /\ restarts \in 0 .. MaxRestarts + 1 /\ expired \in BOOLEAN
  /\ stats \in BOOLEAN /\ pad \in {"none", "exposed", "linked"}
  /\ timer \in BOOLEAN /\ timers \in Nat /\ probe \in BOOLEAN /\ probes \in Nat
  /\ failed \in BOOLEAN

Init ==
  /\ shown = FALSE /\ surface = 0 /\ last = 1 /\ started = FALSE /\ ui = "idle"
  /\ pipe = "none" /\ build = "direct" /\ window = 0 /\ handle = 0
  /\ loop = "none" /\ running = FALSE
  /\ broken = FALSE /\ bus = FALSE /\ idle = 0 /\ faults = 0
  /\ restart = "idle" /\ seen = 0 /\ restarts = 0 /\ expired = TRUE
  /\ stats = FALSE /\ pad = "none" /\ timer = FALSE /\ timers = 0 /\ probe = FALSE /\ probes = 0
  /\ failed = FALSE

-----------------------------------------------------------------------------
(* Statistics *)

(* A timer is added whether or not one ticks; the probe of the decoder     *)
(* only without one, and with decodebin only once there is a pad.          *)
attach_stats_probes(how, output) ==
  LET add == ~probe /\ (how = "direct" \/ output # "none")
  IN  /\ timer' = TRUE /\ timers' = timers + 1
      /\ probe' = (probe \/ add)
      /\ probes' = IF add THEN probes + 1 ELSE probes

detach_stats_probes ==
  LET reached == pipe # "none" /\ probe /\ (build = "direct" \/ pad # "none")
  IN  /\ timer' = FALSE /\ timers' = IF timer THEN timers - 1 ELSE timers
      /\ probe' = FALSE
      /\ probes' = IF reached /\ probes > 0 THEN probes - 1 ELSE probes

SetStatsEnabled ==
  /\ ui = "idle"
  /\ stats' = ~stats
  /\ IF ~stats
     THEN IF pipe = "none" THEN UNCHANGED <<timer, timers, probe, probes>>
          ELSE attach_stats_probes(build, pad)
     ELSE detach_stats_probes
  /\ UNCHANGED <<screen, pipe, build, sink, thread, errors, callback, pad, failed>>

-----------------------------------------------------------------------------
(* The screen *)

Open ==
  /\ ~shown /\ ui = "idle" /\ surface = 0
  /\ shown' = TRUE
  /\ UNCHANGED <<surface, last, started, ui, pipe, build, sink, thread, errors, callback, counting,
                 failed>>

(* Whether decodebin or a decoder is used depends on the decoders of the   *)
(* device.  The callbacks that an earlier pipeline has queued are not      *)
(* withdrawn.                                                              *)
StartPipeline(how) ==
  /\ pipe' = "playing" /\ build' = how /\ pad' = "none"
  /\ window' = surface' /\ handle' = surface'
  /\ IF stats THEN attach_stats_probes(how, "none") ELSE UNCHANGED <<timer, timers, probe, probes>>
  /\ loop' = "starting" /\ running' = FALSE
  /\ broken' = FALSE /\ bus' = FALSE
  /\ restarts' = 0 /\ expired' = TRUE
  /\ UNCHANGED <<failed, restart, seen>>

(* The state change fails: the pipeline is dropped, the timer is not.      *)
StartFails(how) ==
  /\ pipe' = "none" /\ build' = how /\ pad' = "none"
  /\ window' = 0 /\ handle' = 0
  /\ IF stats
     THEN /\ timer' = TRUE /\ timers' = timers + 1
          /\ probe' = (probe \/ how = "direct") /\ probes' = 0
     ELSE UNCHANGED <<timer, timers, probe, probes>>
  /\ failed' = TRUE
  /\ restarts' = 0 /\ expired' = TRUE
  /\ UNCHANGED <<thread, broken, bus, restart, seen>>

ResumePipeline ==
  /\ IF pipe = "none" THEN UNCHANGED <<sink, pipe>>
     ELSE window' = surface' /\ handle' = surface' /\ pipe' = "playing"
  /\ UNCHANGED <<build, thread, broken, bus, callback, pad, timer, timers, probe, probes, failed>>

SurfaceCreated ==
  /\ shown /\ surface = 0 /\ ui = "idle"
  /\ surface' = 3 - last /\ last' = 3 - last
  /\ started' = TRUE
  /\ IF started THEN ResumePipeline
     ELSE \E how \in {"direct", "decodebin"} : StartPipeline(how) \/ (~failed /\ StartFails(how))
  /\ UNCHANGED <<shown, ui, idle, faults, stats>>

(* The surface goes: the sink is detached, the pipeline paused, the window *)
(* released.                                                               *)
SurfaceDestroyed ==
  /\ surface # 0 /\ ui = "idle"
  /\ IF pipe = "none" THEN surface' = 0 /\ UNCHANGED <<handle, ui>>
     ELSE handle' = 0 /\ ui' = "pause" /\ UNCHANGED surface
  /\ UNCHANGED <<shown, last, started, pipe, build, window, thread, errors, callback, counting,
                 failed>>

Pause ==
  /\ ui = "pause" /\ ui' = "release"
  /\ pipe' = "paused"
  /\ UNCHANGED <<shown, surface, last, started, build, sink, thread, errors, callback, counting,
                 failed>>

Release ==
  /\ ui = "release" /\ ui' = "idle"
  /\ window' = 0 /\ surface' = 0
  /\ UNCHANGED <<shown, last, started, pipe, build, handle, thread, errors, callback, counting,
                 failed>>

(* The viewer is left, or its relay or its queue is another: the loop is   *)
(* asked to quit, which one that does not run yet forgets.                 *)
StopPipeline ==
  /\ shown /\ ui = "idle"
  /\ Prompt => loop # "starting"
  /\ \E leave \in BOOLEAN : shown' = ~leave
  /\ started' = FALSE
  /\ ui' = "join" /\ running' = FALSE
  /\ UNCHANGED <<surface, last, pipe, build, sink, loop, errors, callback, counting, failed>>

Join_WithoutWaiting ==
  /\ ui = "join"
  /\ ui' = "idle" /\ loop' = "none"
  /\ pipe' = "none" /\ pad' = "none" /\ window' = 0 /\ handle' = 0
  /\ broken' = FALSE /\ bus' = FALSE
  /\ timer' = FALSE /\ timers' = IF timer THEN timers - 1 ELSE timers
  /\ probe' = FALSE /\ probes' = 0
  /\ restarts' = 0
  /\ UNCHANGED <<shown, surface, last, started, build, running, idle, faults, restart, seen,
                 expired, stats, failed>>

Join ==
  /\ ui = "join" /\ loop \in {"none", "ended"}
  /\ ui' = "idle" /\ loop' = "none"
  /\ pipe' = "none" /\ pad' = "none" /\ window' = 0 /\ handle' = 0
  /\ broken' = FALSE /\ bus' = FALSE
  /\ timer' = FALSE /\ timers' = IF timer THEN timers - 1 ELSE timers
  /\ probe' = FALSE /\ probes' = 0
  /\ restarts' = 0
  /\ UNCHANGED <<shown, surface, last, started, build, running, idle, faults, restart, seen,
                 expired, stats, failed>>

-----------------------------------------------------------------------------
(* The streaming threads *)

Fault ==
  /\ pipe = "playing" /\ ~broken /\ faults < MaxFaults
  /\ broken' = TRUE /\ bus' = TRUE /\ faults' = faults + 1
  /\ UNCHANGED <<screen, pipe, build, sink, thread, idle, callback, counting, failed>>

(* decodebin exposes its pad before it tells of it. *)
PadExposed ==
  /\ pipe = "playing" /\ ~broken /\ build = "decodebin" /\ pad = "none"
  /\ pad' = "exposed"
  /\ UNCHANGED <<screen, pipe, build, sink, thread, errors, callback, stats, timer, timers, probe,
                 probes, failed>>

on_decodebin_pad_added ==
  /\ pad = "exposed" /\ pad' = "linked"
  /\ probe' = (probe \/ stats) /\ probes' = IF stats THEN probes + 1 ELSE probes
  /\ UNCHANGED <<screen, pipe, build, sink, thread, errors, callback, stats, timer, timers, failed>>

-----------------------------------------------------------------------------
(* The thread of the main loop *)

LoopRun ==
  /\ loop = "starting" /\ loop' = "running" /\ running' = TRUE
  /\ UNCHANGED <<screen, pipe, build, sink, errors, callback, counting, failed>>

LoopEnd ==
  /\ loop = "running" /\ ~running /\ restart = "idle" /\ loop' = "ended"
  /\ UNCHANGED <<screen, pipe, build, sink, running, errors, callback, counting, failed>>

Dispatches == loop = "running" /\ running /\ restart = "idle"

on_error_Ignored ==
  /\ Dispatches /\ bus
  /\ bus' = FALSE
  /\ UNCHANGED <<screen, pipe, build, sink, thread, broken, idle, faults, callback, counting, failed>>

(* on_error and on_eos *)
on_error ==
  /\ Dispatches /\ bus
  /\ bus' = FALSE /\ idle' = idle + 1
  /\ UNCHANGED <<screen, pipe, build, sink, thread, broken, faults, callback, counting, failed>>

(* The pipeline is stopped, which flushes the bus and takes the pads away. *)
restart_pipeline_cb ==
  /\ Dispatches /\ idle > 0
  /\ idle' = idle - 1
  /\ restarts' = IF expired THEN 1 ELSE restarts + 1
  /\ expired' = FALSE
  /\ IF restarts' > MaxRestarts
     THEN /\ running' = FALSE
          /\ UNCHANGED <<pipe, pad, probes, broken, bus, restart>>
     ELSE /\ pipe' = "null" /\ pad' = "none" /\ broken' = FALSE /\ bus' = FALSE
          /\ probes' = IF build = "decodebin" THEN 0 ELSE probes
          /\ restart' = "read"
          /\ UNCHANGED running
  /\ UNCHANGED <<screen, build, sink, loop, faults, seen, stats, timer, timers, probe, failed>>

RestartRead ==
  /\ restart = "read" /\ restart' = "apply" /\ seen' = window
  /\ UNCHANGED <<screen, pipe, build, sink, thread, errors, restarts, expired, counting, failed>>

RestartApply ==
  /\ restart = "apply" /\ restart' = "play" /\ seen' = 0
  /\ handle' = IF seen # 0 THEN seen ELSE handle
  /\ UNCHANGED <<screen, pipe, build, window, thread, errors, restarts, expired, counting, failed>>

RestartPlay ==
  /\ restart = "play" /\ restart' = "idle"
  /\ \/ pipe' = "playing" /\ UNCHANGED running
     \/ UNCHANGED pipe /\ running' = FALSE
  /\ UNCHANGED <<screen, build, sink, loop, errors, seen, restarts, expired, counting, failed>>

WindowPasses ==
  /\ ~expired /\ expired' = TRUE
  /\ UNCHANGED <<screen, pipe, build, sink, thread, errors, restart, seen, restarts, counting, failed>>

-----------------------------------------------------------------------------
Main == Join \/ Pause \/ Release
Loop ==
  \/ LoopRun \/ LoopEnd \/ on_error \/ restart_pipeline_cb
  \/ RestartRead \/ RestartApply \/ RestartPlay

Next ==
  \/ SetStatsEnabled \/ Open \/ SurfaceCreated \/ SurfaceDestroyed \/ StopPipeline
  \/ Main \/ Loop
  \/ Fault \/ PadExposed \/ on_decodebin_pad_added \/ WindowPasses

Spec == Init /\ [][Next]_vars

(* Both threads go on, unless they wait.  Nothing is asked of the user, of *)
(* Android and of the network.                                             *)
Fairness == WF_vars(Main) /\ WF_vars(Loop)
FairSpec == Spec /\ Fairness

-----------------------------------------------------------------------------
(* A restart works on a pipeline that exists: gst_data.pipeline is dropped *)
(* and its elements are freed by the main thread only after the thread     *)
(* that restarts it has ended, whatever was queued before.                 *)
NotFreedInUse == restart # "idle" => pipe # "none"

(* Statistics are logged by one timer, and by none once they are off or    *)
(* the pipeline is gone, in whatever order the setting is changed and      *)
(* pipelines are started, restarted and stopped; a start that failed       *)
(* leaves its timer behind.                                                *)
TimerOwned == ~failed => timers = IF stats /\ pipe # "none" THEN 1 ELSE 0

(* An error or the end of the stream is answered by a restart, unless the  *)
(* loop has given up: also when the surface is lost, when the pipeline is  *)
(* resumed and when restarts queue up.                                     *)
Recovers == broken ~> (~broken \/ (loop = "running" /\ ~running) \/ loop = "ended")

(* Leaving the viewer ends the thread and the pipeline; the main thread    *)
(* does not wait for ever.  It does when the loop is asked to quit before  *)
(* it runs, which Prompt excludes.                                         *)
StopEnds == (ui = "join") ~> (ui = "idle")

(* The sink draws on the surface there is, when neither thread is at work  *)
(* on it.  A restart that overlaps the loss of a surface violates it.      *)
Attached == ui = "idle" /\ restart = "idle" => handle \in {0, surface}
=============================================================================
