------------------------------- MODULE MCAndroid -------------------------------
(* The three parts of the Android viewer, one at a time: the screens and   *)
(* their connections, the control channel, and the video pipeline.  They   *)
(* share no state, so that every behaviour of one is checked beside the    *)
(* initial states of the others.                                           *)
EXTENDS Naturals, Sequences

CONSTANTS MaxAttempts, MaxChanges, MaxStarts, Careful,
          MaxRetries, MaxReplaced, Patient, ClockSteps,
          MaxRestarts, MaxFaults, Prompt

VARIABLES
  part,  \* which of them runs: "session", "control" or "video"
  screen, backStack, settings, connection, jobs, current, relay, sockets, used, made, reconnecting,
  held, open, changes, starts,
  transport, receiver, leaving, leaked, connected, peer, known, ahead, handling, stale, isShown,
  command, attempts, answers, streamer, heard, up, down, replaced,
  shown, surface, last, started, ui, pipe, build, window, handle, loop, running, broken, bus, idle,
  restart, seen, restarts, expired, stats, pad, timer, timers, probe, probes, faults, failed

sessionVars == <<screen, backStack, settings, connection, jobs, current, relay, sockets, used,
                 made, reconnecting, held, open, changes, starts>>
controlVars == <<transport, receiver, leaving, leaked, connected, peer, known, ahead, handling,
                 stale, isShown, command, attempts, answers, streamer, heard, up, down, replaced>>
videoVars == <<shown, surface, last, started, ui, pipe, build, window, handle, loop, running,
               broken, bus, idle, restart, seen, restarts, expired, stats, pad, timer, timers,
               probe, probes, faults, failed>>
vars == <<part, sessionVars, controlVars, videoVars>>

Session == INSTANCE AndroidSession
Control == INSTANCE AndroidControl
             WITH MaxChanges <- MaxReplaced, shown <- isShown, changes <- replaced
Video == INSTANCE AndroidVideo

Init ==
  /\ part \in {"session", "control", "video"}
  /\ Session!Init /\ Control!Init /\ Video!Init
  /\ part # "session" => settings = "udp"
  /\ part # "control" => transport = "udp"

Next ==
  /\ UNCHANGED part
  /\ \/ part = "session" /\ Session!Next /\ UNCHANGED <<controlVars, videoVars>>
     \/ part = "control" /\ Control!Next /\ UNCHANGED <<sessionVars, videoVars>>
     \/ part = "video" /\ Video!Next /\ UNCHANGED <<sessionVars, controlVars>>

AndroidSpec == Init /\ [][Next]_vars

(* The fairness of each part, for as long as it is the one that runs. *)
SessionFairness ==
  /\ WF_sessionVars(part = "session" /\ \E j \in jobs : Session!Step(j))
  /\ WF_sessionVars(part = "session" /\ Session!ClearError)
ControlFairness ==
  /\ WF_controlVars(part = "control" /\ Control!Start) /\ WF_controlVars(part = "control" /\ Control!Stopping)
  /\ WF_controlVars(part = "control" /\ Control!Bind) /\ WF_controlVars(part = "control" /\ Control!Retry)
  /\ WF_controlVars(part = "control" /\ Control!Handling)
  /\ WF_controlVars(part = "control" /\ Control!StreamerSends)
  /\ WF_controlVars(part = "control" /\ Control!StreamerTimeout)
  /\ SF_controlVars(part = "control" /\ Control!Receive("Syn"))
  /\ SF_controlVars(part = "control" /\ Control!StreamerReceives("Ack"))
VideoFairness ==
  WF_videoVars(part = "video" /\ Video!Main) /\ WF_videoVars(part = "video" /\ Video!Loop)

FairSpec == AndroidSpec /\ SessionFairness /\ ControlFairness /\ VideoFairness

-----------------------------------------------------------------------------
(* No tunnel and no socket of the viewer outlives its use, and what is     *)
(* shown was connected with the settings in force: NothingLeftOpen and     *)
(* InForce of AndroidSession, about MainActivity.kt and RelayConnection.kt.*)
ConnectedAsSet == Session!NothingLeftOpen /\ Session!InForce

(* A receiver comes to be connected in spite of losses and restarts, and   *)
(* every command of the user is called back: Connects and Answered of      *)
(* AndroidControl, about UDPReceiver.kt and Client.py.                     *)
Connects == part = "control" => Control!Connects /\ Control!Answered

(* Nothing is freed that the restart thread uses: NotFreedInUse of         *)
(* AndroidVideo, about nativeStop of gst_viewer.c.                         *)
NotFreedInUse == Video!NotFreedInUse

(* A broken stream is restarted: Recovers of AndroidVideo, about on_error  *)
(* and restart_pipeline_cb of gst_viewer.c.                                *)
PictureRecovers == part = "video" => Video!Recovers
=============================================================================
